------------------------------ MODULE NetProofs ------------------------------
(***************************************************************************)
(* Theorems about what a node exchanges with others and what it knows of   *)
(* them.                                                                   *)
(*                                                                         *)
(* Fetching announced objects (AskFor), for any number of peers and        *)
(* objects: the two indexes of mapAlreadyAskedFor never part and stay      *)
(* below the limit, and the requests for an object are Retry apart.        *)
(*                                                                         *)
(* Flow control (Flow), for messages, buffers, connections and time-outs   *)
(* of any size: the buffers are bounded, and a connection is dropped for   *)
(* inactivity only when both sides wait for the other to read.             *)
(*                                                                         *)
(* The address manager (AddrMan), for any addresses, bucket functions and  *)
(* sizes: its indexes and counters agree, peers.dat read back says what    *)
(* was dumped, and a tried address stays known.                            *)
(***************************************************************************)
EXTENDS AskFor, Flow, AddrMan, FiniteSetTheorems, NaturalsInduction, WellFoundedInduction, TLAPS

(***************************************************************************)
(* The second index of a limitedmap, as a sequence of pairs                *)
(***************************************************************************)

Entries(r) == {r[j] : j \in DOMAIN r}

\* Each key once, and the values ascend.
Sorted(r) ==
  \A j, l \in DOMAIN r : j < l => r[j][2] # r[l][2] /\ r[j][1] <= r[l][1]

LessThan == {ss \in Nat \X Nat : ss[1] < ss[2]}

\* The order of the naturals is well-founded.
LEMMA LessThanWF == IsWellFoundedOn(LessThan, Nat)
<1>1. IsWellFoundedOn(OpToRel(<, Nat), Nat)
  BY NatLessThanWellFounded
<1>2. OpToRel(<, Nat) = LessThan
  BY Zenon DEF OpToRel, LessThan
<1> QED
  BY <1>1, <1>2, Zenon

\* A set of naturals has a least element.
LEMMA LeastNat ==
  ASSUME NEW S \in SUBSET Nat, S # {}
  PROVE  \E x \in S : \A y \in S : x <= y
<1>1. PICK x \in S : \A y \in S : ~ (<<y, x>> \in LessThan)
  BY LessThanWF, WFMin
<1>2. ASSUME NEW y \in S PROVE x <= y
  <2>1. ~ (<<y, x>> \in LessThan)
    BY <1>1
  <2>2. <<y, x>> \in Nat \X Nat
    OBVIOUS
  <2>3. ~ (y < x)
    BY <2>1, <2>2 DEF LessThan
  <2> QED
    BY <2>3
<1> QED
  BY <1>2

\* The place of multimap::insert exists.
LEMMA PlaceExists ==
  ASSUME NEW r \in Seq(Nat \X Invs), Sorted(r), NEW v \in Nat
  PROVE  \E p \in 0 .. Len(r) : \A j \in DOMAIN r : r[j][1] <= v <=> j <= p
<1> DEFINE S == {p \in 0 .. Len(r) : \A j \in DOMAIN r : j > p => r[j][1] > v}
<1>1. Len(r) \in Nat /\ DOMAIN r = 1 .. Len(r)
  OBVIOUS
<1>2. Len(r) \in S
  BY <1>1
<1>3. S \subseteq Nat
  BY <1>1
<1>4. PICK p \in S : \A q \in S : p <= q
  BY <1>2, <1>3, LeastNat
<1>5. \A j \in DOMAIN r : r[j][1] \in Nat
  OBVIOUS
<1>6. ASSUME NEW j \in DOMAIN r, j <= p PROVE r[j][1] <= v
  <2>1. p \in 1 .. Len(r) /\ p - 1 \in 0 .. Len(r) /\ j \in Nat
    BY <1>1, <1>6
  <2>8. ~ (p <= p - 1)
    BY <2>1
  <2>2. p - 1 \notin S
    BY <1>4, <2>8, Zenon
  <2>3. PICK l \in DOMAIN r : l > p - 1 /\ ~ (r[l][1] > v)
    BY <2>1, <2>2
  <2>4. l = p
    BY <1>1, <1>4, <2>1, <2>3
  <2>5. r[p][1] <= v
    BY <1>1, <1>5, <2>1, <2>3, <2>4
  <2>6. CASE j = p
    BY <2>5, <2>6
  <2>7. CASE j < p
    <3>1. r[j][1] <= r[p][1]
      BY <1>1, <2>1, <2>7 DEF Sorted
    <3> QED
      BY <1>1, <1>5, <2>1, <2>5, <3>1
  <2> QED
    BY <1>1, <1>6, <2>1, <2>6, <2>7
<1>7. ASSUME NEW j \in DOMAIN r, ~ (j <= p) PROVE ~ (r[j][1] <= v)
  <2>1. j > p
    BY <1>1, <1>7
  <2>2. r[j][1] > v
    BY <2>1
  <2> QED
    BY <1>5, <2>2
<1> QED
  BY <1>6, <1>7

\* s has the entries of r and e.
Gains(s, r, e) ==
  /\ s \in Seq(Nat \X Invs) /\ Len(s) = Len(r) + 1 /\ Sorted(s)
  /\ Entries(s) = Entries(r) \cup {e}

\* multimap::insert of a key that is not there adds the one entry.
LEMMA RInsertIs ==
  ASSUME NEW r \in Seq(Nat \X Invs), Sorted(r), NEW v \in Nat, NEW k \in Invs,
         \A j \in DOMAIN r : r[j][2] # k
  PROVE  Gains(RInsert(r, v, k), r, <<v, k>>)
<1>1. Len(r) \in Nat /\ DOMAIN r = 1 .. Len(r) /\ \A j \in DOMAIN r : r[j] \in Nat \X Invs
  OBVIOUS
<1> DEFINE P(x) == \A j \in DOMAIN r : r[j][1] <= v <=> j <= x
           p == CHOOSE x \in 0 .. Len(r) : P(x)
           s == RInsert(r, v, k)
<1>2. p \in 0 .. Len(r) /\ P(p)
  BY PlaceExists
<1>3. s = [j \in 1 .. Len(r) + 1 |->
             IF j <= p THEN r[j] ELSE IF j = p + 1 THEN <<v, k>> ELSE r[j - 1]]
  BY DEF RInsert
<1>4. \A j \in DOMAIN r : r[j][1] <= v <=> j <= p
  BY <1>2
<1>10. p \in Nat /\ p <= Len(r)
  BY <1>1, <1>2
<1> HIDE DEF p, s, P
<1>5. /\ s[p + 1] = <<v, k>>
      /\ \A j \in 1 .. p : s[j] = r[j]
      /\ \A j \in p + 2 .. Len(r) + 1 : s[j] = r[j - 1]
  BY <1>1, <1>2, <1>3
<1>6. \A j \in 1 .. Len(r) + 1 : s[j] \in Nat \X Invs
  BY <1>1, <1>2, <1>3
<1>7. s \in Seq(Nat \X Invs) /\ Len(s) = Len(r) + 1 /\ DOMAIN s = 1 .. Len(r) + 1
  BY <1>1, <1>3, <1>6
<1>8. Entries(s) = Entries(r) \cup {<<v, k>>}
  <2>1. ASSUME NEW j \in DOMAIN s PROVE s[j] \in Entries(r) \cup {<<v, k>>}
    <3>4. j \in 1 .. Len(r) + 1 /\ Len(r) \in Nat /\ DOMAIN r = 1 .. Len(r)
      BY <1>1, <1>7
    <3>1. CASE j <= p
      BY <1>1, <1>10, <1>5, <1>7, <3>1 DEF Entries
    <3>2. CASE j = p + 1
      BY <1>5, <3>2
    <3>3. CASE j > p + 1
      <4>1. j \in p + 2 .. Len(r) + 1 /\ j - 1 \in DOMAIN r
        BY <1>10, <3>3, <3>4
      <4> QED
        BY <1>5, <4>1 DEF Entries
    <3> QED
      BY <1>10, <3>1, <3>2, <3>3, <3>4
  <2>2. ASSUME NEW j \in DOMAIN r PROVE r[j] \in Entries(s)
    <3>3. j \in 1 .. Len(r) /\ Len(r) \in Nat /\ DOMAIN s = 1 .. Len(r) + 1
      BY <1>1, <1>7
    <3>1. CASE j <= p
      <4>1. j \in 1 .. p /\ j \in DOMAIN s
        BY <1>10, <3>1, <3>3
      <4> QED
        BY <1>5, <4>1 DEF Entries
    <3>2. CASE j > p
      <4>1. j + 1 \in p + 2 .. Len(r) + 1 /\ j + 1 \in DOMAIN s /\ (j + 1) - 1 = j
        BY <1>10, <3>2, <3>3
      <4>2. s[j + 1] = r[j]
        BY <1>5, <4>1
      <4> QED
        BY <4>1, <4>2 DEF Entries
    <3> QED
      BY <1>10, <3>1, <3>2, <3>3
  <2>3. <<v, k>> \in Entries(s)
    <3>1. p + 1 \in DOMAIN s
      BY <1>1, <1>10, <1>7
    <3> QED
      BY <1>5, <3>1 DEF Entries
  <2> QED
    BY <2>1, <2>2, <2>3 DEF Entries
<1>9. Sorted(s)
  <2> SUFFICES ASSUME NEW j \in DOMAIN s, NEW l \in DOMAIN s, j < l
               PROVE  s[j][2] # s[l][2] /\ s[j][1] <= s[l][1]
    BY DEF Sorted
  <2>1. /\ j \in 1 .. Len(r) + 1 /\ l \in 1 .. Len(r) + 1 /\ p \in Nat /\ Len(r) \in Nat
        /\ p <= Len(r)
    BY <1>1, <1>10, <1>7
  <2>7. \A i \in DOMAIN r : r[i][1] \in Nat
    BY <1>1
  <2>2. CASE l <= p
    <3>2. j \in 1 .. p /\ l \in 1 .. p /\ j \in 1 .. Len(r) /\ l \in 1 .. Len(r)
      BY <2>1, <2>2
    <3>1. j \in DOMAIN r /\ l \in DOMAIN r /\ s[j] = r[j] /\ s[l] = r[l]
      BY <1>1, <1>5, <3>2, Zenon
    <3> QED
      BY <3>1 DEF Sorted
  <2>3. CASE l = p + 1
    <3>3. j \in 1 .. p /\ j \in 1 .. Len(r) /\ j <= p
      BY <2>1, <2>3
    <3>1. j \in DOMAIN r /\ s[j] = r[j] /\ s[l] = <<v, k>> /\ j <= p
      BY <1>1, <1>5, <2>3, <3>3, Zenon
    <3>2. r[j][1] <= v /\ r[j][2] # k
      BY <1>4, <3>1
    <3> QED
      BY <3>1, <3>2
  <2>4. CASE l > p + 1 /\ j <= p
    <3>1. j \in DOMAIN r /\ l - 1 \in DOMAIN r /\ s[j] = r[j] /\ s[l] = r[l - 1] /\ j < l - 1
      <4>1. /\ j \in 1 .. p /\ j \in 1 .. Len(r) /\ l \in p + 2 .. Len(r) + 1
            /\ l - 1 \in 1 .. Len(r) /\ j < l - 1
        <5>1. l \in p + 2 .. Len(r) + 1 /\ l - 1 \in 1 .. Len(r)
          BY <2>1, <2>4, SMTT(30)
        <5> QED
          BY <2>1, <2>4, <5>1, SMTT(30)
      <4> QED
        BY <1>1, <1>5, <4>1, Zenon
    <3> QED
      BY <3>1 DEF Sorted
  <2>5. CASE l > p + 1 /\ j = p + 1
    <3>1. l - 1 \in DOMAIN r /\ s[j] = <<v, k>> /\ s[l] = r[l - 1] /\ ~ (l - 1 <= p)
      <4>1. l \in p + 2 .. Len(r) + 1 /\ l - 1 \in 1 .. Len(r) /\ ~ (l - 1 <= p)
        BY <2>1, <2>5
      <4> QED
        BY <1>1, <1>5, <2>5, <4>1, Zenon
    <3>2. ~ (r[l - 1][1] <= v) /\ r[l - 1][2] # k
      BY <1>4, <3>1
    <3>3. v <= r[l - 1][1]
      BY <2>7, <3>1, <3>2
    <3> QED
      BY <3>1, <3>2, <3>3
  <2>6. CASE l > p + 1 /\ j > p + 1
    <3>1. /\ j - 1 \in DOMAIN r /\ l - 1 \in DOMAIN r /\ s[j] = r[j - 1] /\ s[l] = r[l - 1]
          /\ j - 1 < l - 1
      <4>1. /\ j \in p + 2 .. Len(r) + 1 /\ l \in p + 2 .. Len(r) + 1
            /\ j - 1 \in 1 .. Len(r) /\ l - 1 \in 1 .. Len(r) /\ j - 1 < l - 1
        <5>1. l \in p + 2 .. Len(r) + 1 /\ l - 1 \in 1 .. Len(r)
          BY <2>1, <2>6
        <5>2. j \in p + 2 .. Len(r) + 1 /\ j - 1 \in 1 .. Len(r)
          BY <2>1, <2>6
        <5>3. j - 1 < l - 1
          BY <2>1
        <5> QED
          BY <5>1, <5>2, <5>3
      <4> QED
        BY <1>1, <1>5, <4>1, Zenon
    <3> QED
      BY <3>1 DEF Sorted
  <2> QED
    BY <2>1, <2>2, <2>3, <2>4, <2>5, <2>6
<1>11. Gains(s, r, <<v, k>>)
  BY <1>7, <1>8, <1>9 DEF Gains
<1> QED
  BY <1>11 DEF s

\* r without its entry at p.
Dropped(r, p) == [j \in 1 .. Len(r) - 1 |-> IF j < p THEN r[j] ELSE r[j + 1]]

\* s has the entries of r but e, and no other with e's key.
Loses(s, r, e) ==
  /\ s \in Seq(Nat \X Invs) /\ Len(s) = Len(r) - 1 /\ Sorted(s)
  /\ Entries(s) = Entries(r) \ {e} /\ \A j \in DOMAIN s : s[j][2] # e[2]

\* Without the entry at p the rest stays as it is.
LEMMA DropIs ==
  ASSUME NEW r \in Seq(Nat \X Invs), Sorted(r), NEW p \in DOMAIN r, NEW s,
         s = Dropped(r, p)
  PROVE  Loses(s, r, r[p])
<1>1. /\ Len(r) \in Nat /\ DOMAIN r = 1 .. Len(r) /\ \A j \in DOMAIN r : r[j] \in Nat \X Invs
      /\ Len(r) - 1 \in Nat
  OBVIOUS
<1>9. s = [j \in 1 .. Len(r) - 1 |-> IF j < p THEN r[j] ELSE r[j + 1]]
  BY DEF Dropped
<1>2. \A j \in 1 .. Len(r) - 1 : s[j] \in Nat \X Invs
  BY <1>1, <1>9
<1>3. s \in Seq(Nat \X Invs) /\ Len(s) = Len(r) - 1 /\ DOMAIN s = 1 .. Len(r) - 1
  BY <1>1, <1>2, <1>9
<1>4. ASSUME NEW j \in DOMAIN s
      PROVE  \E i \in DOMAIN r : i # p /\ s[j] = r[i] /\ i = IF j < p THEN j ELSE j + 1
  <2>1. CASE j < p
    <3>1. j \in DOMAIN r /\ j # p /\ s[j] = r[j]
      BY <1>1, <1>3, <1>9, <2>1
    <3> QED
      BY <2>1, <3>1
  <2>2. CASE ~ (j < p)
    <3>1. j + 1 \in DOMAIN r /\ j + 1 # p /\ s[j] = r[j + 1]
      BY <1>1, <1>3, <1>9, <2>2
    <3> QED
      BY <2>2, <3>1
  <2> QED
    BY <2>1, <2>2
<1>5. ASSUME NEW i \in DOMAIN r, i # p PROVE \E j \in DOMAIN s : s[j] = r[i]
  <2>1. CASE i < p
    <3>1. i \in DOMAIN s /\ s[i] = r[i]
      BY <1>1, <1>3, <1>9, <2>1
    <3> QED
      BY <3>1
  <2>2. CASE i > p
    <3>3. /\ i \in 1 .. Len(r) /\ p \in 1 .. Len(r) /\ Len(r) \in Nat
          /\ DOMAIN s = 1 .. Len(r) - 1
      BY <1>1, <1>3
    <3>1. i - 1 \in DOMAIN s /\ ~ (i - 1 < p) /\ (i - 1) + 1 = i
      BY <2>2, <3>3
    <3>2. s[i - 1] = r[i]
      BY <1>3, <1>9, <3>1
    <3> QED
      BY <3>1, <3>2
  <2> QED
    BY <1>1, <1>5, <2>1, <2>2
<1>6. \A i \in DOMAIN r : i # p => r[i][2] # r[p][2]
  BY <1>1 DEF Sorted
<1>7. Entries(s) = Entries(r) \ {r[p]}
  <2>1. ASSUME NEW e \in Entries(s) PROVE e \in Entries(r) \ {r[p]}
    <3>1. PICK j \in DOMAIN s : e = s[j]
      BY DEF Entries
    <3>2. PICK i \in DOMAIN r : i # p /\ s[j] = r[i]
      BY <1>4
    <3>3. r[i] # r[p]
      BY <1>6, <3>2
    <3> QED
      BY <3>1, <3>2, <3>3 DEF Entries
  <2>2. ASSUME NEW e \in Entries(r), e # r[p] PROVE e \in Entries(s)
    <3>1. PICK i \in DOMAIN r : e = r[i]
      BY DEF Entries
    <3>2. PICK j \in DOMAIN s : s[j] = r[i]
      BY <1>5, <2>2, <3>1
    <3> QED
      BY <3>1, <3>2 DEF Entries
  <2> QED
    BY <2>1, <2>2
<1>8. Sorted(s)
  <2> SUFFICES ASSUME NEW j \in DOMAIN s, NEW l \in DOMAIN s, j < l
               PROVE  s[j][2] # s[l][2] /\ s[j][1] <= s[l][1]
    BY DEF Sorted
  <2>1. PICK i \in DOMAIN r : s[j] = r[i] /\ i = IF j < p THEN j ELSE j + 1
    BY <1>4
  <2>2. PICK h \in DOMAIN r : s[l] = r[h] /\ h = IF l < p THEN l ELSE l + 1
    BY <1>4
  <2>4. j \in 1 .. Len(r) - 1 /\ l \in 1 .. Len(r) - 1 /\ p \in 1 .. Len(r) /\ Len(r) \in Nat
    BY <1>1, <1>3
  <2>5. (i = j /\ j < p) \/ (i = j + 1 /\ ~ (j < p))
    BY <2>1
  <2>6. (h = l /\ l < p) \/ (h = l + 1 /\ ~ (l < p))
    BY <2>2
  <2>7. j \in Nat /\ l \in Nat /\ p \in Nat
    BY <2>4, SMTT(30)
  <2>3. i < h
    <3>1. CASE l < p
      <4>1. j < p /\ ~ ~ (j < p)
        BY <2>7, <3>1
      <4>2. i = j /\ h = l
        BY <2>5, <2>6, <3>1, <4>1
      <4> QED
        BY <4>2
    <3>2. CASE ~ (l < p)
      <4>1. h = l + 1
        BY <2>6, <3>2
      <4>2. CASE i = j
        BY <2>7, <4>1, <4>2
      <4>3. CASE i = j + 1
        BY <2>7, <4>1, <4>3
      <4> QED
        BY <2>5, <4>2, <4>3
    <3> QED
      BY <3>1, <3>2
  <2> QED
    BY <2>1, <2>2, <2>3 DEF Sorted
<1> QED
  BY <1>3, <1>4, <1>6, <1>7, <1>8 DEF Loses

\* multimap::erase of the entry of a key takes that entry.
LEMMA REraseIs ==
  ASSUME NEW r \in Seq(Nat \X Invs), Sorted(r), NEW v, NEW k, <<v, k>> \in Entries(r)
  PROVE  Loses(RErase(r, v, k), r, <<v, k>>)
<1>1. PICK p \in DOMAIN r : /\ p = CHOOSE x \in DOMAIN r : r[x] = <<v, k>>
                            /\ r[p] = <<v, k>>
  BY DEF Entries
<1>2. RErase(r, v, k) = Dropped(r, p)
  BY <1>1 DEF RErase, Dropped
<1>3. Loses(Dropped(r, p), r, r[p])
  BY DropIs, Zenon
<1> QED
  BY <1>1, <1>2, <1>3, Zenon

\* The first entry is dropped likewise.
LEMMA TailIs ==
  ASSUME NEW r \in Seq(Nat \X Invs), Sorted(r), r # <<>>
  PROVE  Loses(Tail(r), r, r[1])
<1>1. 1 \in DOMAIN r
  OBVIOUS
<1>2. Tail(r) = Dropped(r, 1)
  <2>1. /\ Tail(r) \in Seq(Nat \X Invs) /\ Len(Tail(r)) = Len(r) - 1
        /\ \A j \in 1 .. Len(r) - 1 : Tail(r)[j] = r[j + 1]
    OBVIOUS
  <2>2. \A q \in Seq(Nat \X Invs) : q = [j \in 1 .. Len(q) |-> q[j]]
    OBVIOUS
  <2>3. Tail(r) = [j \in 1 .. Len(Tail(r)) |-> Tail(r)[j]]
    BY <2>1, <2>2
  <2>4. \A j \in 1 .. Len(r) - 1 : ~ (j < 1)
    OBVIOUS
  <2> QED
    BY <2>1, <2>3, <2>4 DEF Dropped
<1>3. Loses(Dropped(r, 1), r, r[1])
  BY <1>1, DropIs, Zenon
<1> QED
  BY <1>2, <1>3, Zenon

(***************************************************************************)
(* Both indexes                                                            *)
(***************************************************************************)

\* The entries of the map m, as rmap holds them.
Pairs(m) == {<<m[x], x>> : x \in DOMAIN m}

\* What insert, update and erase keep of a limitedmap with map m and rmap r:
\* Agree, with the types and the sizes.
Indexed(m, r) ==
  /\ DOMAIN m \subseteq Invs /\ \A x \in DOMAIN m : m[x] \in Nat
  /\ r \in Seq(Nat \X Invs)
  /\ Sorted(r)
  /\ Entries(r) = Pairs(m)
  /\ IsFiniteSet(DOMAIN m) /\ Cardinality(DOMAIN m) = Len(r)

\* A key that is not in the map has no entry in the second index.
LEMMA NotThere ==
  ASSUME NEW m, NEW r, Indexed(m, r), NEW k, k \notin DOMAIN m
  PROVE  \A j \in DOMAIN r : r[j][2] # k
<1> SUFFICES ASSUME NEW j \in DOMAIN r PROVE r[j][2] # k
  OBVIOUS
<1>1. r[j] \in Pairs(m)
  BY DEF Indexed, Entries
<1>2. PICK x \in DOMAIN m : r[j] = <<m[x], x>>
  BY <1>1 DEF Pairs
<1> QED
  BY <1>2

\* What is proved of a limitedmap by Indexed is Agree.
LEMMA IndexedAgrees ==
  ASSUME NEW lm, Indexed(lm.map, lm.rmap)
  PROVE  Agree(lm)
<1> DEFINE m == lm.map
           r == lm.rmap
<1>1. ASSUME NEW j \in DOMAIN r PROVE r[j][2] \in DOMAIN m /\ r[j][1] = m[r[j][2]]
  <2>1. r[j] \in Pairs(m)
    BY DEF Indexed, Entries
  <2>2. PICK x \in DOMAIN m : r[j] = <<m[x], x>>
    BY <2>1 DEF Pairs
  <2> QED
    BY <2>2
<1>2. ASSUME NEW x \in DOMAIN m PROVE \E j \in DOMAIN r : x = r[j][2]
  <2>1. <<m[x], x>> \in Entries(r)
    BY DEF Indexed, Pairs
  <2>2. PICK j \in DOMAIN r : r[j] = <<m[x], x>>
    BY <2>1 DEF Entries
  <2> QED
    BY <2>2
<1>3. DOMAIN m = {r[j][2] : j \in DOMAIN r}
  BY <1>1, <1>2
<1>4. Sorted(r)
  BY DEF Indexed
<1> QED
  BY <1>1, <1>3, <1>4 DEF Agree, Sorted

\* An entry for a new key goes into both.
LEMMA IndexedInsert ==
  ASSUME NEW m, NEW r, Indexed(m, r), NEW k \in Invs, k \notin DOMAIN m, NEW v \in Nat
  PROVE  /\ Indexed(MapSet(m, k, v), RInsert(r, v, k))
         /\ Len(RInsert(r, v, k)) = Len(r) + 1
<1>1. r \in Seq(Nat \X Invs) /\ Sorted(r) /\ \A j \in DOMAIN r : r[j][2] # k
  BY NotThere DEF Indexed
<1>2. /\ RInsert(r, v, k) \in Seq(Nat \X Invs) /\ Len(RInsert(r, v, k)) = Len(r) + 1
      /\ Sorted(RInsert(r, v, k))
      /\ Entries(RInsert(r, v, k)) = Entries(r) \cup {<<v, k>>}
  <2>1. Gains(RInsert(r, v, k), r, <<v, k>>)
    BY <1>1, RInsertIs, Zenon
  <2> QED
    BY <2>1 DEF Gains
<1>3. PICK n : n = MapSet(m, k, v)
  OBVIOUS
<1>4. DOMAIN n = DOMAIN m \cup {k} /\ n[k] = v /\ \A x \in DOMAIN m : n[x] = m[x]
  BY <1>3 DEF MapSet
<1>5. Pairs(n) = Pairs(m) \cup {<<v, k>>}
  BY <1>4 DEF Pairs
<1>6. IsFiniteSet(DOMAIN n) /\ Cardinality(DOMAIN n) = Len(r) + 1
  <2>1. IsFiniteSet(DOMAIN m) /\ Cardinality(DOMAIN m) = Len(r)
    BY DEF Indexed
  <2>2. /\ IsFiniteSet(DOMAIN m \cup {k})
        /\ Cardinality(DOMAIN m \cup {k}) = Cardinality(DOMAIN m) + 1
    BY <2>1, FS_AddElement
  <2> QED
    BY <1>4, <2>1, <2>2, Zenon
<1>7. Indexed(n, RInsert(r, v, k))
  BY <1>2, <1>4, <1>5, <1>6 DEF Indexed
<1> QED
  BY <1>2, <1>3, <1>7

\* The entry of a key goes from both.
LEMMA IndexedErase ==
  ASSUME NEW m, NEW r, Indexed(m, r), NEW k \in DOMAIN m, NEW s, Loses(s, r, <<m[k], k>>)
  PROVE  /\ Indexed(MapErase(m, k), s)
         /\ Len(s) = Len(r) - 1
<1>1. /\ s \in Seq(Nat \X Invs) /\ Len(s) = Len(r) - 1 /\ Sorted(s)
      /\ Entries(s) = Entries(r) \ {<<m[k], k>>}
  BY DEF Loses
<1>2. PICK n : n = MapErase(m, k)
  OBVIOUS
<1>3. DOMAIN n = DOMAIN m \ {k} /\ \A x \in DOMAIN n : n[x] = m[x]
  BY <1>2 DEF MapErase
<1>4. Pairs(n) = Pairs(m) \ {<<m[k], k>>}
  BY <1>3 DEF Pairs
<1>5. IsFiniteSet(DOMAIN n) /\ Cardinality(DOMAIN n) = Len(r) - 1
  <2>1. IsFiniteSet(DOMAIN m) /\ Cardinality(DOMAIN m) = Len(r)
    BY DEF Indexed
  <2>2. /\ IsFiniteSet(DOMAIN m \ {k})
        /\ Cardinality(DOMAIN m \ {k}) = Cardinality(DOMAIN m) - 1
    BY <2>1, FS_RemoveElement
  <2> QED
    BY <1>3, <2>1, <2>2, Zenon
<1>6. Indexed(n, s)
  BY <1>1, <1>3, <1>4, <1>5 DEF Indexed
<1> QED
  BY <1>1, <1>2, <1>6

\* The entry that erase looks for is there.
LEMMA IndexedThere ==
  ASSUME NEW m, NEW r, Indexed(m, r), NEW k \in DOMAIN m
  PROVE  Loses(RErase(r, m[k], k), r, <<m[k], k>>)
<1>1. <<m[k], k>> \in Entries(r) /\ r \in Seq(Nat \X Invs) /\ Sorted(r)
  BY DEF Indexed, Pairs
<1> QED
  BY <1>1, REraseIs, Zenon

\* A limitedmap whose indexes agree and that is below its limit.
Held(lm) == Indexed(lm.map, lm.rmap) /\ Len(lm.rmap) < MaxAsked

\* insert, with what it drops at the limit.
LEMMA InsertHeld ==
  ASSUME NEW lm, Held(lm), NEW k \in Invs, k \notin DOMAIN lm.map, NEW v \in Nat
  PROVE  Held(Insert(lm, k, v, MaxAsked))
<1> DEFINE full == MaxAsked # 0 /\ Len(lm.rmap) + 1 = MaxAsked /\ lm.rmap # <<>>
<1>1. /\ Indexed(lm.map, lm.rmap) /\ Len(lm.rmap) \in Nat /\ MaxAsked \in Nat
      /\ MaxAsked > 1 /\ Len(lm.rmap) < MaxAsked /\ lm.rmap \in Seq(Nat \X Invs)
      /\ Sorted(lm.rmap)
  BY AskForAssumption DEF Held, Indexed
<1>2. CASE full
  <2>1. PICK m, s, e : m = MapErase(lm.map, lm.rmap[1][2]) /\ s = Tail(lm.rmap) /\ e = lm.rmap[1]
    OBVIOUS
  <2>2. Loses(s, lm.rmap, e)
    BY <1>1, <1>2, <2>1, TailIs
  <2>3. e \in Pairs(lm.map)
    BY <1>1, <1>2, <2>1 DEF Indexed, Entries
  <2>4. PICK x \in DOMAIN lm.map : e = <<lm.map[x], x>>
    BY <2>3 DEF Pairs
  <2>5. m = MapErase(lm.map, x)
    BY <2>1, <2>4
  <2>6. Indexed(m, s) /\ Len(s) = Len(lm.rmap) - 1
    BY <1>1, <2>2, <2>4, <2>5, IndexedErase
  <2>7. k \notin DOMAIN m
    BY <2>5 DEF MapErase
  <2>8. /\ Indexed(MapSet(m, k, v), RInsert(s, v, k))
        /\ Len(RInsert(s, v, k)) = Len(s) + 1
    BY <2>6, <2>7, IndexedInsert
  <2>9. Insert(lm, k, v, MaxAsked) = [map |-> MapSet(m, k, v), rmap |-> RInsert(s, v, k)]
    BY <1>2, <2>1 DEF Insert
  <2> QED
    BY <1>1, <2>6, <2>8, <2>9 DEF Held
<1>3. CASE ~full
  <2>1. /\ Indexed(MapSet(lm.map, k, v), RInsert(lm.rmap, v, k))
        /\ Len(RInsert(lm.rmap, v, k)) = Len(lm.rmap) + 1
    BY <1>1, IndexedInsert
  <2>2. Insert(lm, k, v, MaxAsked)
          = [map |-> MapSet(lm.map, k, v), rmap |-> RInsert(lm.rmap, v, k)]
    BY <1>3 DEF Insert
  <2>3. Len(lm.rmap) + 1 # MaxAsked
    BY <1>1, <1>3
  <2> QED
    BY <1>1, <2>1, <2>2, <2>3 DEF Held
<1> QED
  BY <1>2, <1>3

\* erase, of a key that is there or not.
LEMMA EraseHeld ==
  ASSUME NEW lm, Held(lm), NEW k
  PROVE  Held(Erase(lm, k))
<1>1. CASE Has(lm, k)
  <2>1. PICK s : s = RErase(lm.rmap, lm.map[k], k)
    OBVIOUS
  <2>2. Indexed(lm.map, lm.rmap) /\ k \in DOMAIN lm.map
    BY <1>1 DEF Held, Has
  <2>3. Loses(s, lm.rmap, <<lm.map[k], k>>)
    BY <2>1, <2>2, IndexedThere
  <2>4. Indexed(MapErase(lm.map, k), s) /\ Len(s) = Len(lm.rmap) - 1
    BY <2>2, <2>3, IndexedErase
  <2>5. Erase(lm, k) = [map |-> MapErase(lm.map, k), rmap |-> s]
    BY <1>1, <2>1 DEF Erase
  <2>6. Len(lm.rmap) \in Nat /\ MaxAsked \in Nat /\ Len(lm.rmap) < MaxAsked
    BY AskForAssumption DEF Held, Indexed
  <2> QED
    BY <2>4, <2>5, <2>6 DEF Held
<1>2. CASE ~ Has(lm, k)
  BY <1>2 DEF Erase
<1> QED
  BY <1>1, <1>2

\* update takes the old entry out and puts the new one in.
LEMMA UpdateHeld ==
  ASSUME NEW lm, Held(lm), NEW k \in DOMAIN lm.map, NEW v \in Nat
  PROVE  Held(Update(lm, k, v))
<1>1. PICK s, m : s = RErase(lm.rmap, lm.map[k], k) /\ m = MapErase(lm.map, k)
  OBVIOUS
<1>2. Indexed(lm.map, lm.rmap)
  BY DEF Held
<1>3. Loses(s, lm.rmap, <<lm.map[k], k>>)
  BY <1>1, <1>2, IndexedThere
<1>4. Indexed(m, s) /\ Len(s) = Len(lm.rmap) - 1
  BY <1>1, <1>2, <1>3, IndexedErase
<1>5. k \in Invs /\ k \notin DOMAIN m
  BY <1>1, <1>2 DEF MapErase, Indexed
<1>6. Indexed(MapSet(m, k, v), RInsert(s, v, k)) /\ Len(RInsert(s, v, k)) = Len(s) + 1
  BY <1>4, <1>5, IndexedInsert
<1>7. MapSet(m, k, v) = MapSet(lm.map, k, v)
  BY <1>1 DEF MapSet, MapErase
<1>8. Update(lm, k, v) = [map |-> MapSet(m, k, v), rmap |-> RInsert(s, v, k)]
  BY <1>1, <1>7 DEF Update
<1>9. Len(lm.rmap) \in Nat /\ Len(lm.rmap) < MaxAsked
  BY DEF Held, Indexed
<1> QED
  BY <1>4, <1>6, <1>8, <1>9 DEF Held

\* Moving a time back, and an entry with it.
LEMMA BeforeIs ==
  /\ \A a \in Nat : Before(a) \in Nat
  /\ \A a, b \in Nat : a <= b => Before(a) <= Before(b)
BY DEF Before

\* n is the map m, and s the index r, with every time moved back.
MapBack(m, n) == DOMAIN n = DOMAIN m /\ \A x \in DOMAIN m : n[x] = Before(m[x])
SeqBack(r, s) ==
  DOMAIN s = DOMAIN r /\ \A j \in DOMAIN r : s[j] = <<Before(r[j][1]), r[j][2]>>

\* Moving every time back keeps the entries together.
LEMMA BackEntries ==
  ASSUME NEW m, NEW r, Entries(r) = Pairs(m), NEW n, NEW s, MapBack(m, n), SeqBack(r, s)
  PROVE  Entries(s) = Pairs(n)
<1> USE DEF MapBack, SeqBack
<1>1. ASSUME NEW j \in DOMAIN s PROVE s[j] \in Pairs(n)
  <2>1. r[j] \in Pairs(m)
    BY DEF Entries
  <2>2. PICK x \in DOMAIN m : r[j] = <<m[x], x>>
    BY <2>1 DEF Pairs
  <2>3. s[j] = <<n[x], x>>
    BY <2>2
  <2> QED
    BY <2>3 DEF Pairs
<1>2. ASSUME NEW x \in DOMAIN n PROVE <<n[x], x>> \in Entries(s)
  <2>1. <<m[x], x>> \in Entries(r)
    BY DEF Pairs
  <2>2. PICK j \in DOMAIN r : r[j] = <<m[x], x>>
    BY <2>1 DEF Entries
  <2>3. s[j] = <<n[x], x>>
    BY <2>2
  <2> QED
    BY <2>3 DEF Entries
<1> QED
  BY <1>1, <1>2 DEF Entries, Pairs

\* Moving every time back keeps the order of the second index.
LEMMA BackSorted ==
  ASSUME NEW r \in Seq(Nat \X Invs), Sorted(r), NEW s, SeqBack(r, s)
  PROVE  Sorted(s)
<1> USE DEF SeqBack
<1> SUFFICES ASSUME NEW j \in DOMAIN r, NEW l \in DOMAIN r, j < l
             PROVE  s[j][2] # s[l][2] /\ s[j][1] <= s[l][1]
  BY DEF Sorted
<1>1. r[j][2] # r[l][2] /\ r[j][1] <= r[l][1]
  BY DEF Sorted
<1>2. r[j][1] \in Nat /\ r[l][1] \in Nat
  OBVIOUS
<1>3. Before(r[j][1]) <= Before(r[l][1])
  BY <1>1, <1>2, BeforeIs
<1> QED
  BY <1>1, <1>3

\* A sequence of pairs moved back is one.
LEMMA BackSeq ==
  ASSUME NEW r \in Seq(Nat \X Invs), NEW s,
         s = [j \in DOMAIN r |-> <<Before(r[j][1]), r[j][2]>>]
  PROVE  s \in Seq(Nat \X Invs) /\ Len(s) = Len(r)
<1>1. \A j \in DOMAIN r : <<Before(r[j][1]), r[j][2]>> \in Nat \X Invs
  <2> SUFFICES ASSUME NEW j \in DOMAIN r
               PROVE  <<Before(r[j][1]), r[j][2]>> \in Nat \X Invs
    OBVIOUS
  <2>1. r[j][1] \in Nat /\ r[j][2] \in Invs
    OBVIOUS
  <2>2. Before(r[j][1]) \in Nat
    BY <2>1, BeforeIs
  <2> QED
    BY <2>1, <2>2
<1>2. Len(r) \in Nat /\ DOMAIN r = 1 .. Len(r)
  OBVIOUS
<1>3. s \in [1 .. Len(r) -> Nat \X Invs]
  BY <1>1, <1>2
<1> QED
  BY <1>2, <1>3

\* A minute later both indexes still agree.
LEMMA BackHeld ==
  ASSUME NEW m, NEW r, Indexed(m, r), NEW n, NEW s,
         MapBack(m, n), SeqBack(r, s), s \in Seq(Nat \X Invs), Len(s) = Len(r)
  PROVE  Indexed(n, s)
<1>1. /\ DOMAIN m \subseteq Invs /\ \A x \in DOMAIN m : m[x] \in Nat
      /\ r \in Seq(Nat \X Invs) /\ Sorted(r) /\ Entries(r) = Pairs(m)
      /\ IsFiniteSet(DOMAIN m) /\ Cardinality(DOMAIN m) = Len(r)
  BY DEF Indexed
<1>5. Sorted(s)
  BY <1>1, BackSorted
<1>6. Entries(s) = Pairs(n)
  BY <1>1, BackEntries, Zenon
<1>7. \A x \in DOMAIN n : n[x] \in Nat
  BY <1>1, BeforeIs DEF MapBack
<1> QED
  BY <1>1, <1>5, <1>6, <1>7 DEF Indexed, MapBack

(***************************************************************************)
(* The steps                                                               *)
(***************************************************************************)

\* The time of a request is not in the past.
LEMMA RequestTimeIs ==
  ASSUME TypeOK, NEW i \in Invs, RequestTime(i) <= Base + MaxAhead
  PROVE  /\ RequestTime(i) \in Times /\ RequestTime(i) \in Nat /\ RequestTime(i) >= Base
         /\ Has(alreadyAskedFor, i) => RequestTime(i) >= alreadyAskedFor.map[i] + Retry
<1>1. Retry \in Nat /\ MaxAhead \in Nat /\ Base \in Nat
  BY AskForAssumption DEF Base
<1>2. CASE Has(alreadyAskedFor, i)
  <2>1. alreadyAskedFor.map[i] \in Nat
    BY <1>1, <1>2 DEF TypeOK, Has, Times
  <2>2. /\ RequestTime(i) \in Nat /\ RequestTime(i) >= Base
        /\ RequestTime(i) >= alreadyAskedFor.map[i] + Retry
    BY <1>1, <1>2, <2>1 DEF RequestTime, Later
  <2> QED
    BY <1>1, <2>2 DEF Times
<1>3. CASE ~ Has(alreadyAskedFor, i)
  BY <1>1, <1>3 DEF RequestTime, Times
<1> QED
  BY <1>2, <1>3

\* AskFor changes the map at the object, and may drop another.
LEMMA AskedMap ==
  ASSUME NEW p, NEW i, DoAskFor(p, i)
  PROVE  /\ DOMAIN alreadyAskedFor'.map \subseteq DOMAIN alreadyAskedFor.map \cup {i}
         /\ i \in DOMAIN alreadyAskedFor'.map /\ alreadyAskedFor'.map[i] = RequestTime(i)
         /\ \A x \in DOMAIN alreadyAskedFor'.map :
              x # i => x \in DOMAIN alreadyAskedFor.map
                       /\ alreadyAskedFor'.map[x] = alreadyAskedFor.map[x]
<1>1. PICK k : alreadyAskedFor'.map = MapSet(k, i, RequestTime(i))
               /\ (k = alreadyAskedFor.map \/ \E x : k = MapErase(alreadyAskedFor.map, x))
  BY DEF DoAskFor, Insert, Update
<1> QED
  BY <1>1 DEF MapSet, MapErase

\* What erase leaves of the map.
LEMMA ErasedMap ==
  ASSUME NEW lm, NEW k
  PROVE  /\ DOMAIN Erase(lm, k).map = DOMAIN lm.map \ {k}
         /\ \A x \in DOMAIN lm.map \ {k} : Erase(lm, k).map[x] = lm.map[x]
BY DEF Erase, Has, MapErase

\* TypeOK holds at the start.
LEMMA TypeInit == Init => TypeOK
BY DEF Init, TypeOK, EmptyMap

\* TypeOK is kept by every step.
LEMMA TypeStep == TypeOK /\ [Next]_vars => TypeOK'
<1> SUFFICES ASSUME TypeOK, [Next]_vars PROVE TypeOK'
  OBVIOUS
<1>0. /\ DOMAIN alreadyAskedFor.map \subseteq Invs
      /\ \A i \in DOMAIN alreadyAskedFor.map : alreadyAskedFor.map[i] \in Times
      /\ askFor \in [Peers -> SUBSET (Times \X Invs)] /\ requested \in [Peers -> SUBSET Invs]
      /\ connected \in [Peers -> BOOLEAN]
      /\ \A p \in Peers : connected[p] \/ askFor[p] \cup requested[p] = {}
      /\ have \subseteq Invs /\ evicted \subseteq Invs /\ announced \in [Peers -> SUBSET Invs]
  BY DEF TypeOK
<1>1. ASSUME NEW p \in Peers, NEW i \in Invs, Inv(p, i) PROVE TypeOK'
  <2>1. RequestTime(i) \in Times
    BY <1>1, RequestTimeIs DEF Inv
  <2>2. /\ DOMAIN alreadyAskedFor'.map \subseteq Invs
        /\ \A x \in DOMAIN alreadyAskedFor'.map : alreadyAskedFor'.map[x] \in Times
    <3>1. DoAskFor(p, i)
      BY <1>1 DEF Inv
    <3> QED
      BY <1>0, <2>1, <3>1, AskedMap
  <2>3. PICK e \in Times \X Invs : e = <<RequestTime(i), i>>
    BY <2>1
  <2>4. askFor' = [askFor EXCEPT ![p] = @ \cup {e}]
    BY <1>1, <2>3 DEF Inv, DoAskFor
  <2>5. askFor' \in [Peers -> SUBSET (Times \X Invs)]
    BY <1>0, <2>4
  <2>6. connected[p] /\ connected' = connected /\ requested' = requested /\ have' = have
    BY <1>1 DEF Inv
  <2>7. \A q \in Peers : connected'[q] \/ askFor'[q] \cup requested'[q] = {}
    BY <1>0, <2>4, <2>6
  <2>8. evicted' \subseteq Invs /\ announced' \in [Peers -> SUBSET Invs]
    BY <1>0, <1>1 DEF Inv
  <2> QED
    BY <1>0, <2>2, <2>5, <2>6, <2>7, <2>8 DEF TypeOK
<1>2. ASSUME NEW p \in Peers, NEW i \in Invs, Arrived(p, i), UNCHANGED <<askFor, connected>>
      PROVE  /\ askFor' \in [Peers -> SUBSET (Times \X Invs)]
             /\ requested' \in [Peers -> SUBSET Invs] /\ connected' \in [Peers -> BOOLEAN]
             /\ \A q \in Peers : connected'[q] \/ askFor'[q] \cup requested'[q] = {}
             /\ have' \subseteq Invs /\ evicted' \subseteq Invs
             /\ announced' \in [Peers -> SUBSET Invs]
  <2>1. requested' \in [Peers -> SUBSET Invs] /\ \A q \in Peers : requested'[q] \subseteq requested[q]
    BY <1>0, <1>2 DEF Arrived
  <2>2. announced' \in [Peers -> SUBSET Invs]
    BY <1>0, <1>2 DEF Arrived
  <2> QED
    BY <1>0, <1>2, <2>1, <2>2 DEF Arrived
<1>3. ASSUME NEW p \in Peers, NEW i \in Invs, Accept(p, i) PROVE TypeOK'
  <2>1. /\ DOMAIN alreadyAskedFor'.map \subseteq Invs
        /\ \A x \in DOMAIN alreadyAskedFor'.map : alreadyAskedFor'.map[x] \in Times
    <3>1. alreadyAskedFor' = Erase(alreadyAskedFor, i)
      BY <1>3 DEF Accept
    <3> QED
      BY <1>0, <3>1, ErasedMap
  <2> QED
    BY <1>2, <1>3, <2>1 DEF TypeOK, Accept
<1>4. ASSUME NEW p \in Peers, NEW i \in Invs, KeepOrphan(p, i) PROVE TypeOK'
  BY <1>0, <1>2, <1>4 DEF TypeOK, KeepOrphan
<1>5. ASSUME NEW p \in Peers, NEW i \in Invs, Refuse(p, i) PROVE TypeOK'
  <2>1. requested' \in [Peers -> SUBSET Invs] /\ \A q \in Peers : requested'[q] \subseteq requested[q]
    BY <1>0, <1>5 DEF Refuse
  <2> QED
    BY <1>0, <1>5, <2>1 DEF TypeOK, Refuse
<1>6. ASSUME NEW p \in Peers, SendGetData(p) PROVE TypeOK'
  <2>1. Due(p) \subseteq Times \X Invs
    BY <1>0 DEF Due
  <2>2. /\ askFor' \in [Peers -> SUBSET (Times \X Invs)]
        /\ \A q \in Peers : askFor'[q] \subseteq askFor[q]
    BY <1>0, <1>6 DEF SendGetData
  <2>3. {e[2] : e \in Due(p)} \subseteq Invs
    BY <2>1
  <2>4. /\ requested' \in [Peers -> SUBSET Invs]
        /\ \A q \in Peers \ {p} : requested'[q] = requested[q]
    BY <1>0, <1>6, <2>3 DEF SendGetData
  <2> QED
    BY <1>0, <1>6, <2>2, <2>4 DEF TypeOK, SendGetData
<1>7. ASSUME NEW p \in Peers, Disconnect(p) PROVE TypeOK'
  <2>1. /\ connected' = [connected EXCEPT ![p] = FALSE] /\ askFor' = [askFor EXCEPT ![p] = {}]
        /\ requested' = [requested EXCEPT ![p] = {}] /\ announced' = [announced EXCEPT ![p] = {}]
        /\ UNCHANGED <<alreadyAskedFor, have, evicted>>
    BY <1>7 DEF Disconnect
  <2>2. /\ askFor' \in [Peers -> SUBSET (Times \X Invs)] /\ requested' \in [Peers -> SUBSET Invs]
        /\ connected' \in [Peers -> BOOLEAN] /\ announced' \in [Peers -> SUBSET Invs]
    BY <1>0, <2>1
  <2>3. \A q \in Peers : connected'[q] \/ askFor'[q] \cup requested'[q] = {}
    BY <1>0, <2>1
  <2> QED
    BY <1>0, <2>1, <2>2, <2>3 DEF TypeOK
<1>8. ASSUME NEW p \in Peers, Connect(p) PROVE TypeOK'
  <2>1. connected' = [connected EXCEPT ![p] = TRUE]
    BY <1>8 DEF Connect
  <2>2. connected' \in [Peers -> BOOLEAN] /\ \A q \in Peers : connected[q] => connected'[q]
    BY <1>0, <2>1
  <2> QED
    BY <1>0, <1>8, <2>2 DEF TypeOK, Connect
<1>9. ASSUME Tick PROVE TypeOK'
  <2>1. \A a \in Times : Before(a) \in Times
    BY AskForAssumption DEF Before, Times, Base
  <2>2. /\ DOMAIN alreadyAskedFor'.map \subseteq Invs
        /\ \A x \in DOMAIN alreadyAskedFor'.map : alreadyAskedFor'.map[x] \in Times
    BY <1>0, <1>9, <2>1 DEF Tick
  <2>3. askFor' = [p \in Peers |-> {<<Before(e[1]), e[2]>> : e \in askFor[p]}]
    BY <1>9 DEF Tick
  <2>4. ASSUME NEW p \in Peers
        PROVE  {<<Before(e[1]), e[2]>> : e \in askFor[p]} \subseteq Times \X Invs
    BY <1>0, <2>1
  <2>5. askFor' \in [Peers -> SUBSET (Times \X Invs)]
    BY <2>3, <2>4
  <2>6. \A p \in Peers : askFor[p] = {} => askFor'[p] = {}
    BY <2>3
  <2> QED
    BY <1>0, <1>9, <2>2, <2>5, <2>6 DEF TypeOK, Tick
<1>10. ASSUME UNCHANGED vars PROVE TypeOK'
  BY <1>0, <1>10 DEF TypeOK, vars
<1> QED
  BY <1>1, <1>3, <1>4, <1>5, <1>6, <1>7, <1>8, <1>9, <1>10 DEF Next

(***************************************************************************)
(* AskedIndexed                                                            *)
(***************************************************************************)

\* AskedIndexed with the sizes of both indexes, which insert compares.
AskedInv == TypeOK /\ Held(alreadyAskedFor)

\* The empty map.
LEMMA HeldInit == Init => Held(alreadyAskedFor)
<1> SUFFICES ASSUME Init PROVE Held(alreadyAskedFor)
  OBVIOUS
<1>1. alreadyAskedFor = [map |-> <<>>, rmap |-> <<>>]
  BY DEF Init, EmptyMap
<1>2. IsFiniteSet({}) /\ Cardinality({}) = 0
  BY FS_EmptySet
<1>3. Entries(<<>>) = {} /\ Pairs(<<>>) = {} /\ Sorted(<<>>)
  BY DEF Entries, Pairs, Sorted
<1>6. DOMAIN <<>> = {} /\ <<>> \in Seq(Nat \X Invs) /\ Len(<<>>) = 0
  OBVIOUS
<1>4. PICK m : m = <<>> /\ DOMAIN m = {} /\ m \in Seq(Nat \X Invs) /\ Len(m) = 0
  BY <1>6, Zenon
<1>5. Indexed(m, m)
  BY <1>2, <1>3, <1>4 DEF Indexed
<1> QED
  BY <1>1, <1>4, <1>5, AskForAssumption DEF Held

\* Both indexes agree after every step.
LEMMA HeldStep == AskedInv /\ [Next]_vars => Held(alreadyAskedFor)'
<1> SUFFICES ASSUME TypeOK, Held(alreadyAskedFor), [Next]_vars
             PROVE  Held(alreadyAskedFor')
  BY DEF AskedInv, Held, Indexed, Entries, Pairs, Sorted
<1>0. PICK lm : lm = alreadyAskedFor /\ Held(lm)
  OBVIOUS
<1>1. ASSUME NEW p \in Peers, NEW i \in Invs, Inv(p, i) PROVE Held(alreadyAskedFor')
  <2>1. PICK v \in Nat : v = RequestTime(i)
    BY <1>1, RequestTimeIs DEF Inv
  <2>2. CASE Has(alreadyAskedFor, i)
    <3>1. i \in DOMAIN lm.map
      BY <1>0, <2>2 DEF Has
    <3>2. alreadyAskedFor' = Update(lm, i, v)
      BY <1>0, <1>1, <2>1, <2>2 DEF Inv, DoAskFor
    <3> QED
      BY <1>0, <3>1, <3>2, UpdateHeld
  <2>3. CASE ~ Has(alreadyAskedFor, i)
    <3>1. i \notin DOMAIN lm.map
      BY <1>0, <2>3 DEF Has
    <3>2. alreadyAskedFor' = Insert(lm, i, v, MaxAsked)
      BY <1>0, <1>1, <2>1, <2>3 DEF Inv, DoAskFor
    <3> QED
      BY <1>0, <3>1, <3>2, InsertHeld
  <2> QED
    BY <2>2, <2>3
<1>2. ASSUME NEW p \in Peers, NEW i \in Invs, Accept(p, i) PROVE Held(alreadyAskedFor')
  <2>1. alreadyAskedFor' = Erase(lm, i)
    BY <1>0, <1>2 DEF Accept
  <2> QED
    BY <1>0, <2>1, EraseHeld
<1>3. ASSUME Tick PROVE Held(alreadyAskedFor')
  <2>1. PICK m, r : m = lm.map /\ r = lm.rmap
    OBVIOUS
  <2>2. PICK n, s : /\ n = [i \in DOMAIN m |-> Before(m[i])]
                    /\ s = [j \in DOMAIN r |-> <<Before(r[j][1]), r[j][2]>>]
    OBVIOUS
  <2>3. alreadyAskedFor' = [map |-> n, rmap |-> s]
    BY <1>0, <1>3, <2>1, <2>2 DEF Tick
  <2>4. Indexed(m, r) /\ r \in Seq(Nat \X Invs) /\ Len(r) < MaxAsked
    BY <1>0, <2>1 DEF Held, Indexed
  <2>5. MapBack(m, n) /\ SeqBack(r, s)
    BY <2>2 DEF MapBack, SeqBack
  <2>6. s \in Seq(Nat \X Invs) /\ Len(s) = Len(r)
    BY <2>2, <2>4, BackSeq
  <2>7. Indexed(n, s)
    BY <2>4, <2>5, <2>6, BackHeld
  <2> QED
    BY <2>3, <2>4, <2>6, <2>7 DEF Held
<1>4. ASSUME NEW p \in Peers, NEW i \in Invs, KeepOrphan(p, i) \/ Refuse(p, i)
      PROVE  Held(alreadyAskedFor')
  BY <1>4 DEF KeepOrphan, Refuse
<1>5. ASSUME NEW p \in Peers, SendGetData(p) \/ Disconnect(p) \/ Connect(p)
      PROVE  Held(alreadyAskedFor')
  BY <1>5 DEF SendGetData, Disconnect, Connect
<1>6. ASSUME UNCHANGED vars PROVE Held(alreadyAskedFor')
  BY <1>6 DEF vars
<1> QED
  BY <1>1, <1>2, <1>3, <1>4, <1>5, <1>6 DEF Next

\* The inductive invariant of mapAlreadyAskedFor holds in every reachable
\* state.
THEOREM AskedInvariant == Spec => []AskedInv
<1>1. Init => AskedInv
  BY TypeInit, HeldInit DEF AskedInv
<1>2. AskedInv /\ [Next]_vars => AskedInv'
  <2> SUFFICES ASSUME AskedInv, [Next]_vars PROVE TypeOK' /\ Held(alreadyAskedFor)'
    BY DEF AskedInv
  <2>1. TypeOK'
    BY TypeStep DEF AskedInv
  <2>2. Held(alreadyAskedFor)'
    BY HeldStep
  <2> QED
    BY <2>1, <2>2
<1> QED
  BY <1>1, <1>2, PTL DEF Spec

\* limitedmap::update and erase always find the entry they look for, so their
\* assert(0) is never reached, and insert keeps the map below MAX_INV_SZ, for
\* any number of peers and objects and any limit.
THEOREM AskedIsIndexed == Spec => []AskedIndexed
<1>1. AskedInv => AskedIndexed
  <2> SUFFICES ASSUME AskedInv PROVE AskedIndexed
    OBVIOUS
  <2>1. Indexed(alreadyAskedFor.map, alreadyAskedFor.rmap)
    BY DEF AskedInv, Held
  <2>2. Agree(alreadyAskedFor)
    BY <2>1, IndexedAgrees
  <2>3. Cardinality(DOMAIN alreadyAskedFor.map) < MaxAsked
    BY DEF AskedInv, Held, Indexed
  <2> QED
    BY <2>2, <2>3 DEF AskedIndexed, AskedInv
<1> QED
  BY <1>1, AskedInvariant, PTL

(***************************************************************************)
(* RetriesSpaced                                                           *)
(***************************************************************************)

\* A step that schedules nothing and keeps the time of what is still missing.
LEMMA SpacedLess ==
  ASSUME RetriesSpaced,
         \A p \in Peers : askFor'[p] \subseteq askFor[p],
         \A i \in Invs \ (evicted' \cup have') :
           /\ i \notin evicted \cup have
           /\ i \in DOMAIN alreadyAskedFor.map =>
                i \in DOMAIN alreadyAskedFor'.map
                /\ alreadyAskedFor'.map[i] = alreadyAskedFor.map[i]
  PROVE  RetriesSpaced'
<1> SUFFICES ASSUME NEW i \in Invs, i \notin evicted' \cup have', NEW p \in Peers, NEW q \in Peers,
                    NEW e \in askFor'[p], NEW f \in askFor'[q], e[2] = i, f[2] = i
             PROVE  /\ i \in DOMAIN alreadyAskedFor'.map /\ e[1] <= alreadyAskedFor'.map[i]
                    /\ p # q \/ e # f => e[1] >= f[1] + Retry \/ f[1] >= e[1] + Retry
  BY DEF RetriesSpaced, Has
<1>1. i \notin evicted \cup have /\ e \in askFor[p] /\ f \in askFor[q]
  OBVIOUS
<1>2. /\ i \in DOMAIN alreadyAskedFor.map /\ e[1] <= alreadyAskedFor.map[i]
      /\ p # q \/ e # f => e[1] >= f[1] + Retry \/ f[1] >= e[1] + Retry
  BY <1>1 DEF RetriesSpaced, Has
<1> QED
  BY <1>2

\* A new request is Retry after every other, and no other step brings two
\* together.
LEMMA SpacedStep == TypeOK /\ RetriesSpaced /\ [Next]_vars => RetriesSpaced'
<1> SUFFICES ASSUME TypeOK, RetriesSpaced, [Next]_vars PROVE RetriesSpaced'
  OBVIOUS
<1>0. /\ \A i \in DOMAIN alreadyAskedFor.map : alreadyAskedFor.map[i] \in Nat
      /\ \A p \in Peers : \A e \in askFor[p] : e[1] \in Nat /\ e = <<e[1], e[2]>>
      /\ Retry \in Nat /\ Retry > 0 /\ askFor \in [Peers -> SUBSET (Times \X Invs)]
  <2>1. Times \subseteq Nat
    BY AskForAssumption DEF Times, Base
  <2>2. askFor \in [Peers -> SUBSET (Times \X Invs)]
    BY DEF TypeOK
  <2>3. ASSUME NEW p \in Peers, NEW e \in askFor[p] PROVE e[1] \in Nat /\ e = <<e[1], e[2]>>
    <3>1. e \in Times \X Invs
      BY <2>2
    <3>2. e[1] \in Times /\ e = <<e[1], e[2]>>
      BY <3>1
    <3> QED
      BY <2>1, <3>2
  <2>4. \A i \in DOMAIN alreadyAskedFor.map : alreadyAskedFor.map[i] \in Nat
    BY <2>1 DEF TypeOK
  <2> QED
    BY <2>2, <2>3, <2>4, AskForAssumption
<1>1. ASSUME NEW p0 \in Peers, NEW i0 \in Invs, Inv(p0, i0) PROVE RetriesSpaced'
  <2>1. PICK v \in Nat : v = RequestTime(i0)
    BY <1>1, RequestTimeIs DEF Inv
  <2>2. Has(alreadyAskedFor, i0) => v >= alreadyAskedFor.map[i0] + Retry
    BY <1>1, <2>1, RequestTimeIs DEF Inv
  <2>3. /\ i0 \in DOMAIN alreadyAskedFor'.map /\ alreadyAskedFor'.map[i0] = v
        /\ \A x \in DOMAIN alreadyAskedFor'.map :
             x # i0 => x \in DOMAIN alreadyAskedFor.map
                       /\ alreadyAskedFor'.map[x] = alreadyAskedFor.map[x]
    <3>1. DoAskFor(p0, i0)
      BY <1>1 DEF Inv
    <3> QED
      BY <2>1, <3>1, AskedMap
  <2>4. askFor' = [askFor EXCEPT ![p0] = @ \cup {<<v, i0>>}]
    BY <1>1, <2>1 DEF Inv, DoAskFor
  <2>5. ASSUME NEW p \in Peers, NEW e \in askFor'[p]
        PROVE  e \in askFor[p] \/ (p = p0 /\ e = <<v, i0>>)
    BY <1>0, <2>4, <2>5
  <2>6. ASSUME NEW p \in Peers, NEW e \in askFor[p], e[2] = i0, i0 \notin evicted \cup have
        PROVE  e[1] + Retry <= v /\ e[1] \in Nat
    <3>1. Has(alreadyAskedFor, i0) /\ e[1] <= alreadyAskedFor.map[i0]
      BY <2>6 DEF RetriesSpaced
    <3>2. v >= alreadyAskedFor.map[i0] + Retry /\ alreadyAskedFor.map[i0] \in Nat
      BY <1>0, <2>2, <3>1 DEF Has
    <3> QED
      BY <1>0, <3>1, <3>2
  <2>7. /\ have' = have
        /\ evicted' = evicted \cup (DOMAIN alreadyAskedFor.map \ DOMAIN alreadyAskedFor'.map)
    BY <1>1 DEF Inv
  <2> SUFFICES ASSUME NEW i \in Invs, i \notin evicted' \cup have', NEW p \in Peers, NEW q \in Peers,
                      NEW e \in askFor'[p], NEW f \in askFor'[q], e[2] = i, f[2] = i
               PROVE  /\ i \in DOMAIN alreadyAskedFor'.map /\ e[1] <= alreadyAskedFor'.map[i]
                      /\ p # q \/ e # f => e[1] >= f[1] + Retry \/ f[1] >= e[1] + Retry
    BY DEF RetriesSpaced, Has
  <2>8. i \notin evicted \cup have
    BY <2>7
  <2>9. CASE e \in askFor[p] /\ f \in askFor[q]
    <3>1. /\ i \in DOMAIN alreadyAskedFor.map /\ e[1] <= alreadyAskedFor.map[i]
          /\ p # q \/ e # f => e[1] >= f[1] + Retry \/ f[1] >= e[1] + Retry
      BY <2>8, <2>9 DEF RetriesSpaced, Has
    <3>2. i \in DOMAIN alreadyAskedFor'.map
      BY <2>7, <3>1
    <3>3. e[1] <= alreadyAskedFor'.map[i]
      <4>1. CASE i = i0
        BY <1>0, <2>1, <2>3, <2>6, <2>8, <2>9, <4>1
      <4>2. CASE i # i0
        BY <2>3, <3>1, <3>2, <4>2
      <4> QED
        BY <4>1, <4>2
    <3> QED
      BY <3>1, <3>2, <3>3
  <2>10. CASE e \in askFor[p] /\ q = p0 /\ f = <<v, i0>>
    <3>1. i = i0 /\ f[1] = v
      BY <2>10
    <3>2. e[1] + Retry <= v /\ e[1] \in Nat
      BY <2>6, <2>8, <2>10, <3>1
    <3> QED
      BY <1>0, <2>1, <2>3, <3>1, <3>2
  <2>11. CASE p = p0 /\ e = <<v, i0>> /\ f \in askFor[q]
    <3>1. i = i0 /\ e[1] = v
      BY <2>11
    <3>2. f[1] + Retry <= v /\ f[1] \in Nat
      BY <2>6, <2>8, <2>11, <3>1
    <3> QED
      BY <1>0, <2>1, <2>3, <3>1, <3>2
  <2>12. CASE p = p0 /\ e = <<v, i0>> /\ q = p0 /\ f = <<v, i0>>
    BY <2>1, <2>3, <2>12
  <2> QED
    BY <2>5, <2>9, <2>10, <2>11, <2>12
<1>2. ASSUME NEW p \in Peers, NEW i \in Invs, Accept(p, i) PROVE RetriesSpaced'
  <2>1. alreadyAskedFor' = Erase(alreadyAskedFor, i)
    BY <1>2 DEF Accept
  <2>2. /\ DOMAIN alreadyAskedFor'.map = DOMAIN alreadyAskedFor.map \ {i}
        /\ \A x \in DOMAIN alreadyAskedFor.map \ {i} :
             alreadyAskedFor'.map[x] = alreadyAskedFor.map[x]
    BY <2>1, ErasedMap
  <2> QED
    BY <1>2, <2>2, SpacedLess DEF Accept, Arrived
<1>3. ASSUME NEW p \in Peers, NEW i \in Invs, KeepOrphan(p, i) PROVE RetriesSpaced'
  BY <1>3, SpacedLess DEF KeepOrphan, Arrived
<1>4. ASSUME NEW p \in Peers, NEW i \in Invs, Refuse(p, i) PROVE RetriesSpaced'
  BY <1>4, SpacedLess DEF Refuse
<1>5. ASSUME NEW p \in Peers, SendGetData(p) PROVE RetriesSpaced'
  <2>1. \A q \in Peers : askFor'[q] \subseteq askFor[q]
    BY <1>0, <1>5 DEF SendGetData
  <2> QED
    BY <1>5, <2>1, SpacedLess DEF SendGetData
<1>6. ASSUME NEW p \in Peers, Disconnect(p) PROVE RetriesSpaced'
  <2>1. \A q \in Peers : askFor'[q] \subseteq askFor[q]
    BY <1>0, <1>6 DEF Disconnect
  <2> QED
    BY <1>6, <2>1, SpacedLess DEF Disconnect
<1>7. ASSUME NEW p \in Peers, Connect(p) PROVE RetriesSpaced'
  BY <1>7, SpacedLess DEF Connect
<1>8. ASSUME Tick PROVE RetriesSpaced'
  <2>1. \A i \in DOMAIN alreadyAskedFor.map :
          /\ i \in DOMAIN alreadyAskedFor'.map
          /\ alreadyAskedFor'.map[i] = Before(alreadyAskedFor.map[i])
    BY <1>8 DEF Tick
  <2>2. ASSUME NEW p \in Peers, NEW e \in askFor'[p]
        PROVE  \E g \in askFor[p] :
                 e[1] = g[1] - 1 /\ e[2] = g[2] /\ g[1] > 0 /\ e = <<g[1] - 1, g[2]>>
    <3>1. PICK g \in askFor[p] : e = <<Before(g[1]), g[2]>>
      BY <1>8, <2>2 DEF Tick
    <3>2. g[1] > 0 /\ g[1] \in Nat
      BY <1>0, <1>8 DEF Tick
    <3>3. Before(g[1]) = g[1] - 1
      BY <3>2 DEF Before
    <3> QED
      BY <3>1, <3>2, <3>3
  <2>3. have' = have /\ evicted' = evicted
    BY <1>8 DEF Tick
  <2> SUFFICES ASSUME NEW i \in Invs, i \notin evicted' \cup have', NEW p \in Peers, NEW q \in Peers,
                      NEW e \in askFor'[p], NEW f \in askFor'[q], e[2] = i, f[2] = i
               PROVE  /\ i \in DOMAIN alreadyAskedFor'.map /\ e[1] <= alreadyAskedFor'.map[i]
                      /\ p # q \/ e # f => e[1] >= f[1] + Retry \/ f[1] >= e[1] + Retry
    BY DEF RetriesSpaced, Has
  <2>4. PICK g \in askFor[p] :
          e[1] = g[1] - 1 /\ e[2] = g[2] /\ g[1] > 0 /\ e = <<g[1] - 1, g[2]>>
    BY <2>2
  <2>5. PICK h \in askFor[q] :
          f[1] = h[1] - 1 /\ f[2] = h[2] /\ h[1] > 0 /\ f = <<h[1] - 1, h[2]>>
    BY <2>2
  <2>6. /\ i \in DOMAIN alreadyAskedFor.map /\ g[1] <= alreadyAskedFor.map[i]
        /\ p # q \/ g # h => g[1] >= h[1] + Retry \/ h[1] >= g[1] + Retry
    BY <2>3, <2>4, <2>5 DEF RetriesSpaced, Has
  <2>7. g[1] \in Nat /\ h[1] \in Nat /\ alreadyAskedFor.map[i] \in Nat
    BY <1>0, <2>6
  <2>8. e[1] <= alreadyAskedFor'.map[i]
    BY <2>1, <2>4, <2>6, <2>7 DEF Before
  <2>9. p # q \/ e # f => p # q \/ g # h
    BY <2>4, <2>5
  <2>10. p # q \/ e # f => e[1] >= f[1] + Retry \/ f[1] >= e[1] + Retry
    BY <1>0, <2>4, <2>5, <2>6, <2>7, <2>9
  <2> QED
    BY <2>1, <2>6, <2>8, <2>10
<1>9. ASSUME UNCHANGED vars PROVE RetriesSpaced'
  BY <1>9, SpacedLess DEF vars
<1> QED
  BY <1>1, <1>2, <1>3, <1>4, <1>5, <1>6, <1>7, <1>8, <1>9 DEF Next

\* The requests for an object that is still missing, to whatever peers, are
\* Retry minutes apart, and mapAlreadyAskedFor knows the last of them unless
\* it had to drop the object: "each retry is 2 minutes after the last".
THEOREM RetriesAreSpaced == Spec => []RetriesSpaced
<1>1. Init => TypeOK /\ RetriesSpaced
  BY TypeInit DEF Init, RetriesSpaced
<1>2. TypeOK /\ RetriesSpaced /\ [Next]_vars => (TypeOK /\ RetriesSpaced)'
  BY TypeStep, SpacedStep
<1> QED
  BY <1>1, <1>2, PTL DEF Spec

-----------------------------------------------------------------------------
(***************************************************************************)
(* Flow control between two nodes                                          *)
(***************************************************************************)

Bound == Larger(ReceiveFloodSize, MsgSize - 1)

\* The socket thread decided to receive when there was place for one recv(),
\* and since then the message thread only took messages out.
RecvInv ==
  \A x \in Sides :
    /\ recv[x] <= Bound + RecvChunk
    /\ mode[x] = "recv" => recv[x] <= Bound

\* What a side sent after the other last received is still on its way.
FreshInv ==
  \A x \in Sides : sinceRecv[x] <= sinceSend[Other(x)] \/ pipe[Other(x)] > 0

\* The other side of a side is not itself.
LEMMA OtherIs ==
  ASSUME NEW x \in Sides
  PROVE  /\ Other(x) \in Sides /\ Other(x) # x /\ Other(Other(x)) = x
         /\ \A y \in Sides : y = x \/ y = Other(x)
<1>1. PICK a \in Sides, b \in Sides : a # b /\ Sides = {a, b}
  BY FlowAssumption
<1>2. Other(x) \in Sides /\ Other(x) # x
  BY <1>1 DEF Other
<1>3. Other(Other(x)) \in Sides /\ Other(Other(x)) # Other(x)
  BY <1>1, <1>2 DEF Other
<1> QED
  BY <1>1, <1>2, <1>3

\* A message that is not there yet takes no room in the send buffer.
LEMMA EmptySendSize ==
  ASSUME NEW x \in Sides, queue[x] = 0
  PROVE  SendSize(x) = 0
<1>1. MsgSize \in Nat \ {0}
  BY FlowAssumption
<1>2. (MsgSize - 1) \div MsgSize = 0
  BY <1>1
<1>3. 0 + MsgSize - 1 = MsgSize - 1
  BY <1>1
<1> QED
  BY <1>1, <1>2, <1>3 DEF SendSize

\* The sizes are numbers.
LEMMA Sizes ==
  /\ MsgSize \in Nat \ {0} /\ PipeCap \in Nat \ {0} /\ RecvChunk \in Nat \ {0}
  /\ PingAfter \in Nat \ {0} /\ Timeout \in Nat /\ PingAfter < Timeout
  /\ SendBufferSize \in Nat /\ ReceiveFloodSize \in Nat /\ MaxReply \in Nat /\ MaxQueue \in Nat
  /\ Bound \in Nat /\ ReceiveFloodSize <= Bound /\ MsgSize - 1 <= Bound
  BY FlowAssumption DEF Bound, Larger

\* SocketSendData moves n bytes from the queue to the connection.
LEMMA SendData ==
  ASSUME FlowTypeOK, NEW x \in Sides, NEW bytes \in Nat, SocketSendData(x, bytes)
  PROVE  /\ queue' \in [Sides -> Nat] /\ pipe' \in [Sides -> 0 .. PipeCap]
         /\ sinceSend' \in [Sides -> 0 .. Timeout]
         /\ \A y \in Sides :
              \/ pipe'[y] = pipe[y] /\ sinceSend'[y] = sinceSend[y]
              \/ pipe'[y] > 0 /\ sinceSend'[y] = 0
<1> DEFINE n == Smaller(bytes, PipeCap - pipe[x])
<1>1. /\ queue \in [Sides -> Nat] /\ pipe \in [Sides -> 0 .. PipeCap]
      /\ sinceSend \in [Sides -> 0 .. Timeout]
  BY DEF FlowTypeOK
<1>2. n \in Nat /\ n <= bytes /\ pipe[x] + n \in 0 .. PipeCap
  BY <1>1, Sizes DEF Smaller
<1>3. /\ queue' = [queue EXCEPT ![x] = bytes - n]
      /\ pipe' = [pipe EXCEPT ![x] = @ + n]
      /\ sinceSend' = [sinceSend EXCEPT ![x] = IF n > 0 THEN 0 ELSE @]
  BY DEF SocketSendData
<1> HIDE DEF n
<1>4. queue' \in [Sides -> Nat]
  BY <1>1, <1>2, <1>3
<1>5. pipe' \in [Sides -> 0 .. PipeCap]
  BY <1>1, <1>2, <1>3
<1>6. sinceSend' \in [Sides -> 0 .. Timeout]
  BY <1>1, <1>3, Sizes
<1>7. ASSUME NEW y \in Sides
      PROVE  \/ pipe'[y] = pipe[y] /\ sinceSend'[y] = sinceSend[y]
             \/ pipe'[y] > 0 /\ sinceSend'[y] = 0
  <2>1. CASE y # x
    BY <1>1, <1>3, <2>1
  <2>2. CASE y = x /\ n = 0
    BY <1>1, <1>3, <2>2
  <2>3. CASE y = x /\ n > 0
    BY <1>1, <1>2, <1>3, <2>3
  <2> QED
    BY <1>2, <2>1, <2>2, <2>3
<1> QED
  BY <1>4, <1>5, <1>6, <1>7

\* The same for messages that are queued.
LEMMA PushData ==
  ASSUME FlowTypeOK, NEW x \in Sides, NEW k \in Nat, PushMessages(x, k)
  PROVE  /\ queue' \in [Sides -> Nat] /\ pipe' \in [Sides -> 0 .. PipeCap]
         /\ sinceSend' \in [Sides -> 0 .. Timeout]
         /\ \A y \in Sides :
              \/ pipe'[y] = pipe[y] /\ sinceSend'[y] = sinceSend[y]
              \/ pipe'[y] > 0 /\ sinceSend'[y] = 0
<1>1. k * MsgSize \in Nat
  BY Sizes
<1>2. CASE queue[x] = 0
  BY <1>1, <1>2, SendData DEF PushMessages
<1>3. CASE queue[x] # 0
  BY <1>1, <1>3 DEF PushMessages, FlowTypeOK
<1> QED
  BY <1>2, <1>3

(***************************************************************************)
(* Types and buffers                                                       *)
(***************************************************************************)

\* FlowTypeOK, with the three ages one by one.
LEMMA TypeParts ==
  FlowTypeOK <=>
    /\ up \in BOOLEAN /\ queue \in [Sides -> Nat] /\ pipe \in [Sides -> 0 .. PipeCap]
    /\ recv \in [Sides -> Nat] /\ mode \in [Sides -> {"loop", "send", "recv", "none"}]
    /\ sinceSend \in [Sides -> 0 .. Timeout] /\ sinceEmpty \in [Sides -> 0 .. Timeout]
    /\ sinceRecv \in [Sides -> 0 .. Timeout]
  BY DEF FlowTypeOK

\* The buffers are empty and typed at the start.
LEMMA FlowTypeInit == FlowInit => FlowTypeOK
  BY Sizes DEF FlowInit, FlowTypeOK

\* Every step of the two threads and of the peer keeps the types.
LEMMA FlowTypeStep == FlowTypeOK /\ [FlowNext]_flowVars => FlowTypeOK'
<1> SUFFICES ASSUME FlowTypeOK, [FlowNext]_flowVars PROVE FlowTypeOK'
  OBVIOUS
<1> USE DEF ages
<1>0. /\ up \in BOOLEAN /\ queue \in [Sides -> Nat] /\ pipe \in [Sides -> 0 .. PipeCap]
      /\ recv \in [Sides -> Nat] /\ mode \in [Sides -> {"loop", "send", "recv", "none"}]
      /\ sinceSend \in [Sides -> 0 .. Timeout] /\ sinceEmpty \in [Sides -> 0 .. Timeout]
      /\ sinceRecv \in [Sides -> 0 .. Timeout]
  BY TypeParts
<1>1. ASSUME NEW x \in Sides, SelectSend(x) \/ SelectRecv(x) \/ SelectNone(x) PROVE FlowTypeOK'
  BY <1>0, <1>1 DEF SelectSend, SelectRecv, SelectNone, FlowTypeOK
<1>2. ASSUME NEW x \in Sides, Service(x) PROVE FlowTypeOK'
  <2>1. up' \in BOOLEAN /\ mode' \in [Sides -> {"loop", "send", "recv", "none"}]
    BY <1>0, <1>2 DEF Service
  <2>2. sinceEmpty' \in [Sides -> 0 .. Timeout]
    BY <1>0, <1>2, Sizes DEF Service
  <2>3. CASE SocketSendData(x, queue[x]) /\ UNCHANGED <<recv, sinceRecv>>
    <3>1. queue[x] \in Nat
      BY <1>0
    <3>2. /\ queue' \in [Sides -> Nat] /\ pipe' \in [Sides -> 0 .. PipeCap]
          /\ sinceSend' \in [Sides -> 0 .. Timeout]
      BY <2>3, <3>1, SendData
    <3> QED
      BY <1>0, <2>1, <2>2, <2>3, <3>2 DEF FlowTypeOK
  <2>4. CASE /\ LET n == Smaller(RecvChunk, pipe[Other(x)])
                IN /\ recv' = [recv EXCEPT ![x] = @ + n]
                   /\ pipe' = [pipe EXCEPT ![Other(x)] = @ - n]
                   /\ sinceRecv' = [sinceRecv EXCEPT ![x] = IF n > 0 THEN 0 ELSE @]
             /\ UNCHANGED <<queue, sinceSend>>
    <3> DEFINE n == Smaller(RecvChunk, pipe[Other(x)])
    <3>1. Other(x) \in Sides
      BY OtherIs
    <3>2. n \in Nat /\ pipe[Other(x)] - n \in 0 .. PipeCap
      BY <1>0, <3>1, Sizes DEF Smaller
    <3> HIDE DEF n
    <3>3. /\ recv' = [recv EXCEPT ![x] = @ + n] /\ pipe' = [pipe EXCEPT ![Other(x)] = @ - n]
          /\ sinceRecv' = [sinceRecv EXCEPT ![x] = IF n > 0 THEN 0 ELSE @]
      BY <2>4 DEF n
    <3>4. recv' \in [Sides -> Nat]
      BY <1>0, <3>2, <3>3
    <3>5. pipe' \in [Sides -> 0 .. PipeCap]
      BY <1>0, <3>1, <3>2, <3>3
    <3>6. sinceRecv' \in [Sides -> 0 .. Timeout]
      BY <1>0, <3>3, Sizes
    <3> QED
      BY <1>0, <2>1, <2>2, <2>4, <3>4, <3>5, <3>6 DEF FlowTypeOK
  <2>5. CASE UNCHANGED <<queue, pipe, recv, sinceSend, sinceRecv>>
    BY <1>0, <2>1, <2>2, <2>5 DEF FlowTypeOK
  <2> QED
    BY <1>2, <2>3, <2>4, <2>5 DEF Service
<1>3. ASSUME NEW x \in Sides, ProcessMessage(x) PROVE FlowTypeOK'
  <2>1. PICK k \in 0 .. MaxReply : PushMessages(x, k)
    BY <1>3 DEF ProcessMessage
  <2>2. /\ queue' \in [Sides -> Nat] /\ pipe' \in [Sides -> 0 .. PipeCap]
        /\ sinceSend' \in [Sides -> 0 .. Timeout]
    BY <2>1, PushData, Sizes
  <2>3. recv' \in [Sides -> Nat]
    BY <1>0, <1>3, Sizes DEF ProcessMessage, Complete
  <2> QED
    BY <1>0, <1>3, <2>2, <2>3 DEF ProcessMessage, FlowTypeOK
<1>4. ASSUME NEW x \in Sides, Ping(x) \/ Announce(x) PROVE FlowTypeOK'
  <2>1. PushMessages(x, 1) /\ UNCHANGED <<up, recv, mode, sinceEmpty, sinceRecv>>
    BY <1>4 DEF Ping, Announce
  <2>2. /\ queue' \in [Sides -> Nat] /\ pipe' \in [Sides -> 0 .. PipeCap]
        /\ sinceSend' \in [Sides -> 0 .. Timeout]
    BY <2>1, PushData
  <2> QED
    BY <1>0, <2>1, <2>2 DEF FlowTypeOK
<1>5. CASE FlowTick
  <2>1. \A n \in 0 .. Timeout : Smaller(n + 1, Timeout) \in 0 .. Timeout
    BY Sizes DEF Smaller
  <2>2. /\ sinceSend' \in [Sides -> 0 .. Timeout] /\ sinceEmpty' \in [Sides -> 0 .. Timeout]
        /\ sinceRecv' \in [Sides -> 0 .. Timeout]
    BY <1>0, <1>5, <2>1 DEF FlowTick
  <2> QED
    BY <1>0, <1>5, <2>2 DEF FlowTick, FlowTypeOK
<1>6. CASE UNCHANGED flowVars
  BY <1>0, <1>6 DEF flowVars, FlowTypeOK
<1> QED
  BY <1>1, <1>2, <1>3, <1>4, <1>5, <1>6 DEF FlowNext, Closed

\* Only a read of the socket makes vRecvMsg longer, and it is not read when full.
LEMMA RecvStep == FlowTypeOK /\ RecvInv /\ [FlowNext]_flowVars => RecvInv'
<1> SUFFICES ASSUME FlowTypeOK, RecvInv, [FlowNext]_flowVars, NEW y \in Sides
             PROVE  recv'[y] <= Bound + RecvChunk /\ (mode'[y] = "recv" => recv'[y] <= Bound)
  BY DEF RecvInv
<1> USE DEF ages
<1>0. /\ pipe \in [Sides -> 0 .. PipeCap] /\ recv \in [Sides -> Nat]
      /\ mode \in [Sides -> {"loop", "send", "recv", "none"}]
  BY DEF FlowTypeOK
<1>r. recv[y] <= Bound + RecvChunk /\ (mode[y] = "recv" => recv[y] <= Bound)
  BY DEF RecvInv
<1>1. ASSUME NEW x \in Sides, SelectSend(x) \/ SelectNone(x)
      PROVE  recv'[y] <= Bound + RecvChunk /\ (mode'[y] = "recv" => recv'[y] <= Bound)
  BY <1>0, <1>r, <1>1 DEF SelectSend, SelectNone
<1>2. ASSUME NEW x \in Sides, SelectRecv(x)
      PROVE  recv'[y] <= Bound + RecvChunk /\ (mode'[y] = "recv" => recv'[y] <= Bound)
  <2>1. recv[x] <= Bound
    BY <1>0, <1>2, Sizes DEF SelectRecv, WantsData, Complete
  <2> QED
    BY <1>0, <1>r, <1>2, <2>1 DEF SelectRecv
<1>3. ASSUME NEW x \in Sides, Service(x)
      PROVE  recv'[y] <= Bound + RecvChunk /\ (mode'[y] = "recv" => recv'[y] <= Bound)
  <2>1. mode' = [mode EXCEPT ![x] = "loop"]
    BY <1>3 DEF Service
  <2>2. CASE recv' = recv
    BY <1>0, <1>r, <2>1, <2>2
  <2>3. CASE mode[x] = "recv" /\ recv' = [recv EXCEPT ![x] = @ + Smaller(RecvChunk, pipe[Other(x)])]
    <3>1. Smaller(RecvChunk, pipe[Other(x)]) \in Nat /\ Smaller(RecvChunk, pipe[Other(x)]) <= RecvChunk
      BY <1>0, OtherIs, Sizes DEF Smaller
    <3>2. CASE y = x
      BY <1>0, <1>r, <2>1, <2>3, <3>1, <3>2, Sizes
    <3>3. CASE y # x
      BY <1>0, <1>r, <2>1, <2>3, <3>3
    <3> QED
      BY <3>2, <3>3
  <2> QED
    BY <1>3, <2>2, <2>3 DEF Service
<1>4. ASSUME NEW x \in Sides, ProcessMessage(x)
      PROVE  recv'[y] <= Bound + RecvChunk /\ (mode'[y] = "recv" => recv'[y] <= Bound)
  <2>1. recv' = [recv EXCEPT ![x] = @ - MsgSize] /\ mode' = mode
    BY <1>4 DEF ProcessMessage
  <2>2. recv'[y] <= recv[y] /\ recv'[y] \in Int /\ recv[y] \in Nat
    BY <1>0, <2>1, Sizes
  <2> QED
    BY <1>r, <2>1, <2>2, Sizes
<1>5. ASSUME UNCHANGED <<recv, mode>>
      PROVE  recv'[y] <= Bound + RecvChunk /\ (mode'[y] = "recv" => recv'[y] <= Bound)
  BY <1>r, <1>5
<1> QED
  BY <1>1, <1>2, <1>3, <1>4, <1>5 DEF FlowNext, Ping, Announce, FlowTick, Closed, flowVars

\* A peer that sends faster than its messages are processed fills the receive
\* buffer at most to its limit and one recv() more, because what the socket
\* thread found before select() only gets better until it receives; and no
\* buffer of the two sides or of the connection leaves its range.
THEOREM BuffersAreBounded == FlowSpec => []BuffersBounded
<1>1. FlowInit => FlowTypeOK /\ RecvInv
  BY FlowTypeInit, Sizes DEF FlowInit, RecvInv
<1>2. FlowTypeOK /\ RecvInv /\ [FlowNext]_flowVars => FlowTypeOK' /\ RecvInv'
  BY FlowTypeStep, RecvStep
<1>3. FlowTypeOK /\ RecvInv => BuffersBounded
  BY DEF BuffersBounded, RecvBounded, RecvInv, Bound
<1> QED
  BY <1>1, <1>2, <1>3, PTL DEF FlowSpec

(***************************************************************************)
(* A connection is dropped for inactivity only when it is stalled          *)
(***************************************************************************)

\* No step lets a side look silent when it sent and nothing is on its way.
LEMMA FreshStep == FlowTypeOK /\ FreshInv /\ [FlowNext]_flowVars => FreshInv'
<1> SUFFICES ASSUME FlowTypeOK, FreshInv, [FlowNext]_flowVars, NEW z \in Sides
             PROVE  sinceRecv'[z] <= sinceSend'[Other(z)] \/ pipe'[Other(z)] > 0
  BY DEF FreshInv
<1> USE DEF ages
<1> DEFINE Goal == sinceRecv'[z] <= sinceSend'[Other(z)] \/ pipe'[Other(z)] > 0
<1>0. /\ up \in BOOLEAN /\ queue \in [Sides -> Nat] /\ pipe \in [Sides -> 0 .. PipeCap]
      /\ sinceSend \in [Sides -> 0 .. Timeout] /\ sinceRecv \in [Sides -> 0 .. Timeout]
  BY TypeParts
<1>z. /\ Other(z) \in Sides /\ (sinceRecv[z] <= sinceSend[Other(z)] \/ pipe[Other(z)] > 0)
  BY OtherIs DEF FreshInv
<1>s. ASSUME sinceRecv' = sinceRecv,
             \A y \in Sides : \/ pipe'[y] = pipe[y] /\ sinceSend'[y] = sinceSend[y]
                              \/ pipe'[y] > 0 /\ sinceSend'[y] = 0
      PROVE  Goal
  BY <1>z, <1>s
<1>1. CASE UNCHANGED <<pipe, sinceSend, sinceRecv>>
  BY <1>z, <1>1
<1>2. ASSUME NEW x \in Sides, Service(x) PROVE Goal
  <2>1. CASE SocketSendData(x, queue[x]) /\ UNCHANGED <<recv, sinceRecv>>
    <3>1. queue[x] \in Nat
      BY <1>0
    <3> QED
      BY <1>s, <2>1, <3>1, SendData
  <2>2. CASE /\ LET n == Smaller(RecvChunk, pipe[Other(x)])
                IN /\ recv' = [recv EXCEPT ![x] = @ + n]
                   /\ pipe' = [pipe EXCEPT ![Other(x)] = @ - n]
                   /\ sinceRecv' = [sinceRecv EXCEPT ![x] = IF n > 0 THEN 0 ELSE @]
             /\ UNCHANGED <<queue, sinceSend>>
    <3> DEFINE n == Smaller(RecvChunk, pipe[Other(x)])
    <3>1. Other(x) \in Sides /\ n \in Nat
      BY <1>0, OtherIs, Sizes DEF Smaller
    <3>2. n = 0 => pipe[Other(x)] = 0
      BY <1>0, <3>1, Sizes DEF Smaller
    <3> HIDE DEF n
    <3>3. /\ pipe' = [pipe EXCEPT ![Other(x)] = @ - n] /\ sinceSend' = sinceSend
          /\ sinceRecv' = [sinceRecv EXCEPT ![x] = IF n > 0 THEN 0 ELSE @]
      BY <2>2 DEF n
    <3>4. CASE z = x
      <4>1. CASE n > 0
        BY <1>0, <1>z, <3>3, <3>4, <4>1
      <4>2. CASE n = 0
        BY <1>0, <1>z, <3>2, <3>3, <3>4, <4>2
      <4> QED
        BY <3>1, <4>1, <4>2
    <3>5. CASE z # x
      <4>1. Other(z) # Other(x)
        BY <3>5, OtherIs
      <4> QED
        BY <1>0, <1>z, <3>3, <3>5, <4>1
    <3> QED
      BY <3>4, <3>5
  <2> QED
    BY <1>1, <1>2, <2>1, <2>2 DEF Service
<1>3. ASSUME NEW x \in Sides, ProcessMessage(x) PROVE Goal
  <2>1. PICK k \in 0 .. MaxReply : PushMessages(x, k)
    BY <1>3 DEF ProcessMessage
  <2>2. k \in Nat /\ sinceRecv' = sinceRecv
    BY <1>3, Sizes DEF ProcessMessage
  <2> QED
    BY <1>s, <2>1, <2>2, PushData
<1>4. ASSUME NEW x \in Sides, Ping(x) \/ Announce(x) PROVE Goal
  <2>1. PushMessages(x, 1) /\ sinceRecv' = sinceRecv
    BY <1>4 DEF Ping, Announce
  <2> QED
    BY <1>s, <2>1, PushData
<1>5. CASE FlowTick
  <2>1. /\ sinceSend'[Other(z)] = Smaller(sinceSend[Other(z)] + 1, Timeout)
        /\ sinceRecv'[z] = Smaller(sinceRecv[z] + 1, Timeout) /\ pipe' = pipe
    BY <1>5, <1>z DEF FlowTick
  <2> QED
    BY <1>0, <1>z, <2>1, Sizes DEF Smaller
<1> QED
  BY <1>1, <1>2, <1>3, <1>4, <1>5 DEF FlowNext, SelectSend, SelectRecv, SelectNone, Closed, flowVars

\* A side that has nothing to do before time passes, and nothing to send, has
\* taken all there is for it from the connection.
LEMMA IdleReads ==
  ASSUME FlowTypeOK, SendBufferSize > 0, NEW x \in Sides, ~Busy(x), queue[x] = 0
  PROVE  pipe[Other(x)] = 0
<1>1. SendSize(x) = 0
  BY EmptySendSize
<1>2. ~Complete(x)
  BY <1>1 DEF Busy
<1>3. WantsData(x)
  BY <1>2 DEF WantsData
<1>4. pipe[Other(x)] \in Nat
  BY OtherIs DEF FlowTypeOK
<1> QED
  BY <1>3, <1>4 DEF Busy

\* No step but FlowTick makes anything older.
LEMMA OnlyTickAges ==
  ASSUME FlowTypeOK, FlowNext, NEW x \in Sides, ~Inactive(x), Inactive(x)'
  PROVE  FlowTick
<1> USE DEF ages
<1>0. /\ sinceSend \in [Sides -> 0 .. Timeout] /\ sinceEmpty \in [Sides -> 0 .. Timeout]
      /\ sinceRecv \in [Sides -> 0 .. Timeout] /\ queue \in [Sides -> Nat]
  BY TypeParts
<1>1. SUFFICES ASSUME ~FlowTick
               PROVE  /\ sinceSend'[x] = sinceSend[x] \/ sinceSend'[x] = 0
                      /\ sinceEmpty'[x] = sinceEmpty[x] \/ sinceEmpty'[x] = 0
                      /\ sinceRecv'[x] = sinceRecv[x] \/ sinceRecv'[x] = 0
  <2>1. Inactive(x)' <=> \/ sinceSend'[x] >= Timeout /\ sinceEmpty'[x] >= Timeout
                         \/ sinceRecv'[x] >= Timeout
    BY DEF Inactive
  <2>2. ~(0 >= Timeout)
    BY Sizes
  <2> QED
    BY <1>1, <2>1, <2>2 DEF Inactive
<1>p. ASSUME NEW y \in Sides, NEW k \in Nat, PushMessages(y, k)
      PROVE  sinceSend'[x] = sinceSend[x] \/ sinceSend'[x] = 0
  BY <1>p, PushData
<1>2. ASSUME NEW y \in Sides, Service(y)
      PROVE  /\ sinceSend'[x] = sinceSend[x] \/ sinceSend'[x] = 0
             /\ sinceEmpty'[x] = sinceEmpty[x] \/ sinceEmpty'[x] = 0
             /\ sinceRecv'[x] = sinceRecv[x] \/ sinceRecv'[x] = 0
  BY <1>0, <1>2 DEF Service, SocketSendData
<1>3. ASSUME NEW y \in Sides, ProcessMessage(y)
      PROVE  /\ sinceSend'[x] = sinceSend[x] \/ sinceSend'[x] = 0
             /\ sinceEmpty'[x] = sinceEmpty[x] /\ sinceRecv'[x] = sinceRecv[x]
  BY <1>p, <1>3, Sizes DEF ProcessMessage
<1>4. ASSUME NEW y \in Sides, Ping(y) \/ Announce(y)
      PROVE  /\ sinceSend'[x] = sinceSend[x] \/ sinceSend'[x] = 0
             /\ sinceEmpty'[x] = sinceEmpty[x] /\ sinceRecv'[x] = sinceRecv[x]
  BY <1>p, <1>4 DEF Ping, Announce
<1> QED
  BY <1>1, <1>2, <1>3, <1>4 DEF FlowNext, SelectSend, SelectRecv, SelectNone, Closed, flowVars

\* The inactivity time-outs of ThreadSocketHandler run out only when both
\* sides have data to send that the connection does not take and therefore
\* select for sending only: in any other state the keep-alive ping is sent,
\* and received, before.  The send buffer has to be of some size.
THEOREM DroppedOnlyStalled ==
  ASSUME SendBufferSize > 0
  PROVE  FlowSpec => InactiveOnlyStalled
<1>1. FlowInit => FlowTypeOK /\ FreshInv
  BY FlowTypeInit, OtherIs, Sizes DEF FlowInit, FreshInv
<1>2. FlowTypeOK /\ FreshInv /\ [FlowNext]_flowVars => FlowTypeOK' /\ FreshInv'
  BY FlowTypeStep, FreshStep
<1>3. ASSUME FlowTypeOK, FreshInv, [FlowNext]_flowVars, NEW x \in Sides, ~Inactive(x), Inactive(x)'
      PROVE  Stalled
  <2>1. FlowNext
    <3>1. ~UNCHANGED flowVars
      BY <1>3 DEF Inactive, flowVars, ages
    <3> QED
      BY <1>3, <3>1
  <2>2. FlowTick
    BY <1>3, <2>1, OnlyTickAges
  <2>3. \A y \in Sides : ~Busy(y)
    BY <2>2 DEF FlowTick
  <2>4. /\ queue \in [Sides -> Nat] /\ pipe \in [Sides -> 0 .. PipeCap]
        /\ sinceSend \in [Sides -> 0 .. Timeout] /\ sinceEmpty \in [Sides -> 0 .. Timeout]
        /\ sinceRecv \in [Sides -> 0 .. Timeout]
    BY <1>3, TypeParts
  <2>5. \A y \in Sides : queue[y] > 0 => pipe[y] = PipeCap
    BY <2>3, <2>4, Sizes DEF Busy
  <2> DEFINE o == Other(x)
  <2>6. o \in Sides /\ Other(o) = x /\ \A y \in Sides : y = x \/ y = o
    BY OtherIs
  <2>7. \/ sinceEmpty[x] + 1 >= Timeout \/ sinceRecv[x] + 1 >= Timeout
    <3>1. /\ sinceEmpty'[x] = Smaller(sinceEmpty[x] + 1, Timeout)
          /\ sinceRecv'[x] = Smaller(sinceRecv[x] + 1, Timeout)
      BY <2>2 DEF FlowTick
    <3>2. sinceEmpty'[x] >= Timeout \/ sinceRecv'[x] >= Timeout
      BY <1>3 DEF Inactive
    <3> QED
      BY <2>4, <3>1, <3>2, Sizes DEF Smaller
  <2>8. queue[x] > 0
    <3> SUFFICES ASSUME queue[x] = 0 PROVE FALSE
      BY <2>4
    <3>1. pipe[o] = 0
      BY <1>3, <2>3, IdleReads
    <3>2. sinceEmpty[x] = 0
      BY <2>3, <2>4 DEF Busy
    <3>3. sinceRecv[x] + 1 >= Timeout
      BY <2>7, <3>2, Sizes
    <3>4. sinceRecv[x] <= sinceSend[o]
      BY <1>3, <3>1, Sizes DEF FreshInv
    <3>5. sinceSend[o] >= PingAfter
      BY <2>4, <2>6, <3>3, <3>4, Sizes
    <3>6. queue[o] # 0
      BY <2>3, <2>6, <3>5 DEF Busy, PingDue
    <3> QED
      BY <2>3, <2>4, <2>6, <3>1, <3>6, Sizes DEF Busy
  <2>9. pipe[x] = PipeCap
    BY <2>5, <2>8
  <2>10. queue[o] > 0
    <3> SUFFICES ASSUME queue[o] = 0 PROVE FALSE
      BY <2>4, <2>6
    <3>1. pipe[x] = 0
      BY <1>3, <2>3, <2>6, IdleReads
    <3> QED
      BY <2>9, <3>1, Sizes
  <2> QED
    BY <2>5, <2>6, <2>8, <2>10 DEF Stalled
<1>4. FlowTypeOK /\ FreshInv /\ [FlowNext]_flowVars
        => [\A x \in Sides : ~Inactive(x) /\ Inactive(x)' => Stalled]_flowVars
  BY <1>3
<1> QED
  BY <1>1, <1>2, <1>4, PTL DEF FlowSpec, InactiveOnlyStalled

-----------------------------------------------------------------------------
(***************************************************************************)
(* The address manager: induction over the naturals, for sets              *)
(***************************************************************************)

\* A set with 0 and, with each number, the next one, has all.
LEMMA Induct ==
  ASSUME NEW S, 0 \in S, \A n \in Nat : n \in S => n + 1 \in S
  PROVE  \A n \in Nat : n \in S
<1> SUFFICES ASSUME Nat \ S # {} PROVE FALSE
  OBVIOUS
<1>1. PICK x \in Nat \ S : \A y \in Nat \ S : x <= y
  BY LeastNat
<1>2. x # 0 /\ x - 1 \in Nat /\ x - 1 + 1 = x /\ ~(x <= x - 1)
  BY <1>1
<1> QED
  BY <1>1, <1>2

\* The same up to a bound.
LEMMA InductTo ==
  ASSUME NEW m \in Nat, NEW S, 0 \in S,
         \A n \in Nat : n + 1 <= m /\ n \in S => n + 1 \in S
  PROVE  \A n \in 0 .. m : n \in S
<1> DEFINE T == {n \in Nat : n <= m => n \in S}
<1>1. 0 \in T
  OBVIOUS
<1>2. ASSUME NEW n \in Nat, n \in T PROVE n + 1 \in T
  BY <1>2
<1> HIDE DEF T
<1>3. \A n \in Nat : n \in T
  BY <1>1, <1>2, Induct
<1> QED
  BY <1>3 DEF T

(***************************************************************************)
(* The invariant, on the parts of a CAddrMan object                        *)
(***************************************************************************)

\* A record with the fields of CAddrMan.
Rec(m) ==
  DOMAIN m = {"nIdCount", "mapInfo", "mapAddr", "vRandom", "nTried", "vvTried", "nNew", "vvNew"}

\* f is mapInfo.
Infos(f) == DOMAIN f \subseteq Nat /\ \A i \in DOMAIN f : f[i] \in CAddrInfos
TriedIds(f) == {i \in DOMAIN f : f[i].fInTried}
NewIds(f) == {i \in DOMAIN f : ~f[i].fInTried}

\* vRandom lists the ids of the entries, and each entry knows its place.
Shuffled(f, v) ==
  /\ v \in Seq(Nat)
  /\ \A p \in 1 .. Len(v) : v[p] \in DOMAIN f /\ f[v[p]].nRandomPos = p
  /\ \A i \in DOMAIN f : f[i].nRandomPos \in 1 .. Len(v) /\ v[f[i].nRandomPos] = i

\* mapAddr has the id of every entry under its network address.
Addressed(f, a) ==
  /\ DOMAIN a \subseteq Nets
  /\ \A x \in DOMAIN a : a[x] \in DOMAIN f /\ NetAddr[f[a[x]].addr] = x
  /\ \A i \in DOMAIN f : NetAddr[f[i].addr] \in DOMAIN a /\ a[NetAddr[f[i].addr]] = i

\* The new buckets an id is in.
In(new, i) == {b \in NewBuckets : i \in new[b]}

\* An entry counts its new buckets; one that is not tried is in some.
InBuckets(f, new) ==
  /\ new \in [NewBuckets -> SUBSET Nat]
  /\ \A b \in NewBuckets : new[b] \subseteq DOMAIN f
  /\ \A i \in DOMAIN f :
       /\ f[i].nRefCount = Cardinality(In(new, i))
       /\ f[i].fInTried => In(new, i) = {}
       /\ ~f[i].fInTried => In(new, i) # {} /\ f[i].nRefCount <= NewBucketsPerAddress

\* The tried entries are in the tried buckets of their addresses, once.
InTried(f, tried) ==
  /\ tried \in [TriedBuckets -> Seq(Nat)]
  /\ \A b \in TriedBuckets : \A p \in 1 .. Len(tried[b]) :
       /\ tried[b][p] \in TriedIds(f) /\ TriedBucketOf[f[tried[b][p]].addr] = b
       /\ \A q \in 1 .. Len(tried[b]) : tried[b][p] = tried[b][q] => p = q
  /\ \A i \in TriedIds(f) :
       /\ f[i].nLastSuccess # 0
       /\ \E p \in 1 .. Len(tried[TriedBucketOf[f[i].addr]]) : tried[TriedBucketOf[f[i].addr]][p] = i

Counted(f, nT, nN) == nT = Cardinality(TriedIds(f)) /\ nN = Cardinality(NewIds(f))

Below(f, n) == n \in Nat /\ \A i \in DOMAIN f : i < n

\* All of it, but for the new buckets and the sizes of the buckets.
Indexes(m) ==
  /\ Rec(m) /\ Infos(m.mapInfo) /\ Below(m.mapInfo, m.nIdCount)
  /\ Shuffled(m.mapInfo, m.vRandom) /\ Addressed(m.mapInfo, m.mapAddr)
  /\ InTried(m.mapInfo, m.vvTried) /\ Counted(m.mapInfo, m.nTried, m.nNew)

Man(m) == Indexes(m) /\ InBuckets(m.mapInfo, m.vvNew)

Bounded(new, tried) ==
  /\ \A b \in NewBuckets : Cardinality(new[b]) <= NewBucketSize
  /\ \A b \in TriedBuckets : Len(tried[b]) <= TriedBucketSize

\* The inductive invariant.
AddrInv == Man(am) /\ Bounded(am.vvNew, am.vvTried) /\ am.nIdCount \in Ids

-----------------------------------------------------------------------------
(***************************************************************************)
(* Consistent follows from it                                              *)
(***************************************************************************)

\* A sequence over what its elements are in.
LEMMA SeqOver ==
  ASSUME NEW s \in Seq(Nat), NEW S, \A p \in 1 .. Len(s) : s[p] \in S
  PROVE  s \in Seq(S)
<1>1. Len(s) \in Nat /\ s \in [1 .. Len(s) -> S]
  OBVIOUS
<1> QED
  BY <1>1

\* The entries, and the sets of them, are finite.
LEMMA EntriesFinite ==
  ASSUME NEW f, NEW n, Infos(f), Below(f, n)
  PROVE  /\ IsFiniteSet(DOMAIN f) /\ Cardinality(DOMAIN f) \in Nat
         /\ \A S \in SUBSET DOMAIN f : IsFiniteSet(S) /\ Cardinality(S) \in Nat
         /\ TriedIds(f) \in SUBSET DOMAIN f /\ NewIds(f) \in SUBSET DOMAIN f
<1>1. IsFiniteSet(0 .. n)
  BY FS_Interval DEF Below
<1>2. DOMAIN f \in SUBSET (0 .. n)
  BY DEF Infos, Below
<1>3. IsFiniteSet(DOMAIN f)
  BY <1>1, <1>2, FS_Subset
<1>4. \A S \in SUBSET DOMAIN f : IsFiniteSet(S)
  BY <1>3, FS_Subset
<1>5. TriedIds(f) \in SUBSET DOMAIN f /\ NewIds(f) \in SUBSET DOMAIN f
  BY DEF TriedIds, NewIds
<1> QED
  BY <1>3, <1>4, <1>5, FS_CardinalityType

\* An entry is tried or new.
LEMMA EntriesSplit ==
  ASSUME NEW f, NEW n, Infos(f), Below(f, n)
  PROVE  Cardinality(DOMAIN f) = Cardinality(TriedIds(f)) + Cardinality(NewIds(f))
<1>1. IsFiniteSet(TriedIds(f)) /\ IsFiniteSet(NewIds(f))
  BY EntriesFinite
<1>2. TriedIds(f) \cup NewIds(f) = DOMAIN f /\ TriedIds(f) \cap NewIds(f) = {}
  BY DEF TriedIds, NewIds
<1>3. Cardinality(TriedIds(f)) \in Nat /\ Cardinality(NewIds(f)) \in Nat /\ Cardinality({}) = 0
  BY <1>1, FS_CardinalityType, FS_EmptySet
<1>4. Cardinality(TriedIds(f) \cup NewIds(f)) =
        Cardinality(TriedIds(f)) + Cardinality(NewIds(f)) - Cardinality(TriedIds(f) \cap NewIds(f))
  BY <1>1, FS_Union
<1>5. Cardinality(DOMAIN f) = Cardinality(TriedIds(f)) + Cardinality(NewIds(f)) - Cardinality({})
  BY <1>2, <1>4, Zenon
<1> QED
  BY <1>3, <1>5

\* vRandom and mapAddr have as many entries as mapInfo.
LEMMA SameSizes ==
  ASSUME NEW f, NEW n, NEW v, NEW a, Infos(f), Below(f, n), Shuffled(f, v), Addressed(f, a)
  PROVE  Len(v) = Cardinality(DOMAIN f) /\ Cardinality(DOMAIN a) = Cardinality(DOMAIN f)
<1>1. IsFiniteSet(DOMAIN f)
  BY EntriesFinite
<1>2. Len(v) = Cardinality(DOMAIN f)
  <2> DEFINE g == [i \in DOMAIN f |-> f[i].nRandomPos]
  <2>1. g \in [DOMAIN f -> 1 .. Len(v)]
    BY DEF Shuffled
  <2>2. \A i, j \in DOMAIN f : g[i] = g[j] => i = j
    BY DEF Shuffled
  <2>3. \A p \in 1 .. Len(v) : \E i \in DOMAIN f : g[i] = p
    BY DEF Shuffled
  <2>4. g \in Bijection(DOMAIN f, 1 .. Len(v))
    <3> HIDE DEF g
    <3> QED
      BY <2>1, <2>2, <2>3, Zenon DEF Bijection, Injection, Surjection, IsInjective
  <2>5. ExistsBijection(DOMAIN f, 1 .. Len(v))
    BY <2>4, Zenon DEF ExistsBijection
  <2>6. Cardinality(1 .. Len(v)) = Cardinality(DOMAIN f)
    BY <1>1, <2>5, FS_Bijection
  <2>7. Len(v) \in Nat
    BY DEF Shuffled
  <2>8. Cardinality(1 .. Len(v)) = IF 1 > Len(v) THEN 0 ELSE Len(v) - 1 + 1
    BY <2>7, FS_Interval
  <2> QED
    BY <2>6, <2>7, <2>8
<1>3. Cardinality(DOMAIN a) = Cardinality(DOMAIN f)
  <2> DEFINE g == [i \in DOMAIN f |-> NetAddr[f[i].addr]]
  <2>1. g \in [DOMAIN f -> DOMAIN a]
    BY DEF Addressed
  <2>2. \A i, j \in DOMAIN f : g[i] = g[j] => i = j
    BY DEF Addressed
  <2>3. \A x \in DOMAIN a : \E i \in DOMAIN f : g[i] = x
    BY DEF Addressed
  <2>4. g \in Bijection(DOMAIN f, DOMAIN a)
    <3> HIDE DEF g
    <3> QED
      BY <2>1, <2>2, <2>3, Zenon DEF Bijection, Injection, Surjection, IsInjective
  <2>5. ExistsBijection(DOMAIN f, DOMAIN a)
    BY <2>4, Zenon DEF ExistsBijection
  <2> QED
    BY <1>1, <2>5, FS_Bijection
<1> QED
  BY <1>2, <1>3

\* A tried entry has one place, and a new one none.
LEMMA PlacesOf ==
  ASSUME NEW m, Man(m), Bounded(m.vvNew, m.vvTried), NEW i \in DOMAIN m.mapInfo
  PROVE  /\ i \in TriedIds(m.mapInfo) =>
              /\ Cardinality(PlacesInTried(m, i)) = 1
              /\ i \in ToSet(m.vvTried[TriedBucketOf[m.mapInfo[i].addr]])
         /\ i \notin TriedIds(m.mapInfo) => PlacesInTried(m, i) = {}
<1> DEFINE f == m.mapInfo
           T == m.vvTried
           c == TriedBucketOf[f[i].addr]
<1>1. InTried(f, T) /\ f[i].addr \in Services /\ c \in TriedBuckets /\ T[c] \in Seq(Nat)
  BY AddrManAssumption DEF Man, Indexes, Infos, CAddrInfos, InTried
<1>2. ASSUME NEW b \in TriedBuckets, NEW p \in 1 .. TriedBucketSize, p \in DOMAIN T[b], T[b][p] = i
      PROVE  i \in TriedIds(f) /\ b = c
  <2>1. T[b] \in Seq(Nat)
    BY <1>1 DEF InTried
  <2>2. p \in 1 .. Len(T[b])
    BY <1>2, <2>1
  <2> QED
    BY <1>1, <1>2, <2>2 DEF InTried
<1>3. ASSUME i \in TriedIds(f)
      PROVE  /\ Cardinality(PlacesInTried(m, i)) = 1
             /\ i \in ToSet(T[c])
  <2>1. PICK p \in 1 .. Len(T[c]) : T[c][p] = i
    BY <1>1, <1>3 DEF InTried
  <2>2. Len(T[c]) <= TriedBucketSize /\ TriedBucketSize \in Nat /\ Len(T[c]) \in Nat
    BY <1>1, AddrManAssumption DEF Bounded
  <2>3. p \in 1 .. TriedBucketSize /\ p \in DOMAIN T[c]
    BY <1>1, <2>1, <2>2
  <2>4. ASSUME NEW b \in TriedBuckets, NEW q \in 1 .. TriedBucketSize, q \in DOMAIN T[b], T[b][q] = i
        PROVE  b = c /\ q = p
    <3>1. b = c
      BY <1>2, <2>4
    <3>2. q \in 1 .. Len(T[c])
      BY <1>1, <2>4, <3>1
    <3> QED
      BY <1>1, <2>1, <2>4, <3>1, <3>2, SMTT(30) DEF InTried
  <2>5. PlacesInTried(m, i) = {<<c, p>>}
    <3> HIDE DEF c, f, T
    <3>1. <<c, p>> \in PlacesInTried(m, i)
      BY <1>1, <2>1, <2>3 DEF PlacesInTried, T
    <3>2. \A z \in PlacesInTried(m, i) : z = <<c, p>>
      BY <2>4 DEF PlacesInTried, T
    <3> QED
      BY <3>1, <3>2
  <2>6. i \in ToSet(T[c])
    BY <2>1, <2>3 DEF ToSet
  <2> QED
    BY <2>5, <2>6, FS_Singleton
<1>4. ASSUME i \notin TriedIds(f) PROVE PlacesInTried(m, i) = {}
  BY <1>2, <1>4 DEF PlacesInTried
<1> QED
  BY <1>3, <1>4

\* The invariant implies Consistent.
LEMMA InvConsistent == AddrInv => Consistent
<1> SUFFICES ASSUME AddrInv PROVE Consistent
  OBVIOUS
<1> DEFINE f == am.mapInfo
<1>1. /\ Man(am) /\ Bounded(am.vvNew, am.vvTried) /\ am.nIdCount \in Ids /\ Rec(am) /\ Infos(f)
      /\ Below(f, am.nIdCount) /\ Shuffled(f, am.vRandom) /\ Addressed(f, am.mapAddr)
      /\ InBuckets(f, am.vvNew) /\ InTried(f, am.vvTried) /\ Counted(f, am.nTried, am.nNew)
  BY DEF AddrInv, Man, Indexes
<1>s. Cardinality(Services) \in Nat /\ MaxIds \in Nat
  BY FS_CardinalityType, AddrManAssumption
<1>n. am.nIdCount \in Nat /\ \A k \in Nat : k < am.nIdCount => k \in Ids
  BY <1>1, <1>s DEF Ids
<1>i. DOMAIN f \subseteq Ids
  BY <1>1, <1>n DEF Infos, Below
<1>2. AddrTypeOK
  <2>1. DOMAIN am = DOMAIN CAddrMan
    BY <1>1 DEF CAddrMan, Rec
  <2>2. am.nTried \in Nat /\ am.nNew \in Nat
    BY <1>1, EntriesFinite DEF Counted
  <2>3. am.vRandom \in Seq(Ids)
    BY <1>1, <1>i DEF Shuffled
  <2>4. am.vvTried \in [TriedBuckets -> Seq(Ids)]
    <3>1. ASSUME NEW b \in TriedBuckets PROVE am.vvTried[b] \in Seq(Ids)
      <4>1. am.vvTried[b] \in Seq(Nat) /\ \A p \in 1 .. Len(am.vvTried[b]) : am.vvTried[b][p] \in Ids
        BY <1>1, <1>i DEF InTried, TriedIds
      <4> QED
        BY <4>1, SeqOver
    <3> QED
      BY <1>1, <3>1 DEF InTried
  <2>5. am.vvNew \in [NewBuckets -> SUBSET Ids]
    BY <1>1, <1>i DEF InBuckets
  <2>6. DOMAIN am.mapAddr \subseteq Nets /\ \A x \in DOMAIN am.mapAddr : am.mapAddr[x] \in Ids
    BY <1>1, <1>i DEF Addressed
  <2> QED
    BY <1>1, <1>i, <2>1, <2>2, <2>3, <2>4, <2>5, <2>6 DEF AddrTypeOK, Infos
<1>3. IndexesAgree
  <2>1. Len(am.vRandom) = Cardinality(DOMAIN f) /\ Cardinality(DOMAIN am.mapAddr) = Cardinality(DOMAIN f)
    BY <1>1, SameSizes
  <2>2. Len(am.vRandom) = am.nTried + am.nNew
    BY <1>1, <2>1, EntriesSplit DEF Counted
  <2>3. am.vRandom \in Seq(Nat) /\ DOMAIN am.vRandom = 1 .. Len(am.vRandom)
    BY <1>1 DEF Shuffled
  <2> QED
    BY <1>1, <2>1, <2>2, <2>3 DEF IndexesAgree, Shuffled, Addressed, Find, Below
<1>4. BucketsExact
  <2>1. ASSUME NEW i \in DOMAIN f
        PROVE  /\ f[i].nRefCount = Cardinality(InNew(am, i))
               /\ IF f[i].fInTried
                  THEN /\ f[i].nLastSuccess # 0
                       /\ f[i].nRefCount = 0
                       /\ Cardinality(PlacesInTried(am, i)) = 1
                       /\ i \in ToSet(am.vvTried[TriedBucketOf[f[i].addr]])
                  ELSE /\ f[i].nRefCount \in 1 .. NewBucketsPerAddress
                       /\ PlacesInTried(am, i) = {}
    <3>1. InNew(am, i) = In(am.vvNew, i)
      BY DEF InNew, In
    <3>2. In(am.vvNew, i) \in SUBSET NewBuckets
      BY DEF In
    <3>3. IsFiniteSet(In(am.vvNew, i))
      BY <3>2, FS_Subset, AddrManAssumption
    <3>4. Cardinality(In(am.vvNew, i)) \in Nat /\ (Cardinality(In(am.vvNew, i)) = 0 <=> In(am.vvNew, i) = {})
      BY <3>3, FS_CardinalityType, FS_EmptySet
    <3>5. CASE f[i].fInTried
      <4>1. i \in TriedIds(f)
        BY <3>5 DEF TriedIds
      <4> QED
        BY <1>1, <3>1, <3>4, <3>5, <4>1, PlacesOf DEF InBuckets, InTried
    <3>6. CASE ~f[i].fInTried
      <4>1. i \notin TriedIds(f)
        BY <3>6 DEF TriedIds
      <4>2. PlacesInTried(am, i) = {}
        BY <1>1, <4>1, PlacesOf
      <4>3. NewBucketsPerAddress \in Nat
        BY AddrManAssumption
      <4> QED
        BY <1>1, <3>1, <3>4, <3>6, <4>2, <4>3 DEF InBuckets
    <3> QED
      BY <3>5, <3>6
  <2>2. ASSUME NEW b \in TriedBuckets PROVE ToSet(am.vvTried[b]) \subseteq DOMAIN f
    <3>1. am.vvTried[b] \in Seq(Nat) /\ \A p \in 1 .. Len(am.vvTried[b]) : am.vvTried[b][p] \in DOMAIN f
      BY <1>1 DEF InTried, TriedIds
    <3> QED
      BY <3>1 DEF ToSet
  <2>3. \A b \in NewBuckets : am.vvNew[b] \subseteq DOMAIN f
    BY <1>1 DEF InBuckets
  <2>4. /\ am.nTried = Cardinality({i \in DOMAIN f : f[i].fInTried})
        /\ am.nNew = Cardinality({i \in DOMAIN f : ~f[i].fInTried})
    BY <1>1 DEF Counted, TriedIds, NewIds
  <2> QED
    BY <2>1, <2>2, <2>3, <2>4 DEF BucketsExact
<1>5. BucketsBounded
  BY <1>1 DEF Bounded, BucketsBounded
<1> QED
  BY <1>2, <1>3, <1>4, <1>5 DEF Consistent

-----------------------------------------------------------------------------
(***************************************************************************)
(* SwapRandom and Delete                                                   *)
(***************************************************************************)

\* The entries of g are those of f, at other places of vRandom perhaps.
Alike(f, g) ==
  \A i \in DOMAIN g :
    /\ i \in DOMAIN f /\ g[i] \in CAddrInfos /\ g[i].addr = f[i].addr /\ g[i].source = f[i].source
    /\ g[i].nLastSuccess = f[i].nLastSuccess /\ g[i].nRefCount = f[i].nRefCount
    /\ g[i].fInTried = f[i].fInTried

\* Two objects that differ in mapInfo and vRandom only.
SameBut(m, s) ==
  /\ s.nIdCount = m.nIdCount /\ s.mapAddr = m.mapAddr /\ s.nTried = m.nTried
  /\ s.vvTried = m.vvTried /\ s.nNew = m.nNew /\ s.vvNew = m.vvNew

\* SwapRandom exchanges two places.
LEMMA SwapFacts ==
  ASSUME NEW m, Rec(m), Infos(m.mapInfo), Shuffled(m.mapInfo, m.vRandom),
         NEW p \in 1 .. Len(m.vRandom), NEW q \in 1 .. Len(m.vRandom)
  PROVE  LET s == SwapRandom(m, p, q) IN
         /\ Rec(s) /\ SameBut(m, s) /\ DOMAIN s.mapInfo = DOMAIN m.mapInfo /\ Alike(m.mapInfo, s.mapInfo)
         /\ Infos(s.mapInfo) /\ Shuffled(s.mapInfo, s.vRandom)
         /\ Len(s.vRandom) = Len(m.vRandom) /\ s.vRandom[q] = m.vRandom[p]
<1> DEFINE f == m.mapInfo
           v == m.vRandom
           s == SwapRandom(m, p, q)
<1>1. CASE p = q
  <2>1. s = m
    BY <1>1 DEF SwapRandom
  <2> QED
    BY <1>1, <2>1 DEF SameBut, Alike, Infos
<1>2. CASE p # q
  <2> DEFINE i == v[p]
             j == v[q]
             F == [f EXCEPT ![i].nRandomPos = q, ![j].nRandomPos = p]
             V == [v EXCEPT ![p] = j, ![q] = i]
  <2>1. i \in DOMAIN f /\ j \in DOMAIN f /\ i # j
    BY <1>2 DEF Shuffled
  <2>2. s = [m EXCEPT !.mapInfo[i].nRandomPos = q, !.mapInfo[j].nRandomPos = p,
                      !.vRandom[p] = j, !.vRandom[q] = i]
    BY <1>2 DEF SwapRandom
  <2>3. Rec(s) /\ SameBut(m, s) /\ s.mapInfo = F /\ s.vRandom = V
    BY <2>2 DEF Rec, SameBut
  <2>4. v \in Seq(Nat) /\ Len(v) \in Nat /\ p \in Nat /\ q \in Nat /\ i \in Nat /\ j \in Nat
    BY DEF Shuffled
  <2>5. V \in Seq(Nat) /\ Len(V) = Len(v) /\ V[p] = j /\ V[q] = i
        /\ \A r \in 1 .. Len(v) : r # p /\ r # q => V[r] = v[r]
    BY <1>2, <2>4
  <2>6. /\ f[i] \in CAddrInfos /\ f[j] \in CAddrInfos /\ DOMAIN F = DOMAIN f
        /\ F[i] = [f[i] EXCEPT !.nRandomPos = q] /\ F[j] = [f[j] EXCEPT !.nRandomPos = p]
        /\ \A k \in DOMAIN f : k # i /\ k # j => F[k] = f[k]
    BY <2>1 DEF Infos
  <2> HIDE DEF F, V, s
  <2>7. ASSUME NEW k \in DOMAIN f
        PROVE  /\ F[k] \in CAddrInfos /\ F[k].addr = f[k].addr /\ F[k].source = f[k].source
               /\ F[k].nLastSuccess = f[k].nLastSuccess /\ F[k].nRefCount = f[k].nRefCount
               /\ F[k].fInTried = f[k].fInTried
               /\ F[k].nRandomPos = IF k = i THEN q ELSE IF k = j THEN p ELSE f[k].nRandomPos
    <3>1. f[k] \in CAddrInfos
      BY DEF Infos
    <3>2. CASE k = i
      BY <2>4, <2>6, <3>2 DEF CAddrInfos
    <3>3. CASE k = j /\ k # i
      BY <2>4, <2>6, <3>3 DEF CAddrInfos
    <3>4. CASE k # i /\ k # j
      BY <2>6, <3>1, <3>4
    <3> QED
      BY <3>2, <3>3, <3>4
  <2>8. Alike(f, F) /\ Infos(F)
    BY <2>6, <2>7 DEF Alike, Infos
  <2>9. Shuffled(F, V)
    <3>1. ASSUME NEW r \in 1 .. Len(v) PROVE V[r] \in DOMAIN f /\ F[V[r]].nRandomPos = r
      <4>0. v[r] \in DOMAIN f /\ f[v[r]].nRandomPos = r /\ f[i].nRandomPos = p /\ f[j].nRandomPos = q
        BY DEF Shuffled
      <4>1. CASE r = p
        BY <2>1, <2>5, <2>7, <4>1
      <4>2. CASE r = q
        BY <2>1, <2>5, <2>7, <4>2
      <4>3. CASE r # p /\ r # q
        <5>1. V[r] = v[r] /\ v[r] # i /\ v[r] # j
          BY <2>5, <4>0, <4>3
        <5> QED
          BY <2>7, <4>0, <5>1
      <4> QED
        BY <4>1, <4>2, <4>3
    <3>2. ASSUME NEW k \in DOMAIN f PROVE F[k].nRandomPos \in 1 .. Len(v) /\ V[F[k].nRandomPos] = k
      <4>0. f[k].nRandomPos \in 1 .. Len(v) /\ v[f[k].nRandomPos] = k
        BY DEF Shuffled
      <4>1. CASE k = i
        BY <2>5, <2>7, <4>1
      <4>2. CASE k = j /\ k # i
        BY <2>5, <2>7, <4>2
      <4>3. CASE k # i /\ k # j
        <5>1. F[k].nRandomPos = f[k].nRandomPos /\ f[k].nRandomPos # p /\ f[k].nRandomPos # q
          BY <2>7, <4>0, <4>3
        <5> QED
          BY <2>5, <4>0, <5>1
      <4> QED
        BY <4>1, <4>2, <4>3
    <3> QED
      BY <2>5, <2>6, <3>1, <3>2 DEF Shuffled
  <2> QED
    BY <2>3, <2>5, <2>6, <2>8, <2>9 DEF s
<1> QED
  BY <1>1, <1>2

\* Delete takes one entry out of mapInfo, mapAddr and vRandom.
LEMMA DeleteFacts ==
  ASSUME NEW m, Rec(m), Infos(m.mapInfo), Shuffled(m.mapInfo, m.vRandom),
         Addressed(m.mapInfo, m.mapAddr), NEW nId \in DOMAIN m.mapInfo
  PROVE  LET d == Delete(m, nId) IN
         /\ Rec(d) /\ DOMAIN d.mapInfo = DOMAIN m.mapInfo \ {nId} /\ Alike(m.mapInfo, d.mapInfo)
         /\ Infos(d.mapInfo) /\ Shuffled(d.mapInfo, d.vRandom) /\ Addressed(d.mapInfo, d.mapAddr)
         /\ d.nIdCount = m.nIdCount /\ d.nTried = m.nTried /\ d.nNew = m.nNew - 1
         /\ d.vvTried = m.vvTried /\ d.vvNew = m.vvNew
<1> DEFINE f == m.mapInfo
           v == m.vRandom
           p == f[nId].nRandomPos
           s == SwapRandom(m, p, Len(v))
           F == s.mapInfo
           V == s.vRandom
           d == Delete(m, nId)
           x == NetAddr[f[nId].addr]
<1>1. p \in 1 .. Len(v) /\ v[p] = nId /\ Len(v) \in Nat /\ Len(v) \in 1 .. Len(v)
  BY DEF Shuffled
<1>2. /\ Rec(s) /\ SameBut(m, s) /\ DOMAIN F = DOMAIN f /\ Alike(f, F)
      /\ Infos(F) /\ Shuffled(F, V) /\ Len(V) = Len(v) /\ V[Len(v)] = nId
  <2> HIDE DEF p
  <2> QED
    BY <1>1, SwapFacts
<1>3. d = [s EXCEPT !.vRandom = Front(@), !.mapAddr = Forget(@, x), !.mapInfo = Forget(@, nId), !.nNew = @ - 1]
  BY DEF Delete
<1> HIDE DEF s, d
<1>4. /\ Rec(d) /\ d.vRandom = Front(V) /\ d.mapAddr = Forget(m.mapAddr, x) /\ d.mapInfo = Forget(F, nId)
      /\ d.nNew = m.nNew - 1 /\ d.nIdCount = m.nIdCount /\ d.nTried = m.nTried
      /\ d.vvTried = m.vvTried /\ d.vvNew = m.vvNew
  BY <1>2, <1>3 DEF Rec, SameBut
<1> DEFINE G == Forget(F, nId)
           W == Front(V)
           A == Forget(m.mapAddr, x)
<1>5. DOMAIN G = DOMAIN f \ {nId} /\ \A i \in DOMAIN G : G[i] = F[i]
  BY <1>2 DEF Forget
<1>6. V \in Seq(Nat) /\ Len(V) = Len(v)
  BY <1>2 DEF Shuffled
<1>7. W \in Seq(Nat) /\ Len(W) = Len(v) - 1 /\ \A r \in 1 .. Len(v) - 1 : W[r] = V[r]
  BY <1>1, <1>6, SMTT(30) DEF Front
<1>8. DOMAIN A = DOMAIN m.mapAddr \ {x} /\ \A y \in DOMAIN A : A[y] = m.mapAddr[y]
  BY DEF Forget
<1>n. Len(v) \in Nat \ {0}
  BY <1>1
<1> HIDE DEF G, W, A, F, V, v
<1>9. Alike(f, G) /\ Infos(G)
  BY <1>2, <1>5 DEF Alike, Infos
<1>10. Shuffled(G, W)
  <2>1. ASSUME NEW r \in 1 .. Len(W) PROVE W[r] \in DOMAIN G /\ G[W[r]].nRandomPos = r
    <3>1. r \in 1 .. Len(V) /\ r # Len(v) /\ W[r] = V[r] /\ Len(v) \in 1 .. Len(V)
      BY <1>n, <1>6, <1>7
    <3>2. V[r] \in DOMAIN F /\ F[V[r]].nRandomPos = r /\ F[V[Len(v)]].nRandomPos = Len(v)
      BY <1>2, <3>1 DEF Shuffled
    <3>3. V[r] # nId
      BY <1>2, <3>1, <3>2
    <3> QED
      BY <1>2, <1>5, <3>1, <3>2, <3>3
  <2>2. ASSUME NEW i \in DOMAIN G PROVE G[i].nRandomPos \in 1 .. Len(W) /\ W[G[i].nRandomPos] = i
    <3>1. i \in DOMAIN F /\ i # nId /\ G[i] = F[i]
      BY <1>2, <1>5
    <3>2. F[i].nRandomPos \in 1 .. Len(V) /\ V[F[i].nRandomPos] = i
      BY <1>2, <3>1 DEF Shuffled
    <3>3. F[i].nRandomPos # Len(v)
      BY <1>2, <3>1, <3>2
    <3>4. F[i].nRandomPos \in 1 .. Len(v) - 1
      BY <1>n, <1>6, <3>2, <3>3
    <3> QED
      BY <1>7, <3>1, <3>2, <3>4
  <2> QED
    BY <1>7, <2>1, <2>2 DEF Shuffled
<1>11. Addressed(G, A)
  <2>1. /\ DOMAIN m.mapAddr \subseteq Nets
        /\ \A y \in DOMAIN m.mapAddr : m.mapAddr[y] \in DOMAIN f /\ NetAddr[f[m.mapAddr[y]].addr] = y
        /\ \A i \in DOMAIN f : NetAddr[f[i].addr] \in DOMAIN m.mapAddr /\ m.mapAddr[NetAddr[f[i].addr]] = i
    BY DEF Addressed
  <2>2. \A i \in DOMAIN G : i \in DOMAIN f /\ i # nId /\ G[i].addr = f[i].addr
    BY <1>5, <1>9 DEF Alike
  <2>3. ASSUME NEW y \in DOMAIN A PROVE A[y] \in DOMAIN G /\ NetAddr[G[A[y]].addr] = y
    <3>1. A[y] \in DOMAIN f /\ NetAddr[f[A[y]].addr] = y /\ y # x
      BY <1>8, <2>1
    <3>2. A[y] # nId
      BY <3>1
    <3> QED
      BY <1>5, <2>2, <3>1, <3>2
  <2>4. ASSUME NEW i \in DOMAIN G PROVE NetAddr[G[i].addr] \in DOMAIN A /\ A[NetAddr[G[i].addr]] = i
    <3>1. NetAddr[f[i].addr] # x
      BY <2>1, <2>2
    <3> QED
      BY <1>8, <2>1, <2>2, <3>1
  <2> QED
    BY <1>8, <2>1, <2>3, <2>4 DEF Addressed
<1> QED
  BY <1>4, <1>5, <1>9, <1>10, <1>11 DEF G, W, A, F, V, d

-----------------------------------------------------------------------------
(***************************************************************************)
(* New buckets                                                             *)
(***************************************************************************)

\* The entries of F are those of f, at the same places, with other counts.
Relabels(f, F) ==
  /\ DOMAIN F = DOMAIN f
  /\ \A i \in DOMAIN f : F[i] \in CAddrInfos /\ F[i].addr = f[i].addr /\ F[i].nRandomPos = f[i].nRandomPos

LEMMA Relabel ==
  ASSUME NEW f, NEW F, NEW n, NEW v, NEW a, Relabels(f, F),
         Infos(f), Below(f, n), Shuffled(f, v), Addressed(f, a)
  PROVE  Infos(F) /\ Below(F, n) /\ Shuffled(F, v) /\ Addressed(F, a)
<1>1. Infos(F) /\ Below(F, n)
  BY DEF Infos, Below, Relabels
<1>2. Shuffled(F, v)
  BY DEF Shuffled, Relabels
<1>3. Addressed(F, a)
  BY DEF Addressed, Relabels
<1> QED
  BY <1>1, <1>2, <1>3

\* The entries of F that f has keep what decides about tried buckets.
SameTried(f, F) ==
  /\ TriedIds(F) = TriedIds(f)
  /\ \A i \in TriedIds(f) : F[i].addr = f[i].addr /\ (f[i].nLastSuccess # 0 => F[i].nLastSuccess # 0)

LEMMA SameTriedBuckets ==
  ASSUME NEW f, NEW F, NEW tried, SameTried(f, F), InTried(f, tried)
  PROVE  InTried(F, tried)
  BY DEF InTried, SameTried

\* The counts of the new buckets an id is in.
LEMMA InFacts ==
  ASSUME NEW new, NEW i
  PROVE  /\ In(new, i) \in SUBSET NewBuckets /\ IsFiniteSet(In(new, i)) /\ Cardinality(In(new, i)) \in Nat
         /\ Cardinality(In(new, i)) = 0 <=> In(new, i) = {}
<1>1. In(new, i) \in SUBSET NewBuckets
  BY DEF In
<1>2. IsFiniteSet(In(new, i))
  BY <1>1, FS_Subset, AddrManAssumption
<1> QED
  BY <1>1, <1>2, FS_CardinalityType, FS_EmptySet

\* One id more in one bucket.
With(new, b, i) == [c \in NewBuckets |-> IF c = b THEN new[c] \cup {i} ELSE new[c]]
Without(new, b, i) == [c \in NewBuckets |-> IF c = b THEN new[c] \ {i} ELSE new[c]]

LEMMA InWith ==
  ASSUME NEW new, NEW i, NEW b \in NewBuckets, b \notin In(new, i)
  PROVE  /\ \A j : j # i => In(With(new, b, i), j) = In(new, j)
         /\ In(With(new, b, i), i) = In(new, i) \cup {b}
         /\ Cardinality(In(With(new, b, i), i)) = Cardinality(In(new, i)) + 1
<1>1. \A j : j # i => In(With(new, b, i), j) = In(new, j)
  BY DEF In, With
<1>2. In(With(new, b, i), i) = In(new, i) \cup {b}
  BY DEF In, With
<1>3. IsFiniteSet(In(new, i))
  BY InFacts
<1>4. Cardinality(In(new, i) \cup {b}) = Cardinality(In(new, i)) + 1
  BY <1>3, FS_AddElement
<1> QED
  BY <1>1, <1>2, <1>4

\* One id less.
LEMMA InWithout ==
  ASSUME NEW new, NEW i, NEW b \in NewBuckets, b \in In(new, i)
  PROVE  /\ \A j : j # i => In(Without(new, b, i), j) = In(new, j)
         /\ In(Without(new, b, i), i) = In(new, i) \ {b}
         /\ Cardinality(In(Without(new, b, i), i)) = Cardinality(In(new, i)) - 1
<1>1. \A j : j # i => In(Without(new, b, i), j) = In(new, j)
  BY DEF In, Without
<1>2. In(Without(new, b, i), i) = In(new, i) \ {b}
  BY DEF In, Without
<1>3. IsFiniteSet(In(new, i))
  BY InFacts
<1>4. Cardinality(In(new, i) \ {b}) = Cardinality(In(new, i)) - 1
  BY <1>3, FS_RemoveElement
<1> QED
  BY <1>1, <1>2, <1>4

\* A bucket with one id more, or less.
LEMMA BucketStep ==
  ASSUME NEW S, IsFiniteSet(S), NEW i
  PROVE  /\ Cardinality(S) \in Nat /\ IsFiniteSet(S \cup {i}) /\ IsFiniteSet(S \ {i})
         /\ Cardinality(S \cup {i}) \in Nat /\ Cardinality(S \ {i}) \in Nat
         /\ Cardinality(S \cup {i}) <= Cardinality(S) + 1
         /\ Cardinality(S \ {i}) <= Cardinality(S)
         /\ i \in S => Cardinality(S \ {i}) = Cardinality(S) - 1
  BY FS_AddElement, FS_RemoveElement, FS_CardinalityType

\* A reference more, for an entry about to enter bucket b.
LEMMA RefMore ==
  ASSUME NEW m, NEW new, Indexes(m), InBuckets(m.mapInfo, new), NEW nId \in DOMAIN m.mapInfo, NEW b \in NewBuckets,
         ~m.mapInfo[nId].fInTried, nId \notin new[b],
         m.mapInfo[nId].nRefCount # NewBucketsPerAddress
  PROVE  LET e == [m EXCEPT !.mapInfo[nId].nRefCount = @ + 1] IN
         /\ Indexes(e) /\ InBuckets(e.mapInfo, With(new, b, nId))
         /\ e.nIdCount = m.nIdCount /\ e.vvTried = m.vvTried /\ e.nTried = m.nTried /\ e.vvNew = m.vvNew
         /\ DOMAIN e.mapInfo = DOMAIN m.mapInfo /\ SameTried(m.mapInfo, e.mapInfo)
<1> DEFINE e == [m EXCEPT !.mapInfo[nId].nRefCount = @ + 1]
           f == m.mapInfo
           F == [f EXCEPT ![nId].nRefCount = @ + 1]
           N == With(new, b, nId)
<1>1. /\ Rec(m) /\ Infos(f) /\ Below(f, m.nIdCount) /\ Shuffled(f, m.vRandom) /\ Addressed(f, m.mapAddr)
      /\ InTried(f, m.vvTried) /\ Counted(f, m.nTried, m.nNew)
  BY DEF Indexes
<1>2. /\ Rec(e) /\ e.mapInfo = F /\ e.vvNew = m.vvNew /\ e.nIdCount = m.nIdCount /\ e.vvTried = m.vvTried
      /\ e.vRandom = m.vRandom /\ e.mapAddr = m.mapAddr /\ e.nTried = m.nTried /\ e.nNew = m.nNew
  BY <1>1 DEF Rec
<1>3. nId \in Nat /\ f[nId] \in CAddrInfos /\ f[nId].nRefCount \in Nat
  BY <1>1 DEF Infos, CAddrInfos
<1>4. DOMAIN F = DOMAIN f /\ F[nId] = [f[nId] EXCEPT !.nRefCount = @ + 1]
      /\ \A i \in DOMAIN f : i # nId => F[i] = f[i]
  OBVIOUS
<1> HIDE DEF F, e, N
<1>5. ASSUME NEW i \in DOMAIN f
      PROVE  /\ F[i] \in CAddrInfos /\ F[i].addr = f[i].addr
             /\ F[i].nLastSuccess = f[i].nLastSuccess /\ F[i].fInTried = f[i].fInTried
             /\ F[i].nRandomPos = f[i].nRandomPos
             /\ F[i].nRefCount = IF i = nId THEN f[i].nRefCount + 1 ELSE f[i].nRefCount
  <2>1. CASE i = nId
    BY <1>3, <1>4, <2>1 DEF CAddrInfos
  <2>2. CASE i # nId
    BY <1>1, <1>4, <2>2 DEF Infos
  <2> QED
    BY <2>1, <2>2
<1>6. TriedIds(F) = TriedIds(f) /\ NewIds(F) = NewIds(f)
  BY <1>4, <1>5 DEF TriedIds, NewIds
<1>7. Infos(F) /\ Below(F, m.nIdCount) /\ Shuffled(F, m.vRandom) /\ Addressed(F, m.mapAddr)
  <2>1. Relabels(f, F)
    BY <1>4, <1>5 DEF Relabels
  <2> QED
    BY <1>1, <2>1, Relabel
<1>8. InTried(F, m.vvTried) /\ SameTried(f, F) /\ Counted(F, m.nTried, m.nNew)
  <2>1. SameTried(f, F)
    BY <1>5, <1>6 DEF SameTried, TriedIds
  <2> QED
    BY <1>1, <1>6, <2>1, SameTriedBuckets DEF Counted
<1>9. InBuckets(F, N)
  <2>1. new \in [NewBuckets -> SUBSET Nat] /\ b \notin In(new, nId)
    BY DEF InBuckets, In
  <2>2. /\ In(N, nId) = In(new, nId) \cup {b}
        /\ \A j : j # nId => In(N, j) = In(new, j)
        /\ Cardinality(In(N, nId)) = Cardinality(In(new, nId)) + 1
    BY <2>1, InWith DEF N
  <2>3. N \in [NewBuckets -> SUBSET Nat] /\ \A c \in NewBuckets : N[c] \subseteq DOMAIN F
    BY <1>3, <1>4, <2>1 DEF InBuckets, N, With
  <2>4. NewBucketsPerAddress \in Nat
    BY AddrManAssumption
  <2>5. ASSUME NEW i \in DOMAIN f
        PROVE  /\ F[i].nRefCount = Cardinality(In(N, i))
               /\ F[i].fInTried => In(N, i) = {}
               /\ ~F[i].fInTried => In(N, i) # {} /\ F[i].nRefCount <= NewBucketsPerAddress
    <3>1. CASE i = nId
      <4>1. F[i].nRefCount = Cardinality(In(N, i)) /\ ~F[i].fInTried /\ In(N, i) # {}
        BY <1>1, <1>5, <2>2, <3>1 DEF InBuckets
      <4>2. f[i].nRefCount <= NewBucketsPerAddress /\ f[i].nRefCount # NewBucketsPerAddress
        BY <1>1, <3>1 DEF InBuckets
      <4> QED
        BY <1>3, <1>5, <2>4, <3>1, <4>1, <4>2
    <3>2. CASE i # nId
      BY <1>1, <1>5, <2>2, <3>2 DEF InBuckets
    <3> QED
      BY <3>1, <3>2
  <2> QED
    BY <1>4, <2>3, <2>5 DEF InBuckets
<1>10. Indexes(e)
  BY <1>2, <1>7, <1>8 DEF Indexes
<1> QED
  BY <1>2, <1>4, <1>8, <1>9, <1>10 DEF e, N

\* ShrinkNew takes an entry out of a bucket, and away when it was in no other.
LEMMA ShrinkFacts ==
  ASSUME NEW m, NEW new, Indexes(m), InBuckets(m.mapInfo, new), NEW b \in NewBuckets, NEW nId \in new[b]
  PROVE  LET s == ShrinkNew(m, b, nId) IN
         /\ Indexes(s) /\ InBuckets(s.mapInfo, Without(new, b, nId))
         /\ s.nIdCount = m.nIdCount /\ s.vvTried = m.vvTried /\ s.nTried = m.nTried
         /\ s.vvNew = [m.vvNew EXCEPT ![b] = @ \ {nId}] /\ SameTried(m.mapInfo, s.mapInfo)
<1> DEFINE f == m.mapInfo
           e == [m EXCEPT !.mapInfo[nId].nRefCount = @ - 1]
           F == [f EXCEPT ![nId].nRefCount = @ - 1]
           N == Without(new, b, nId)
           k == IF e.mapInfo[nId].nRefCount = 0 THEN Delete(e, nId) ELSE e
           s == ShrinkNew(m, b, nId)
<1>1. /\ Rec(m) /\ Infos(f) /\ Below(f, m.nIdCount) /\ Shuffled(f, m.vRandom) /\ Addressed(f, m.mapAddr)
      /\ InTried(f, m.vvTried) /\ Counted(f, m.nTried, m.nNew)
  BY DEF Indexes
<1>2. /\ Rec(e) /\ e.mapInfo = F /\ e.vvNew = m.vvNew /\ e.nIdCount = m.nIdCount /\ e.vvTried = m.vvTried
      /\ e.vRandom = m.vRandom /\ e.mapAddr = m.mapAddr /\ e.nTried = m.nTried /\ e.nNew = m.nNew
  BY <1>1 DEF Rec
<1>i. /\ new \in [NewBuckets -> SUBSET Nat] /\ nId \in DOMAIN f /\ b \in In(new, nId)
      /\ \A c \in NewBuckets : new[c] \subseteq DOMAIN f
  BY DEF InBuckets, In
<1>t. ~f[nId].fInTried /\ f[nId].nRefCount = Cardinality(In(new, nId)) /\ f[nId].nRefCount <= NewBucketsPerAddress
  BY <1>i DEF InBuckets
<1>c. /\ Cardinality(In(new, nId)) \in Nat \ {0} /\ In(N, nId) = In(new, nId) \ {b}
      /\ \A j : j # nId => In(N, j) = In(new, j)
      /\ Cardinality(In(N, nId)) = Cardinality(In(new, nId)) - 1
  BY <1>i, InFacts, InWithout
<1>3. nId \in Nat /\ f[nId] \in CAddrInfos /\ f[nId].nRefCount \in Nat \ {0}
  BY <1>1, <1>i, <1>t, <1>c DEF Infos, CAddrInfos
<1>4. DOMAIN F = DOMAIN f /\ F[nId] = [f[nId] EXCEPT !.nRefCount = @ - 1]
      /\ \A i \in DOMAIN f : i # nId => F[i] = f[i]
  BY <1>i
<1>k. s = [k EXCEPT !.vvNew[b] = @ \ {nId}]
  BY DEF ShrinkNew
<1> HIDE DEF F, e, N, s
<1>5. ASSUME NEW i \in DOMAIN f
      PROVE  /\ F[i] \in CAddrInfos /\ F[i].addr = f[i].addr
             /\ F[i].nLastSuccess = f[i].nLastSuccess /\ F[i].fInTried = f[i].fInTried
             /\ F[i].nRandomPos = f[i].nRandomPos
             /\ F[i].nRefCount = IF i = nId THEN f[i].nRefCount - 1 ELSE f[i].nRefCount
  <2>1. CASE i = nId
    BY <1>3, <1>4, <2>1 DEF CAddrInfos
  <2>2. CASE i # nId
    BY <1>1, <1>4, <2>2 DEF Infos
  <2> QED
    BY <2>1, <2>2
<1>6. TriedIds(F) = TriedIds(f) /\ NewIds(F) = NewIds(f) /\ nId \in NewIds(f) /\ nId \notin TriedIds(f)
  BY <1>4, <1>5, <1>i, <1>t DEF TriedIds, NewIds
<1>7. Infos(F) /\ Below(F, m.nIdCount) /\ Shuffled(F, m.vRandom) /\ Addressed(F, m.mapAddr)
  <2>1. Relabels(f, F)
    BY <1>4, <1>5 DEF Relabels
  <2> QED
    BY <1>1, <2>1, Relabel
<1>8. SameTried(f, F)
  BY <1>5, <1>6 DEF SameTried, TriedIds
<1>9. NewBucketsPerAddress \in Nat
  BY AddrManAssumption
<1>10. N \in [NewBuckets -> SUBSET Nat] /\ \A c \in NewBuckets : N[c] \subseteq DOMAIN f
  BY <1>i DEF N, Without
<1>11. ASSUME NEW i \in DOMAIN f, i # nId \/ F[nId].nRefCount # 0
       PROVE  /\ F[i].nRefCount = Cardinality(In(N, i))
              /\ F[i].fInTried => In(N, i) = {}
              /\ ~F[i].fInTried => In(N, i) # {} /\ F[i].nRefCount <= NewBucketsPerAddress
  <2>1. CASE i = nId
    <3>1. F[i].nRefCount = Cardinality(In(N, i)) /\ ~F[i].fInTried
      BY <1>5, <1>c, <1>t, <2>1
    <3>2. In(N, i) # {}
      BY <1>11, <2>1, <3>1, InFacts
    <3> QED
      BY <1>3, <1>5, <1>9, <1>t, <2>1, <3>1, <3>2
  <2>2. CASE i # nId
    BY <1>5, <1>c, <2>2 DEF InBuckets
  <2> QED
    BY <2>1, <2>2
<1>12. CASE F[nId].nRefCount # 0
  <2>1. k = e
    BY <1>2, <1>12
  <2> HIDE DEF k
  <2>2. /\ Rec(s) /\ s.mapInfo = F /\ s.vvNew = [m.vvNew EXCEPT ![b] = @ \ {nId}] /\ s.nIdCount = m.nIdCount
        /\ s.vvTried = m.vvTried /\ s.vRandom = m.vRandom /\ s.mapAddr = m.mapAddr /\ s.nTried = m.nTried
        /\ s.nNew = m.nNew
    BY <1>2, <1>k, <2>1 DEF Rec
  <2>3. InBuckets(F, N)
    BY <1>4, <1>10, <1>11, <1>12 DEF InBuckets
  <2>4. InTried(F, m.vvTried) /\ Counted(F, m.nTried, m.nNew)
    BY <1>1, <1>6, <1>8, SameTriedBuckets DEF Counted
  <2>5. Indexes(s)
    BY <1>7, <2>2, <2>4 DEF Indexes
  <2> QED
    BY <1>8, <2>2, <2>3, <2>5 DEF s, N
<1>13. CASE F[nId].nRefCount = 0
  <2> DEFINE d == Delete(e, nId)
             G == d.mapInfo
  <2>1. k = d
    BY <1>2, <1>13
  <2>2. /\ Rec(d) /\ DOMAIN G = DOMAIN F \ {nId} /\ Alike(F, G)
        /\ Infos(G) /\ Shuffled(G, d.vRandom) /\ Addressed(G, d.mapAddr)
        /\ d.nIdCount = m.nIdCount /\ d.nTried = m.nTried /\ d.nNew = m.nNew - 1
        /\ d.vvTried = m.vvTried /\ d.vvNew = m.vvNew
    <3>1. /\ Rec(e) /\ Infos(e.mapInfo) /\ Shuffled(e.mapInfo, e.vRandom) /\ Addressed(e.mapInfo, e.mapAddr)
          /\ nId \in DOMAIN e.mapInfo
      BY <1>2, <1>4, <1>7, <1>i
    <3>2. /\ Rec(d) /\ DOMAIN d.mapInfo = DOMAIN e.mapInfo \ {nId} /\ Alike(e.mapInfo, d.mapInfo)
          /\ Infos(d.mapInfo) /\ Shuffled(d.mapInfo, d.vRandom) /\ Addressed(d.mapInfo, d.mapAddr)
          /\ d.nIdCount = e.nIdCount /\ d.nTried = e.nTried /\ d.nNew = e.nNew - 1
          /\ d.vvTried = e.vvTried /\ d.vvNew = e.vvNew
      BY <3>1, DeleteFacts
    <3> QED
      BY <1>2, <3>2
  <2> HIDE DEF k, d
  <2>3. /\ Rec(s) /\ s.mapInfo = G /\ s.vvNew = [m.vvNew EXCEPT ![b] = @ \ {nId}] /\ s.nIdCount = m.nIdCount
        /\ s.vvTried = m.vvTried /\ s.vRandom = d.vRandom /\ s.mapAddr = d.mapAddr /\ s.nTried = m.nTried
        /\ s.nNew = m.nNew - 1
    BY <1>k, <2>1, <2>2 DEF Rec
  <2> HIDE DEF G
  <2>4. \A i \in DOMAIN G : i \in DOMAIN f /\ i # nId /\ G[i].nRefCount = F[i].nRefCount /\ G[i].fInTried = F[i].fInTried
                            /\ G[i].addr = F[i].addr /\ G[i].nLastSuccess = F[i].nLastSuccess
    BY <1>4, <2>2 DEF Alike
  <2>5. In(N, nId) = {} /\ nId \notin DOMAIN G
    <3>1. nId \in DOMAIN f /\ f[nId].nRefCount - 1 = 0
      BY <1>5, <1>13, <1>i
    <3>2. Cardinality(In(N, nId)) = 0
      BY <1>c, <1>t, <3>1
    <3>3. Cardinality(In(N, nId)) = 0 <=> In(N, nId) = {}
      BY InFacts
    <3>4. nId \notin DOMAIN G
      BY <2>2
    <3> QED
      BY <3>2, <3>3, <3>4, Zenon
  <2>6. InBuckets(G, N)
    <3>1. \A c \in NewBuckets : N[c] \subseteq DOMAIN G
      BY <1>4, <1>10, <2>2, <2>5 DEF In
    <3>2. ASSUME NEW i \in DOMAIN G
          PROVE  /\ G[i].nRefCount = Cardinality(In(N, i))
                 /\ G[i].fInTried => In(N, i) = {}
                 /\ ~G[i].fInTried => In(N, i) # {} /\ G[i].nRefCount <= NewBucketsPerAddress
      BY <1>11, <2>4
    <3> QED
      BY <1>10, <3>1, <3>2 DEF InBuckets
  <2>7. TriedIds(G) = TriedIds(f) /\ NewIds(G) = NewIds(f) \ {nId}
    <3>1. TriedIds(G) = TriedIds(F) /\ NewIds(G) = NewIds(F) \ {nId}
      BY <1>6, <2>2, <2>4 DEF TriedIds, NewIds
    <3> QED
      BY <1>6, <3>1
  <2>8. SameTried(f, G)
    BY <1>5, <2>4, <2>7 DEF SameTried, TriedIds
  <2>9. Below(G, m.nIdCount)
    BY <1>1, <2>4 DEF Below
  <2>10. Counted(G, m.nTried, m.nNew - 1)
    <3>1. IsFiniteSet(NewIds(f))
      BY <1>1, EntriesFinite
    <3>2. Cardinality(NewIds(f) \ {nId}) = Cardinality(NewIds(f)) - 1
      BY <1>6, <3>1, FS_RemoveElement
    <3> QED
      BY <1>1, <2>7, <3>2 DEF Counted
  <2>11. InTried(G, m.vvTried)
    BY <1>1, <2>8, SameTriedBuckets
  <2>12. Indexes(s)
    BY <2>2, <2>3, <2>9, <2>10, <2>11 DEF Indexes, G
  <2> QED
    BY <2>3, <2>6, <2>8, <2>12 DEF s, N, G
<1> QED
  BY <1>12, <1>13

\* Buckets of bounded size are finite sets of ids.
LEMMA NewBucketFinite ==
  ASSUME NEW m, Man(m), NEW b \in NewBuckets
  PROVE  IsFiniteSet(m.vvNew[b]) /\ Cardinality(m.vvNew[b]) \in Nat
<1>1. Infos(m.mapInfo) /\ Below(m.mapInfo, m.nIdCount) /\ m.vvNew[b] \in SUBSET DOMAIN m.mapInfo
  BY DEF Man, Indexes, InBuckets
<1> QED
  BY <1>1, EntriesFinite

\* An entry that has counted the reference enters a bucket, and another one
\* leaves it if it is full: the last part of Add_.
LEMMA EnterBucket ==
  ASSUME NEW ref, NEW nId, NEW b \in NewBuckets, Indexes(ref), InBuckets(ref.mapInfo, With(ref.vvNew, b, nId)),
         nId \notin ref.vvNew[b], DOMAIN ref.vvNew = NewBuckets, ref.vvNew = [c \in NewBuckets |-> ref.vvNew[c]],
         Bounded(ref.vvNew, ref.vvTried), NEW x,
         IF Cardinality(ref.vvNew[b]) = NewBucketSize
         THEN \E victim \in ref.vvNew[b] :
                 x = [ShrinkNew(ref, b, victim) EXCEPT !.vvNew[b] = @ \cup {nId}]
         ELSE x = [ref EXCEPT !.vvNew[b] = @ \cup {nId}]
  PROVE  /\ Man(x) /\ Bounded(x.vvNew, x.vvTried) /\ x.nIdCount = ref.nIdCount
         /\ x.nTried = ref.nTried /\ SameTried(ref.mapInfo, x.mapInfo)
<1> DEFINE new == ref.vvNew
           N == With(new, b, nId)
<1>2. nId \in Nat /\ new \in [NewBuckets -> SUBSET Nat] /\ N \in [NewBuckets -> SUBSET Nat]
  <2>1. N \in [NewBuckets -> SUBSET Nat]
    BY DEF InBuckets
  <2>2. nId \in N[b] /\ \A c \in NewBuckets : new[c] \subseteq N[c]
    BY DEF With
  <2> HIDE DEF N
  <2>3. nId \in Nat /\ \A c \in NewBuckets : new[c] \in SUBSET Nat
    BY <2>1, <2>2
  <2> QED
    BY <2>1, <2>3
<1>3. IsFiniteSet(new[b]) /\ Cardinality(new[b]) \in Nat /\ Cardinality(new[b]) <= NewBucketSize
      /\ NewBucketSize \in Nat
  <2>1. new[b] \subseteq N[b] /\ N[b] \subseteq DOMAIN ref.mapInfo
    BY DEF With, InBuckets
  <2>2. new[b] \in SUBSET DOMAIN ref.mapInfo /\ Infos(ref.mapInfo) /\ Below(ref.mapInfo, ref.nIdCount)
    BY <2>1 DEF Indexes
  <2> QED
    BY <2>2, EntriesFinite, AddrManAssumption DEF Bounded
<1>1. ref.vvNew = new /\ InBuckets(ref.mapInfo, N)
  OBVIOUS
<1>4. IF Cardinality(new[b]) = NewBucketSize
      THEN \E victim \in new[b] :
              x = [ShrinkNew(ref, b, victim) EXCEPT !.vvNew[b] = @ \cup {nId}]
      ELSE x = [ref EXCEPT !.vvNew[b] = @ \cup {nId}]
  OBVIOUS
<1>n. nId \notin new[b]
  OBVIOUS
<1> HIDE DEF N, new
<1>5. CASE Cardinality(new[b]) = NewBucketSize
  <2>1. PICK w \in new[b] : x = [ShrinkNew(ref, b, w) EXCEPT !.vvNew[b] = @ \cup {nId}]
    BY <1>4, <1>5
  <2> DEFINE s == ShrinkNew(ref, b, w)
             M == Without(N, b, w)
  <2>2. w \in N[b] /\ w # nId
    BY <1>n DEF N, With
  <2>3. /\ Indexes(s) /\ InBuckets(s.mapInfo, M)
        /\ s.nIdCount = ref.nIdCount /\ s.vvTried = ref.vvTried /\ s.nTried = ref.nTried
        /\ s.vvNew = [new EXCEPT ![b] = @ \ {w}] /\ SameTried(ref.mapInfo, s.mapInfo)
    BY <1>1, <2>2, ShrinkFacts
  <2> HIDE DEF s
  <2>4. /\ Rec(x) /\ x.mapInfo = s.mapInfo /\ x.nIdCount = s.nIdCount /\ x.vvTried = s.vvTried /\ x.vRandom = s.vRandom
        /\ x.mapAddr = s.mapAddr /\ x.nTried = s.nTried /\ x.nNew = s.nNew
        /\ x.vvNew = [s.vvNew EXCEPT ![b] = @ \cup {nId}]
    <3>1. Rec(s) /\ x = [s EXCEPT !.vvNew[b] = @ \cup {nId}]
      BY <2>1, <2>3 DEF Indexes, s
    <3> QED
      BY <3>1 DEF Rec
  <2>5. x.vvNew \in [NewBuckets -> SUBSET Nat]
        /\ \A c \in NewBuckets : x.vvNew[c] = IF c = b THEN (new[b] \ {w}) \cup {nId} ELSE new[c]
    BY <1>2, <2>3, <2>4
  <2>6. x.vvNew = M
    <3>1. M \in [NewBuckets -> SUBSET Nat] /\ \A c \in NewBuckets : M[c] = IF c = b THEN (new[b] \cup {nId}) \ {w} ELSE new[c]
      BY <1>2, <2>3 DEF Without, With, N, InBuckets
    <3>2. (new[b] \ {w}) \cup {nId} = (new[b] \cup {nId}) \ {w}
      BY <2>2
    <3>3. \A c \in NewBuckets : x.vvNew[c] = M[c]
      BY <2>5, <3>1, <3>2
    <3> QED
      BY <2>5, <3>1, <3>3
  <2>7. Man(x)
    BY <2>3, <2>4, <2>6 DEF Man, Indexes
  <2>8. Bounded(x.vvNew, x.vvTried)
    <3>1. Cardinality((new[b] \ {w}) \cup {nId}) <= NewBucketSize
      <4>1. IsFiniteSet(new[b] \ {w}) /\ Cardinality(new[b] \ {w}) = Cardinality(new[b]) - 1
        BY <1>3, BucketStep
      <4>2. Cardinality((new[b] \ {w}) \cup {nId}) <= Cardinality(new[b] \ {w}) + 1
            /\ Cardinality((new[b] \ {w}) \cup {nId}) \in Nat
        BY <4>1, BucketStep
      <4> QED
        BY <1>3, <4>1, <4>2
    <3> QED
      BY <1>1, <2>3, <2>4, <2>5, <3>1 DEF Bounded
  <2>9. SameTried(ref.mapInfo, x.mapInfo)
    BY <2>3, <2>4
  <2> QED
    BY <2>3, <2>4, <2>7, <2>8, <2>9
<1>6. CASE Cardinality(new[b]) # NewBucketSize
  <2>4. /\ Rec(x) /\ x.mapInfo = ref.mapInfo /\ x.nIdCount = ref.nIdCount /\ x.vvTried = ref.vvTried
        /\ x.vRandom = ref.vRandom /\ x.mapAddr = ref.mapAddr /\ x.nTried = ref.nTried /\ x.nNew = ref.nNew
        /\ x.vvNew = [ref.vvNew EXCEPT ![b] = @ \cup {nId}]
    <3>1. Rec(ref) /\ x = [ref EXCEPT !.vvNew[b] = @ \cup {nId}]
      BY <1>1, <1>4, <1>6 DEF Indexes
    <3> QED
      BY <3>1 DEF Rec
  <2>5. /\ x.vvNew \in [NewBuckets -> SUBSET Nat]
        /\ \A c \in NewBuckets : x.vvNew[c] = IF c = b THEN new[b] \cup {nId} ELSE new[c]
    BY <1>1, <1>2, <2>4
  <2>6. x.vvNew = N
    <3>1. \A c \in NewBuckets : x.vvNew[c] = N[c]
      BY <2>5 DEF N, With
    <3> QED
      BY <1>2, <2>5, <3>1
  <2>7. Man(x)
    BY <1>1, <2>4, <2>6 DEF Man, Indexes
  <2>8. Bounded(x.vvNew, x.vvTried)
    <3>1. Cardinality(new[b] \cup {nId}) <= NewBucketSize
      <4>1. Cardinality(new[b] \cup {nId}) <= Cardinality(new[b]) + 1 /\ Cardinality(new[b] \cup {nId}) \in Nat
        BY <1>3, BucketStep
      <4> QED
        BY <1>3, <1>6, <4>1
    <3> QED
      BY <1>1, <2>4, <2>5, <3>1 DEF Bounded
  <2>9. SameTried(ref.mapInfo, x.mapInfo)
    BY <2>4 DEF SameTried
  <2> QED
    BY <2>4, <2>7, <2>8, <2>9
<1> QED
  BY <1>5, <1>6

\* The entry of a new address, at a place of vRandom.
NewInfo(svc, source, pos) == [CAddrInfo(svc, source) EXCEPT !.nRandomPos = pos]

LEMMA InfoFields ==
  ASSUME NEW svc \in Services, NEW source \in Sources, NEW pos \in Nat
  PROVE  LET info == NewInfo(svc, source, pos) IN
         /\ info \in CAddrInfos /\ info.addr = svc /\ info.source = source /\ info.nLastSuccess = 0
         /\ info.nRefCount = 0 /\ ~info.fInTried /\ info.nRandomPos = pos
<1>1. 0 \in 0 .. MaxTime
  BY AddrManAssumption
<1> QED
  BY <1>1 DEF NewInfo, CAddrInfo, CAddrInfos

\* Create adds an entry to mapInfo, mapAddr and vRandom.
LEMMA CreateFacts ==
  ASSUME NEW m, Rec(m), Infos(m.mapInfo), Below(m.mapInfo, m.nIdCount), Shuffled(m.mapInfo, m.vRandom),
         Addressed(m.mapInfo, m.mapAddr), NEW svc \in Services, NEW source \in Sources, ~Known(m, svc)
  PROVE  LET c == Create(m, svc, source)
             nId == m.nIdCount
         IN
         /\ Rec(c) /\ DOMAIN c.mapInfo = DOMAIN m.mapInfo \cup {nId} /\ nId \in Nat /\ nId \notin DOMAIN m.mapInfo
         /\ c.mapInfo[nId] = NewInfo(svc, source, Len(m.vRandom) + 1)
         /\ \A i \in DOMAIN m.mapInfo : c.mapInfo[i] = m.mapInfo[i]
         /\ c.nIdCount = nId + 1 /\ Infos(c.mapInfo) /\ Below(c.mapInfo, nId + 1)
         /\ c.vRandom = Append(m.vRandom, nId)
         /\ Shuffled(c.mapInfo, c.vRandom) /\ Addressed(c.mapInfo, c.mapAddr)
         /\ c.nTried = m.nTried /\ c.nNew = m.nNew /\ c.vvTried = m.vvTried /\ c.vvNew = m.vvNew
<1> DEFINE c == Create(m, svc, source)
           nId == m.nIdCount
           f == m.mapInfo
           v == m.vRandom
           a == m.mapAddr
           pos == Len(v) + 1
           info == NewInfo(svc, source, pos)
           F == Put(f, nId, info)
           A == Put(a, NetAddr[svc], nId)
           V == Append(v, nId)
<1>2. /\ Rec(c) /\ c.nIdCount = nId + 1 /\ c.mapAddr = A /\ c.vRandom = V /\ c.mapInfo = F
      /\ c.nNew = m.nNew /\ c.nTried = m.nTried /\ c.vvTried = m.vvTried /\ c.vvNew = m.vvNew
  BY DEF Create, Rec, NewInfo
<1>3. nId \in Nat /\ nId \notin DOMAIN f
  BY DEF Below
<1>4. DOMAIN F = DOMAIN f \cup {nId} /\ F[nId] = info /\ \A i \in DOMAIN f : F[i] = f[i]
  BY <1>3 DEF Put
<1>5. v \in Seq(Nat) /\ pos \in Nat /\ V \in Seq(Nat) /\ Len(V) = pos /\ V[pos] = nId /\ \A p \in 1 .. Len(v) : V[p] = v[p]
  BY <1>3 DEF Shuffled
<1>6. info \in CAddrInfos /\ info.addr = svc /\ info.nRandomPos = pos
  <2>1. pos \in Nat
    BY <1>5
  <2> HIDE DEF pos
  <2> QED
    BY <2>1, InfoFields
<1>7. DOMAIN A = DOMAIN a \cup {NetAddr[svc]} /\ A[NetAddr[svc]] = nId /\ NetAddr[svc] \notin DOMAIN a
      /\ \A y \in DOMAIN a : A[y] = a[y]
  BY DEF Put, Known
<1> HIDE DEF F, A, V, c, info
<1>8. Infos(F) /\ Below(F, nId + 1)
  BY <1>3, <1>4, <1>6 DEF Infos, Below
<1>9. Shuffled(F, V)
  <2>1. ASSUME NEW p \in 1 .. Len(V) PROVE V[p] \in DOMAIN F /\ F[V[p]].nRandomPos = p
    <3>1. CASE p = pos
      BY <1>4, <1>5, <1>6, <3>1
    <3>2. CASE p # pos
      <4>1. p \in 1 .. Len(v) /\ V[p] = v[p]
        BY <1>5, <3>2, SMTT(30)
      <4> QED
        BY <1>4, <4>1 DEF Shuffled
    <3> QED
      BY <3>1, <3>2
  <2>2. ASSUME NEW i \in DOMAIN F PROVE F[i].nRandomPos \in 1 .. Len(V) /\ V[F[i].nRandomPos] = i
    <3>1. CASE i = nId
      BY <1>4, <1>5, <1>6, <3>1
    <3>2. CASE i # nId
      <4>1. F[i] = f[i] /\ f[i].nRandomPos \in 1 .. Len(v) /\ v[f[i].nRandomPos] = i
        BY <1>4, <3>2 DEF Shuffled
      <4> QED
        BY <1>5, <4>1
    <3> QED
      BY <3>1, <3>2
  <2> QED
    BY <1>5, <2>1, <2>2 DEF Shuffled
<1>10. Addressed(F, A)
  <2>1. /\ DOMAIN a \subseteq Nets /\ NetAddr[svc] \in Nets
        /\ \A y \in DOMAIN a : a[y] \in DOMAIN f /\ NetAddr[f[a[y]].addr] = y
        /\ \A i \in DOMAIN f : NetAddr[f[i].addr] \in DOMAIN a /\ a[NetAddr[f[i].addr]] = i
    BY AddrManAssumption DEF Addressed
  <2>2. ASSUME NEW y \in DOMAIN A PROVE A[y] \in DOMAIN F /\ NetAddr[F[A[y]].addr] = y
    BY <1>3, <1>4, <1>6, <1>7, <2>1
  <2>3. ASSUME NEW i \in DOMAIN F PROVE NetAddr[F[i].addr] \in DOMAIN A /\ A[NetAddr[F[i].addr]] = i
    BY <1>3, <1>4, <1>6, <1>7, <2>1
  <2> QED
    BY <1>7, <2>1, <2>2, <2>3 DEF Addressed
<1> QED
  BY <1>2, <1>3, <1>4, <1>8, <1>9, <1>10 DEF c, F, V, A, info

\* What TriedKept asks of a step: no tried address is forgotten.
Keeps(m, x) ==
  /\ x.nTried >= m.nTried
  /\ \A i \in TriedIds(m.mapInfo) : i \in DOMAIN x.mapInfo /\ x.mapInfo[i].addr = m.mapInfo[i].addr

LEMMA SameTriedKeeps ==
  ASSUME NEW m, NEW x, Indexes(m), SameTried(m.mapInfo, x.mapInfo), x.nTried = m.nTried
  PROVE  Keeps(m, x)
<1>1. m.nTried \in Nat
  BY EntriesFinite DEF Indexes, Counted
<1> QED
  BY <1>1 DEF Keeps, SameTried, TriedIds

\* Add_ of an address that is not known.
LEMMA AddNewFacts ==
  ASSUME AddrInv, NEW svc \in Services, NEW source \in Sources, AddNew(svc, source)
  PROVE  AddrInv' /\ Keeps(am, am')
<1> DEFINE nId == am.nIdCount
           b == NewBucketOf[NetAddr[svc], source]
           c == Create(am, svc, source)
           made == [c EXCEPT !.nNew = @ + 1]
           ref == [made EXCEPT !.mapInfo[nId].nRefCount = @ + 1]
           f == am.mapInfo
           C == c.mapInfo
           F == [C EXCEPT ![nId].nRefCount = @ + 1]
           new == am.vvNew
<1>1. /\ Rec(am) /\ Infos(f) /\ Below(f, nId) /\ Shuffled(f, am.vRandom) /\ Addressed(f, am.mapAddr)
      /\ InBuckets(f, new) /\ InTried(f, am.vvTried) /\ Counted(f, am.nTried, am.nNew) /\ nId \in Ids
      /\ Bounded(new, am.vvTried) /\ ~Known(am, svc) /\ nId < MaxIds
  BY DEF AddrInv, Man, Indexes, AddNew
<1>2. b \in NewBuckets
  BY AddrManAssumption DEF Nets
<1>3. /\ Rec(c) /\ DOMAIN C = DOMAIN f \cup {nId} /\ nId \in Nat /\ nId \notin DOMAIN f
      /\ C[nId] = NewInfo(svc, source, Len(am.vRandom) + 1)
      /\ \A i \in DOMAIN f : C[i] = f[i]
      /\ c.nIdCount = nId + 1 /\ Infos(C) /\ Below(C, nId + 1)
      /\ Shuffled(C, c.vRandom) /\ Addressed(C, c.mapAddr)
      /\ c.nTried = am.nTried /\ c.nNew = am.nNew /\ c.vvTried = am.vvTried /\ c.vvNew = am.vvNew
  BY <1>1, CreateFacts
<1> HIDE DEF c
<1>4. /\ Rec(made) /\ made.mapInfo = C /\ made.nNew = am.nNew + 1 /\ made.nIdCount = nId + 1
      /\ made.nTried = am.nTried /\ made.vvTried = am.vvTried /\ made.vvNew = new /\ made.vRandom = c.vRandom
      /\ made.mapAddr = c.mapAddr
  BY <1>3 DEF Rec
<1>r. IF Cardinality(new[b]) = NewBucketSize
      THEN \E victim \in new[b] :
              am' = [ShrinkNew(ref, b, victim) EXCEPT !.vvNew[b] = @ \cup {nId}]
      ELSE am' = [ref EXCEPT !.vvNew[b] = @ \cup {nId}]
  BY DEF AddNew, c
<1> HIDE DEF made, b
<1>5. /\ Rec(ref) /\ ref.mapInfo = F /\ ref.nNew = am.nNew + 1 /\ ref.nIdCount = nId + 1
      /\ ref.nTried = am.nTried /\ ref.vvTried = am.vvTried /\ ref.vvNew = new /\ ref.vRandom = c.vRandom
      /\ ref.mapAddr = c.mapAddr
  BY <1>4 DEF Rec
<1>6. /\ C[nId] \in CAddrInfos /\ C[nId].addr = svc /\ C[nId].source = source /\ C[nId].nLastSuccess = 0
      /\ C[nId].nRefCount = 0 /\ ~C[nId].fInTried
  <2> DEFINE pos == Len(am.vRandom) + 1
  <2>1. pos \in Nat
    BY <1>1 DEF Shuffled
  <2>2. C[nId] = NewInfo(svc, source, pos)
    BY <1>3
  <2> DEFINE info == C[nId]
  <2>3. info = NewInfo(svc, source, pos)
    BY <2>2
  <2>4. /\ info \in CAddrInfos /\ info.addr = svc /\ info.source = source /\ info.nLastSuccess = 0
        /\ info.nRefCount = 0 /\ ~info.fInTried
    <3> DEFINE j == NewInfo(svc, source, pos)
    <3> HIDE DEF pos, info
    <3>1. /\ j \in CAddrInfos /\ j.addr = svc /\ j.source = source /\ j.nLastSuccess = 0
          /\ j.nRefCount = 0 /\ ~j.fInTried
      BY <2>1, InfoFields
    <3>2. info = j
      BY <2>3
    <3> HIDE DEF j
    <3> QED
      BY <3>1, <3>2, Zenon
  <2> QED
    BY <2>4
<1>7. DOMAIN F = DOMAIN C /\ F[nId] = [C[nId] EXCEPT !.nRefCount = 1] /\ \A i \in DOMAIN f : F[i] = f[i]
  <2>1. C[nId].nRefCount + 1 = 1 /\ nId \in DOMAIN C
    BY <1>3, <1>6
  <2>2. DOMAIN F = DOMAIN C /\ F[nId] = [C[nId] EXCEPT !.nRefCount = C[nId].nRefCount + 1]
        /\ \A i \in DOMAIN C : i # nId => F[i] = C[i]
    BY <2>1
  <2> QED
    BY <1>3, <2>1, <2>2
<1> HIDE DEF F, C, ref, nId, new
<1>8. /\ F[nId] \in CAddrInfos /\ F[nId].addr = svc /\ F[nId].nRandomPos = C[nId].nRandomPos
      /\ F[nId].nRefCount = 1 /\ ~F[nId].fInTried
  BY <1>6, <1>7 DEF CAddrInfos
<1>9. Infos(F) /\ Below(F, nId + 1) /\ Shuffled(F, c.vRandom) /\ Addressed(F, c.mapAddr)
  <2>1. Relabels(C, F)
    BY <1>1, <1>3, <1>6, <1>7, <1>8 DEF Relabels, Infos
  <2> QED
    BY <1>3, <2>1, Relabel
<1>10. TriedIds(F) = TriedIds(f) /\ NewIds(F) = NewIds(f) \cup {nId} /\ nId \notin NewIds(f)
  BY <1>3, <1>7, <1>8 DEF TriedIds, NewIds
<1>11. SameTried(f, F)
  BY <1>7, <1>10 DEF SameTried, TriedIds
<1>12. InTried(F, am.vvTried)
  BY <1>1, <1>11, SameTriedBuckets
<1>13. Counted(F, am.nTried, am.nNew + 1)
  <2>1. IsFiniteSet(NewIds(f))
    BY <1>1, EntriesFinite
  <2>2. Cardinality(NewIds(f) \cup {nId}) = Cardinality(NewIds(f)) + 1
    BY <1>10, <2>1, FS_AddElement
  <2> QED
    BY <1>1, <1>10, <2>2 DEF Counted
<1>14. Indexes(ref)
  BY <1>5, <1>9, <1>12, <1>13 DEF Indexes
<1>15. InBuckets(F, With(new, b, nId))
  <2> DEFINE N == With(new, b, nId)
  <2>1. new \in [NewBuckets -> SUBSET Nat] /\ In(new, nId) = {} /\ nId \notin new[b]
    BY <1>1, <1>2, <1>3 DEF InBuckets, In
  <2>2. /\ In(N, nId) = {b}
        /\ \A j : j # nId => In(N, j) = In(new, j)
        /\ Cardinality(In(N, nId)) = 1
    <3>1. /\ In(N, nId) = In(new, nId) \cup {b}
          /\ \A j : j # nId => In(N, j) = In(new, j)
      <4>1. b \notin In(new, nId)
        BY <2>1
      <4> QED
        BY <1>2, <4>1, InWith
    <3>2. In(N, nId) = {b}
      BY <2>1, <3>1
    <3> QED
      BY <3>1, <3>2, FS_Singleton
  <2>3. N \in [NewBuckets -> SUBSET Nat] /\ \A c1 \in NewBuckets : N[c1] \subseteq DOMAIN F
    BY <1>1, <1>3, <1>7, <2>1 DEF InBuckets, With
  <2>4. NewBucketsPerAddress \in Nat \ {0}
    BY AddrManAssumption
  <2> HIDE DEF N
  <2>5. ASSUME NEW i \in DOMAIN F
        PROVE  /\ F[i].nRefCount = Cardinality(In(N, i))
               /\ F[i].fInTried => In(N, i) = {}
               /\ ~F[i].fInTried => In(N, i) # {} /\ F[i].nRefCount <= NewBucketsPerAddress
    <3>1. CASE i = nId
      BY <1>8, <2>2, <2>4, <3>1
    <3>2. CASE i # nId
      BY <1>1, <1>3, <1>7, <2>2, <3>2 DEF InBuckets
    <3> QED
      BY <3>1, <3>2
  <2> QED
    BY <2>3, <2>5 DEF InBuckets, N
<1>16. /\ nId \notin ref.vvNew[b] /\ DOMAIN ref.vvNew = NewBuckets /\ ref.vvNew = [e \in NewBuckets |-> ref.vvNew[e]]
  BY <1>1, <1>2, <1>3, <1>5 DEF InBuckets
<1>17. /\ Man(am') /\ Bounded(am'.vvNew, am'.vvTried) /\ am'.nIdCount = nId + 1
       /\ am'.nTried = am.nTried /\ SameTried(F, am'.mapInfo)
  <2>1. InBuckets(ref.mapInfo, With(ref.vvNew, b, nId)) /\ Bounded(ref.vvNew, ref.vvTried)
    BY <1>1, <1>5, <1>15
  <2>2. IF Cardinality(ref.vvNew[b]) = NewBucketSize
        THEN \E victim \in ref.vvNew[b] :
              am' = [ShrinkNew(ref, b, victim) EXCEPT !.vvNew[b] = @ \cup {nId}]
        ELSE am' = [ref EXCEPT !.vvNew[b] = @ \cup {nId}]
    BY <1>5, <1>r
  <2>3. /\ Man(am') /\ Bounded(am'.vvNew, am'.vvTried) /\ am'.nIdCount = ref.nIdCount
        /\ am'.nTried = ref.nTried /\ SameTried(ref.mapInfo, am'.mapInfo)
    BY <1>2, <1>14, <1>16, <2>1, <2>2, EnterBucket
  <2> QED
    BY <1>5, <2>3
<1>18. nId + 1 \in Ids
  <2>1. Cardinality(Services) \in Nat /\ MaxIds \in Nat
    BY FS_CardinalityType, AddrManAssumption
  <2> QED
    BY <1>1, <1>3, <2>1 DEF Ids
<1>19. Keeps(am, am')
  <2>1. SameTried(f, am'.mapInfo)
    BY <1>11, <1>17 DEF SameTried
  <2>2. Indexes(am)
    BY DEF AddrInv, Man
  <2> QED
    BY <1>17, <2>1, <2>2, SameTriedKeeps
<1> QED
  BY <1>17, <1>18, <1>19 DEF AddrInv

\* Add_ of one that is known.
LEMMA AddKnownFacts ==
  ASSUME AddrInv, NEW svc \in Services, NEW source \in Sources, AddKnown(svc, source)
  PROVE  AddrInv' /\ Keeps(am, am')
<1> DEFINE nId == Find(am, svc)
           f == am.mapInfo
           b == NewBucketOf[NetAddr[f[nId].addr], source]
           ref == [am EXCEPT !.mapInfo[nId].nRefCount = @ + 1]
           new == am.vvNew
<1>1. /\ Indexes(am) /\ InBuckets(f, new) /\ Bounded(new, am.vvTried) /\ am.nIdCount \in Ids
      /\ ~f[nId].fInTried /\ f[nId].nRefCount # NewBucketsPerAddress /\ nId \notin new[b]
      /\ IF Cardinality(new[b]) = NewBucketSize
         THEN \E victim \in new[b] :
                 am' = [ShrinkNew(ref, b, victim) EXCEPT !.vvNew[b] = @ \cup {nId}]
         ELSE am' = [ref EXCEPT !.vvNew[b] = @ \cup {nId}]
  BY DEF AddrInv, Man, AddKnown
<1>2. nId \in DOMAIN f
  BY <1>1 DEF Indexes, Addressed, AddKnown, Known, Find
<1>3. b \in NewBuckets
  <2>1. f[nId].addr \in Services
    BY <1>1, <1>2 DEF Indexes, Infos, CAddrInfos
  <2> QED
    BY <2>1, AddrManAssumption DEF Nets
<1> HIDE DEF b, nId
<1>4. /\ Indexes(ref) /\ InBuckets(ref.mapInfo, With(new, b, nId))
      /\ ref.nIdCount = am.nIdCount /\ ref.vvTried = am.vvTried /\ ref.nTried = am.nTried /\ ref.vvNew = new
      /\ SameTried(f, ref.mapInfo)
  BY <1>1, <1>2, <1>3, RefMore
<1> HIDE DEF ref
<1>5. /\ nId \notin ref.vvNew[b] /\ DOMAIN ref.vvNew = NewBuckets /\ ref.vvNew = [e \in NewBuckets |-> ref.vvNew[e]]
  BY <1>1, <1>4 DEF InBuckets
<1>6. InBuckets(ref.mapInfo, With(ref.vvNew, b, nId)) /\ Bounded(ref.vvNew, ref.vvTried)
  BY <1>1, <1>4
<1>7. IF Cardinality(ref.vvNew[b]) = NewBucketSize
      THEN \E victim \in ref.vvNew[b] :
            am' = [ShrinkNew(ref, b, victim) EXCEPT !.vvNew[b] = @ \cup {nId}]
      ELSE am' = [ref EXCEPT !.vvNew[b] = @ \cup {nId}]
  BY <1>1, <1>4
<1>8. /\ Man(am') /\ Bounded(am'.vvNew, am'.vvTried) /\ am'.nIdCount = ref.nIdCount
      /\ am'.nTried = ref.nTried /\ SameTried(ref.mapInfo, am'.mapInfo)
  BY <1>3, <1>4, <1>5, <1>6, <1>7, EnterBucket
<1>9. SameTried(f, am'.mapInfo)
  BY <1>4, <1>8 DEF SameTried
<1> QED
  BY <1>1, <1>4, <1>8, <1>9, SameTriedKeeps DEF AddrInv

-----------------------------------------------------------------------------
(***************************************************************************)
(* Recursive functions, unfolded                                           *)
(***************************************************************************)

\* The search, unfolded.
LEMMA ScanningDef ==
  ASSUME NEW m, NEW b, NEW r, Inspected(m.vvTried[b]) \in Nat
  PROVE  Scanning(m, b, r) =
           [i \in 0 .. Inspected(m.vvTried[b]) |->
              IF i = 0 THEN [vTried |-> m.vvTried[b], nOldest |-> -1, nOldestPos |-> 0]
              ELSE ScanTried(m, Scanning(m, b, r)[i - 1], i, r[i])]
<1> DEFINE First == [vTried |-> m.vvTried[b], nOldest |-> -1, nOldestPos |-> 0]
           Step(p, i) == ScanTried(m, p, i, r[i])
           Fits(g, n) == g = [i \in 0 .. n |-> IF i = 0 THEN First ELSE Step(g[i - 1], i)]
           S == {n \in Nat : \E g : Fits(g, n)}
<1> HIDE DEF First, Step
<1>1. 0 \in S
  <2>1. Fits([i \in 0 .. 0 |-> First], 0)
    OBVIOUS
  <2> QED
    BY <2>1
<1>2. ASSUME NEW n \in Nat, n \in S PROVE n + 1 \in S
  <2>1. PICK g : Fits(g, n)
    BY <1>2
  <2> DEFINE ext == [i \in 0 .. n + 1 |-> IF i = n + 1 THEN Step(g[n], n + 1) ELSE g[i]]
  <2>2. \A i \in 0 .. n : ext[i] = g[i]
    OBVIOUS
  <2>3. ASSUME NEW i \in 0 .. n + 1
        PROVE  ext[i] = IF i = 0 THEN First ELSE Step(ext[i - 1], i)
    <3>1. CASE i = 0
      BY <3>1, <2>1
    <3>2. CASE i # 0 /\ i # n + 1
      <4>1. i \in 0 .. n /\ i - 1 \in 0 .. n
        BY <3>2
      <4>2. ext[i] = Step(g[i - 1], i)
        BY <4>1, <3>2, <2>1, <2>2
      <4> QED
        BY <4>1, <4>2, <3>2, <2>2
    <3>3. CASE i = n + 1
      <4>1. n \in 0 .. n /\ i - 1 = n /\ i # 0
        BY <3>3
      <4>2. ext[i] = Step(g[n], i)
        BY <3>3
      <4> QED
        BY <4>1, <4>2, <2>2
    <3> QED
      BY <3>1, <3>2, <3>3
  <2>a. ext = [i \in 0 .. n + 1 |-> ext[i]]
    OBVIOUS
  <2> HIDE DEF ext
  <2>4. Fits(ext, n + 1)
    BY <2>3, <2>a
  <2> QED
    BY <2>4
<1> HIDE DEF S
<1>3. \A n \in Nat : n \in S
  BY <1>1, <1>2, Induct
<1>4. Inspected(m.vvTried[b]) \in S
  BY <1>3
<1>5. PICK g : Fits(g, Inspected(m.vvTried[b]))
  BY <1>4 DEF S
<1>6. Scanning(m, b, r) = CHOOSE z : Fits(z, Inspected(m.vvTried[b]))
  BY DEF Scanning, First, Step
<1>7. Fits(Scanning(m, b, r), Inspected(m.vvTried[b]))
  BY <1>5, <1>6, Zenon
<1> QED
  BY <1>7, Zenon DEF First, Step

\* A shuffle of vRandom, unfolded.
LEMMA ShufflingDef ==
  ASSUME NEW m, NEW k \in Nat, NEW r
  PROVE  Shuffling(m, k, r) =
           [i \in 0 .. k |->
              IF i = 0 THEN m
              ELSE SwapRandom(Shuffling(m, k, r)[i - 1], i, r[i])]
<1> DEFINE First == m
           Step(p, i) == SwapRandom(p, i, r[i])
           Fits(g, n) == g = [i \in 0 .. n |-> IF i = 0 THEN First ELSE Step(g[i - 1], i)]
           S == {n \in Nat : \E g : Fits(g, n)}
<1> HIDE DEF First, Step
<1>1. 0 \in S
  <2>1. Fits([i \in 0 .. 0 |-> First], 0)
    OBVIOUS
  <2> QED
    BY <2>1
<1>2. ASSUME NEW n \in Nat, n \in S PROVE n + 1 \in S
  <2>1. PICK g : Fits(g, n)
    BY <1>2
  <2> DEFINE ext == [i \in 0 .. n + 1 |-> IF i = n + 1 THEN Step(g[n], n + 1) ELSE g[i]]
  <2>2. \A i \in 0 .. n : ext[i] = g[i]
    OBVIOUS
  <2>3. ASSUME NEW i \in 0 .. n + 1
        PROVE  ext[i] = IF i = 0 THEN First ELSE Step(ext[i - 1], i)
    <3>1. CASE i = 0
      BY <3>1, <2>1
    <3>2. CASE i # 0 /\ i # n + 1
      <4>1. i \in 0 .. n /\ i - 1 \in 0 .. n
        BY <3>2
      <4>2. ext[i] = Step(g[i - 1], i)
        BY <4>1, <3>2, <2>1, <2>2
      <4> QED
        BY <4>1, <4>2, <3>2, <2>2
    <3>3. CASE i = n + 1
      <4>1. n \in 0 .. n /\ i - 1 = n /\ i # 0
        BY <3>3
      <4>2. ext[i] = Step(g[n], i)
        BY <3>3
      <4> QED
        BY <4>1, <4>2, <2>2
    <3> QED
      BY <3>1, <3>2, <3>3
  <2>a. ext = [i \in 0 .. n + 1 |-> ext[i]]
    OBVIOUS
  <2> HIDE DEF ext
  <2>4. Fits(ext, n + 1)
    BY <2>3, <2>a
  <2> QED
    BY <2>4
<1> HIDE DEF S
<1>3. \A n \in Nat : n \in S
  BY <1>1, <1>2, Induct
<1>4. k \in S
  BY <1>3
<1>5. PICK g : Fits(g, k)
  BY <1>4 DEF S
<1>6. Shuffling(m, k, r) = CHOOSE z : Fits(z, k)
  BY DEF Shuffling, First, Step
<1>7. Fits(Shuffling(m, k, r), k)
  BY <1>5, <1>6, Zenon
<1> QED
  BY <1>7, Zenon DEF First, Step

\* The entries of the file, unfolded.
LEMMA LoadingDef ==
  ASSUME NEW file, Len(file.tried) \in Nat
  PROVE  Loading(file) =
           [i \in 0 .. Len(file.tried) |->
              IF i = 0 THEN LoadNew(file)
              ELSE LoadTried(Loading(file)[i - 1], file.tried[i])]
<1> DEFINE First == LoadNew(file)
           Step(p, i) == LoadTried(p, file.tried[i])
           Fits(g, n) == g = [i \in 0 .. n |-> IF i = 0 THEN First ELSE Step(g[i - 1], i)]
           S == {n \in Nat : \E g : Fits(g, n)}
<1> HIDE DEF First, Step
<1>1. 0 \in S
  <2>1. Fits([i \in 0 .. 0 |-> First], 0)
    OBVIOUS
  <2> QED
    BY <2>1
<1>2. ASSUME NEW n \in Nat, n \in S PROVE n + 1 \in S
  <2>1. PICK g : Fits(g, n)
    BY <1>2
  <2> DEFINE ext == [i \in 0 .. n + 1 |-> IF i = n + 1 THEN Step(g[n], n + 1) ELSE g[i]]
  <2>2. \A i \in 0 .. n : ext[i] = g[i]
    OBVIOUS
  <2>3. ASSUME NEW i \in 0 .. n + 1
        PROVE  ext[i] = IF i = 0 THEN First ELSE Step(ext[i - 1], i)
    <3>1. CASE i = 0
      BY <3>1, <2>1
    <3>2. CASE i # 0 /\ i # n + 1
      <4>1. i \in 0 .. n /\ i - 1 \in 0 .. n
        BY <3>2
      <4>2. ext[i] = Step(g[i - 1], i)
        BY <4>1, <3>2, <2>1, <2>2
      <4> QED
        BY <4>1, <4>2, <3>2, <2>2
    <3>3. CASE i = n + 1
      <4>1. n \in 0 .. n /\ i - 1 = n /\ i # 0
        BY <3>3
      <4>2. ext[i] = Step(g[n], i)
        BY <3>3
      <4> QED
        BY <4>1, <4>2, <2>2
    <3> QED
      BY <3>1, <3>2, <3>3
  <2>a. ext = [i \in 0 .. n + 1 |-> ext[i]]
    OBVIOUS
  <2> HIDE DEF ext
  <2>4. Fits(ext, n + 1)
    BY <2>3, <2>a
  <2> QED
    BY <2>4
<1> HIDE DEF S
<1>3. \A n \in Nat : n \in S
  BY <1>1, <1>2, Induct
<1>4. Len(file.tried) \in S
  BY <1>3
<1>5. PICK g : Fits(g, Len(file.tried))
  BY <1>4 DEF S
<1>6. Loading(file) = CHOOSE z : Fits(z, Len(file.tried))
  BY DEF Loading, First, Step
<1>7. Fits(Loading(file), Len(file.tried))
  BY <1>5, <1>6, Zenon
<1> QED
  BY <1>7, Zenon DEF First, Step

-----------------------------------------------------------------------------
(***************************************************************************)
(* The tried table                                                         *)
(***************************************************************************)

\* w has the elements of v, each once, in another order.
Rearranged(v, w) ==
  /\ w \in Seq(Nat) /\ Len(w) = Len(v)
  /\ \A p \in 1 .. Len(v) : \E q \in 1 .. Len(v) : w[q] = v[p]
  /\ \A p \in 1 .. Len(v) : \E q \in 1 .. Len(v) : v[q] = w[p]
  /\ \A p, q \in 1 .. Len(v) : w[p] = w[q] => p = q

LEMMA SwapRearranged ==
  ASSUME NEW v \in Seq(Nat), NEW w, Rearranged(v, w), NEW p \in 1 .. Len(v), NEW q \in 1 .. Len(v)
  PROVE  Rearranged(v, [w EXCEPT ![q] = w[p], ![p] = w[q]])
<1> DEFINE W == [w EXCEPT ![q] = w[p], ![p] = w[q]]
           L == Len(v)
<1>a. L \in Nat /\ p \in 1 .. L /\ q \in 1 .. L
  OBVIOUS
<1>1. w \in Seq(Nat) /\ Len(w) = L
  BY Zenon DEF Rearranged
<1>d. \A i \in 1 .. L : \E j \in 1 .. L : w[j] = v[i]
  BY Zenon DEF Rearranged
<1>e. \A i \in 1 .. L : \E j \in 1 .. L : v[j] = w[i]
  BY Zenon DEF Rearranged
<1>f. \A i, j \in 1 .. L : w[i] = w[j] => i = j
  BY Zenon DEF Rearranged
<1> HIDE DEF L
<1>b. w \in [1 .. L -> Nat]
  BY <1>1
<1>2. W \in [1 .. L -> Nat]
  BY <1>a, <1>b
<1>c. W \in Seq(Nat) /\ Len(W) = L
  <2> HIDE DEF W
  <2> QED
    BY <1>a, <1>2
<1>3. W[p] = w[q] /\ W[q] = w[p] /\ \A i \in 1 .. L : i # p /\ i # q => W[i] = w[i]
  BY <1>a, <1>b
<1> HIDE DEF W
<1>4. ASSUME NEW i \in 1 .. L PROVE \E j \in 1 .. L : W[j] = v[i]
  <2>1. PICK j \in 1 .. L : w[j] = v[i]
    BY <1>d
  <2>2. CASE j = p
    BY <1>3, <1>a, <2>1, <2>2
  <2>3. CASE j = q
    BY <1>3, <1>a, <2>1, <2>3
  <2>4. CASE j # p /\ j # q
    BY <1>3, <2>1, <2>4
  <2> QED
    BY <2>2, <2>3, <2>4
<1>5. ASSUME NEW i \in 1 .. L PROVE \E j \in 1 .. L : v[j] = W[i]
  <2>1. CASE i = p
    BY <1>e, <1>3, <1>a, <2>1
  <2>2. CASE i = q
    BY <1>e, <1>3, <1>a, <2>2
  <2>3. CASE i # p /\ i # q
    BY <1>e, <1>3, <2>3
  <2> QED
    BY <2>1, <2>2, <2>3
<1>6. ASSUME NEW i \in 1 .. L, NEW j \in 1 .. L, W[i] = W[j] PROVE i = j
  BY <1>f, <1>3, <1>6, <1>a
<1> QED
  BY <1>c, <1>4, <1>5, <1>6 DEF Rearranged, W, L

\* SelectTried rearranges the bucket and returns a place of it.
LEMMA SelectFacts ==
  ASSUME NEW m, NEW b, NEW v \in Seq(Nat), v = m.vvTried[b], Len(v) # 0,
         \A p, q \in 1 .. Len(v) : v[p] = v[q] => p = q,
         NEW r \in Draws(Inspected(v), Len(v))
  PROVE  LET sel == SelectTried(m, b, r)
         IN  Rearranged(v, sel.vTried) /\ sel.nOldestPos \in 1 .. Len(v)
<1> DEFINE n == Inspected(v)
           s == Scanning(m, b, r)
           S == {k \in Nat : k <= n =>
                  /\ DOMAIN s[k] = {"vTried", "nOldest", "nOldestPos"} /\ Rearranged(v, s[k].vTried)
                  /\ k = 0 => s[k].nOldest = -1
                  /\ k # 0 => s[k].nOldestPos \in 1 .. Len(v)}
<1>1. n \in Nat \ {0} /\ n <= Len(v) /\ Len(v) \in Nat
  BY AddrManAssumption DEF Inspected, SmallerOf
<1>2. \A i \in 1 .. n : r[i] \in 1 .. Len(v)
  BY DEF Draws
<1>3. s = [i \in 0 .. n |->
              IF i = 0 THEN [vTried |-> v, nOldest |-> -1, nOldestPos |-> 0]
              ELSE ScanTried(m, s[i - 1], i, r[i])]
  <2>1. Inspected(m.vvTried[b]) = n
    OBVIOUS
  <2>2. Inspected(m.vvTried[b]) \in Nat
    BY <1>1, <2>1
  <2>3. s = [i \in 0 .. Inspected(m.vvTried[b]) |->
              IF i = 0 THEN [vTried |-> m.vvTried[b], nOldest |-> -1, nOldestPos |-> 0]
              ELSE ScanTried(m, s[i - 1], i, r[i])]
    BY <2>2, ScanningDef
  <2> HIDE DEF n, s
  <2> QED
    BY <2>1, <2>3
<1> HIDE DEF n, s
<1>4. 0 \in S
  <2>1. s[0] = [vTried |-> v, nOldest |-> -1, nOldestPos |-> 0]
    BY <1>1, <1>3
  <2>2. Rearranged(v, v)
    BY DEF Rearranged
  <2> QED
    BY <2>1, <2>2
<1>5. ASSUME NEW k \in Nat, k + 1 <= n, k \in S PROVE k + 1 \in S
  <2> DEFINE t == s[k]
             w == t.vTried
             p == k + 1
             q == r[p]
             W == [w EXCEPT ![q] = w[p], ![p] = w[q]]
  <2>1. /\ DOMAIN t = {"vTried", "nOldest", "nOldestPos"} /\ Rearranged(v, w)
        /\ k = 0 => t.nOldest = -1
        /\ k # 0 => t.nOldestPos \in 1 .. Len(v)
    BY <1>1, <1>5
  <2>2. p \in 1 .. n /\ p \in 1 .. Len(v) /\ q \in 1 .. Len(v) /\ p # 0 /\ p - 1 = k
    BY <1>1, <1>2, <1>5
  <2>3. s[p] = ScanTried(m, t, p, q)
    BY <1>1, <1>3, <1>5, <2>2
  <2> HIDE DEF t, p, q
  <2>4. Rearranged(v, W)
    BY <2>1, <2>2, SwapRearranged
  <2>5. s[p] = [vTried |-> W, nOldest |-> w[q], nOldestPos |-> q] \/ (s[p] = [t EXCEPT !.vTried = W] /\ t.nOldest # -1)
    BY <2>3 DEF ScanTried
  <2> HIDE DEF W, w
  <2>6. DOMAIN s[p] = {"vTried", "nOldest", "nOldestPos"} /\ s[p].vTried = W
        /\ (s[p].nOldestPos = q \/ (s[p].nOldestPos = t.nOldestPos /\ t.nOldest # -1))
    BY <2>1, <2>5
  <2>7. s[p].nOldestPos \in 1 .. Len(v)
    BY <2>1, <2>2, <2>6
  <2>8. p \in Nat
    BY <2>2
  <2>9. p \in S
    BY <2>2, <2>4, <2>6, <2>7, <2>8
  <2> QED
    BY <2>9 DEF p
<1> HIDE DEF S
<1>6. n \in S
  <2>1. n \in Nat /\ n \in 0 .. n
    BY <1>1
  <2>2. \A k \in Nat : k + 1 <= n /\ k \in S => k + 1 \in S
    BY <1>5
  <2>3. \A k \in 0 .. n : k \in S
    BY <1>4, <2>1, <2>2, InductTo
  <2> QED
    BY <2>1, <2>3
<1>7. SelectTried(m, b, r) = s[n]
  BY DEF SelectTried, s, n
<1>8. Rearranged(v, s[n].vTried) /\ s[n].nOldestPos \in 1 .. Len(v)
  BY <1>1, <1>6 DEF S
<1> QED
  BY <1>7, <1>8, Zenon

\* A success is stamped.
LEMMA StampFacts ==
  ASSUME NEW m, Man(m), NEW nId \in DOMAIN m.mapInfo, NEW nTime \in 1 .. MaxTime
  PROVE  LET e == [m EXCEPT !.mapInfo[nId].nLastSuccess = nTime] IN
         /\ Man(e) /\ e.nIdCount = m.nIdCount /\ e.vvTried = m.vvTried /\ e.nTried = m.nTried /\ e.vvNew = m.vvNew
         /\ DOMAIN e.mapInfo = DOMAIN m.mapInfo /\ SameTried(m.mapInfo, e.mapInfo)
         /\ e.mapInfo[nId].nLastSuccess # 0 /\ e.mapInfo[nId].addr = m.mapInfo[nId].addr
<1> DEFINE e == [m EXCEPT !.mapInfo[nId].nLastSuccess = nTime]
           f == m.mapInfo
           F == [f EXCEPT ![nId].nLastSuccess = nTime]
           new == m.vvNew
<1>1. /\ Rec(m) /\ Infos(f) /\ Below(f, m.nIdCount) /\ Shuffled(f, m.vRandom) /\ Addressed(f, m.mapAddr)
      /\ InTried(f, m.vvTried) /\ Counted(f, m.nTried, m.nNew) /\ InBuckets(f, new)
  BY DEF Man, Indexes
<1>2. /\ Rec(e) /\ e.mapInfo = F /\ e.vvNew = new /\ e.nIdCount = m.nIdCount /\ e.vvTried = m.vvTried
      /\ e.vRandom = m.vRandom /\ e.mapAddr = m.mapAddr /\ e.nTried = m.nTried /\ e.nNew = m.nNew
  BY <1>1 DEF Rec
<1>3. f[nId] \in CAddrInfos /\ nTime \in 0 .. MaxTime /\ nTime # 0
  BY <1>1, AddrManAssumption DEF Infos
<1>4. DOMAIN F = DOMAIN f /\ F[nId] = [f[nId] EXCEPT !.nLastSuccess = nTime]
      /\ \A i \in DOMAIN f : i # nId => F[i] = f[i]
  OBVIOUS
<1> HIDE DEF F, e, new
<1>5. ASSUME NEW i \in DOMAIN f
      PROVE  /\ F[i] \in CAddrInfos /\ F[i].addr = f[i].addr
             /\ F[i].nRefCount = f[i].nRefCount /\ F[i].fInTried = f[i].fInTried
             /\ F[i].nRandomPos = f[i].nRandomPos
             /\ F[i].nLastSuccess = IF i = nId THEN nTime ELSE f[i].nLastSuccess
  <2>1. CASE i = nId
    BY <1>3, <1>4, <2>1 DEF CAddrInfos
  <2>2. CASE i # nId
    BY <1>1, <1>4, <2>2 DEF Infos
  <2> QED
    BY <2>1, <2>2
<1>6. TriedIds(F) = TriedIds(f) /\ NewIds(F) = NewIds(f)
  BY <1>4, <1>5 DEF TriedIds, NewIds
<1>7. Infos(F) /\ Below(F, m.nIdCount) /\ Shuffled(F, m.vRandom) /\ Addressed(F, m.mapAddr)
  <2>1. Relabels(f, F)
    BY <1>4, <1>5 DEF Relabels
  <2> QED
    BY <1>1, <2>1, Relabel
<1>8. InTried(F, m.vvTried) /\ SameTried(f, F) /\ Counted(F, m.nTried, m.nNew)
  <2>1. SameTried(f, F)
    BY <1>3, <1>5, <1>6 DEF SameTried, TriedIds
  <2> QED
    BY <1>1, <1>6, <2>1, SameTriedBuckets DEF Counted
<1>9. InBuckets(F, new)
  <2>1. new \in [NewBuckets -> SUBSET Nat] /\ \A c \in NewBuckets : new[c] \subseteq DOMAIN F
    BY <1>1, <1>4 DEF InBuckets
  <2>2. ASSUME NEW i \in DOMAIN F
        PROVE  /\ F[i].nRefCount = Cardinality(In(new, i))
               /\ F[i].fInTried => In(new, i) = {}
               /\ ~F[i].fInTried => In(new, i) # {} /\ F[i].nRefCount <= NewBucketsPerAddress
    BY <1>1, <1>4, <1>5 DEF InBuckets
  <2> QED
    BY <2>1, <2>2 DEF InBuckets
<1>10. Man(e)
  BY <1>2, <1>7, <1>8, <1>9 DEF Man, Indexes
<1> QED
  BY <1>2, <1>3, <1>4, <1>5, <1>8, <1>10 DEF e, new

\* One entry more at the end of the tried bucket of its address.
LEMMA TriedMore ==
  ASSUME NEW f, Infos(f), NEW T, InTried(f, T), NEW G, NEW nId \in Nat, NEW kb \in TriedBuckets,
         nId \notin TriedIds(f), TriedIds(G) = TriedIds(f) \cup {nId}, \A i \in TriedIds(f) : G[i] = f[i],
         G[nId].nLastSuccess # 0, kb = TriedBucketOf[G[nId].addr]
  PROVE  InTried(G, [T EXCEPT ![kb] = Append(T[kb], nId)])
<1> DEFINE t == T[kb]
           L == Len(t)
           V == Append(t, nId)
           U == [T EXCEPT ![kb] = V]
<1>0. /\ Infos(f) /\ InTried(f, T) /\ nId \in Nat /\ kb \in TriedBuckets
      /\ nId \notin TriedIds(f) /\ TriedIds(G) = TriedIds(f) \cup {nId} /\ \A i \in TriedIds(f) : G[i] = f[i]
      /\ G[nId].nLastSuccess # 0 /\ kb = TriedBucketOf[G[nId].addr] /\ T \in [TriedBuckets -> Seq(Nat)]
  BY DEF InTried
<1>1. t \in Seq(Nat) /\ L \in Nat /\ V \in Seq(Nat) /\ Len(V) = L + 1 /\ V[L + 1] = nId
      /\ \A p \in 1 .. L : V[p] = t[p]
  BY <1>0
<1> HIDE DEF V
<1>2. U \in [TriedBuckets -> Seq(Nat)] /\ U[kb] = V /\ T[kb] = t /\ Len(t) = L
      /\ \A c \in TriedBuckets : c # kb => U[c] = T[c]
  BY <1>0, <1>1
<1> HIDE DEF U, t, L
<1>3. ASSUME NEW b \in TriedBuckets, NEW p \in 1 .. Len(U[b])
      PROVE  /\ U[b][p] \in TriedIds(G) /\ TriedBucketOf[G[U[b][p]].addr] = b
             /\ \A q \in 1 .. Len(U[b]) : U[b][p] = U[b][q] => p = q
  <2>0. /\ \A i \in 1 .. Len(T[b]) : T[b][i] \in TriedIds(f) /\ TriedBucketOf[f[T[b][i]].addr] = b
        /\ \A i, j \in 1 .. Len(T[b]) : T[b][i] = T[b][j] => i = j
    BY <1>0 DEF InTried
  <2>1. \A i \in TriedIds(f) : i \in TriedIds(G) /\ G[i].addr = f[i].addr /\ i # nId
    BY <1>0 DEF TriedIds
  <2>2. CASE b # kb
    <3>1. U[b] = T[b]
      BY <1>2, <2>2
    <3> QED
      BY <2>0, <2>1, <3>1
  <2>3. CASE b = kb
    <3>1. U[b] = V /\ p \in 1 .. L + 1
      BY <1>1, <1>2, <2>3
    <3>0. T[b] = t /\ Len(T[b]) = L
      BY <1>2, <2>3
    <3>2. \A i \in 1 .. L : V[i] \in TriedIds(f) /\ V[i] # nId /\ TriedBucketOf[f[V[i]].addr] = kb
      BY <1>1, <2>0, <2>1, <2>3, <3>0
    <3>3. \A i, j \in 1 .. L : V[i] = V[j] => i = j
      BY <1>1, <2>0, <3>0
    <3>4. V[p] \in TriedIds(G) /\ TriedBucketOf[G[V[p]].addr] = kb
      <4>1. CASE p = L + 1
        BY <1>1, <1>0, <4>1
      <4>2. CASE p \in 1 .. L
        BY <2>1, <3>2, <4>2
      <4> QED
        BY <1>1, <3>1, <4>1, <4>2
    <3>5. ASSUME NEW q \in 1 .. L + 1, V[p] = V[q] PROVE p = q
      BY <1>1, <3>1, <3>2, <3>3, <3>5
    <3> QED
      BY <1>1, <2>3, <3>1, <3>4, <3>5
  <2> QED
    BY <2>2, <2>3
<1>4. ASSUME NEW i \in TriedIds(G)
      PROVE  /\ G[i].nLastSuccess # 0
             /\ \E p \in 1 .. Len(U[TriedBucketOf[G[i].addr]]) : U[TriedBucketOf[G[i].addr]][p] = i
  <2>1. CASE i = nId
    <3>1. TriedBucketOf[G[i].addr] = kb /\ U[kb] = V /\ Len(V) \in 1 .. Len(V) /\ V[Len(V)] = nId
      BY <1>1, <1>2, <1>0, <2>1
    <3> QED
      BY <1>0, <2>1, <3>1
  <2>2. CASE i # nId
    <3> DEFINE c == TriedBucketOf[f[i].addr]
    <3>1. i \in TriedIds(f) /\ G[i] = f[i]
      BY <1>0, <2>2 DEF TriedIds
    <3>2. f[i].nLastSuccess # 0 /\ \E p \in 1 .. Len(T[c]) : T[c][p] = i
      BY <1>0, <3>1 DEF InTried
    <3>3. c \in TriedBuckets
      BY <1>0, <3>1, AddrManAssumption DEF Infos, CAddrInfos, TriedIds
    <3> HIDE DEF c
    <3>4. PICK p \in 1 .. Len(T[c]) : T[c][p] = i
      BY <3>2
    <3>5. p \in 1 .. Len(U[c]) /\ U[c][p] = i
      BY <1>1, <1>2, <3>3, <3>4, SMTT(30)
    <3> QED
      BY <3>1, <3>2, <3>5 DEF c
  <2> QED
    BY <2>1, <2>2
<1> QED
  BY <1>2, <1>3, <1>4 DEF InTried, U, V, t

\* The new buckets without an id.
Outside(new, nId) == [c \in NewBuckets |-> new[c] \ {nId}]

LEMMA InOut ==
  ASSUME NEW new, NEW nId
  PROVE  In(Outside(new, nId), nId) = {} /\ \A j : j # nId => In(Outside(new, nId), j) = In(new, j)
  BY DEF In, Outside

\* An entry taken out of every new bucket: the first part of MakeTried.
LEMMA OutFacts ==
  ASSUME NEW m, Man(m), NEW nId \in DOMAIN m.mapInfo
  PROVE  LET x == OutOfNew(m, nId) IN
         /\ Rec(x) /\ x.nIdCount = m.nIdCount /\ x.vvTried = m.vvTried /\ x.vRandom = m.vRandom
         /\ x.mapAddr = m.mapAddr /\ x.nTried = m.nTried /\ x.nNew = m.nNew - 1
         /\ x.vvNew = Outside(m.vvNew, nId)
         /\ x.mapInfo = [m.mapInfo EXCEPT ![nId].nRefCount = 0]
<1> DEFINE f == m.mapInfo
           x == OutOfNew(m, nId)
           in == {b \in NewBuckets : nId \in m.vvNew[b]}
<1>1. Rec(m) /\ f[nId].nRefCount = Cardinality(In(m.vvNew, nId))
  BY DEF Man, Indexes, InBuckets
<1>2. in = In(m.vvNew, nId)
  BY DEF In
<1>3. Cardinality(In(m.vvNew, nId)) \in Nat
  BY InFacts
<1> HIDE DEF in
<1>4. f[nId].nRefCount - Cardinality(in) = 0
  BY <1>1, <1>2, <1>3
<1>5. x = [m EXCEPT !.vvNew = [b \in NewBuckets |-> @[b] \ {nId}],
                    !.mapInfo[nId].nRefCount = @ - Cardinality(in),
                    !.nNew = @ - 1]
  BY DEF OutOfNew, in
<1>6. /\ Rec(x) /\ x.nIdCount = m.nIdCount /\ x.vvTried = m.vvTried /\ x.vRandom = m.vRandom
      /\ x.mapAddr = m.mapAddr /\ x.nTried = m.nTried /\ x.nNew = m.nNew - 1
  BY <1>1, <1>5 DEF Rec
<1>7. x.vvNew = Outside(m.vvNew, nId)
  BY <1>1, <1>5 DEF Rec, Outside
<1>8. x.mapInfo = [f EXCEPT ![nId].nRefCount = f[nId].nRefCount - Cardinality(in)]
  BY <1>1, <1>5 DEF Rec
<1>9. x.mapInfo = [f EXCEPT ![nId].nRefCount = 0]
  BY <1>4, <1>8
<1> QED
  BY <1>6, <1>7, <1>9

\* MakeTried when the tried bucket has room.
LEMMA RoomFacts ==
  ASSUME NEW m, Man(m), Bounded(m.vvNew, m.vvTried), NEW nId \in DOMAIN m.mapInfo, NEW kb,
         kb = TriedBucketOf[m.mapInfo[nId].addr], m.mapInfo[nId].nLastSuccess # 0,
         ~m.mapInfo[nId].fInTried, Len(m.vvTried[kb]) < TriedBucketSize
  PROVE  LET x == IntoRoom(OutOfNew(m, nId), nId, kb) IN
         Man(x) /\ Bounded(x.vvNew, x.vvTried) /\ x.nIdCount = m.nIdCount /\ Keeps(m, x)
<1> DEFINE f == m.mapInfo
           new == m.vvNew
           T == m.vvTried
           out == OutOfNew(m, nId)
           x == IntoRoom(out, nId, kb)
           F == [f EXCEPT ![nId].nRefCount = 0]
           G == [F EXCEPT ![nId].fInTried = TRUE]
           N == Outside(new, nId)
           t == T[kb]
           L == Len(t)
           V == Append(t, nId)
           U == [T EXCEPT ![kb] = V]
<1>1. /\ Rec(m) /\ Infos(f) /\ Below(f, m.nIdCount) /\ Shuffled(f, m.vRandom) /\ Addressed(f, m.mapAddr)
      /\ InTried(f, T) /\ Counted(f, m.nTried, m.nNew) /\ InBuckets(f, new) /\ Bounded(new, T)
  BY DEF Man, Indexes
<1>h. /\ kb = TriedBucketOf[f[nId].addr] /\ f[nId].nLastSuccess # 0 /\ ~f[nId].fInTried /\ nId \in DOMAIN f
      /\ L < TriedBucketSize
  OBVIOUS
<1>2. /\ Rec(out) /\ out.nIdCount = m.nIdCount /\ out.vvTried = T /\ out.vRandom = m.vRandom
      /\ out.mapAddr = m.mapAddr /\ out.nTried = m.nTried /\ out.nNew = m.nNew - 1
      /\ out.vvNew = N /\ out.mapInfo = F
  BY OutFacts
<1> HIDE DEF out, F, N
<1>3. /\ Rec(x) /\ x.nIdCount = m.nIdCount /\ x.vvTried = U /\ x.vRandom = m.vRandom
      /\ x.mapAddr = m.mapAddr /\ x.nTried = m.nTried + 1 /\ x.nNew = m.nNew - 1
      /\ x.vvNew = N /\ x.mapInfo = G
  BY <1>2 DEF Rec, IntoRoom
<1>4. nId \in Nat /\ f[nId] \in CAddrInfos /\ kb \in TriedBuckets /\ T \in [TriedBuckets -> Seq(Nat)]
  BY <1>1, AddrManAssumption DEF Infos, CAddrInfos, InTried
<1>5. /\ DOMAIN G = DOMAIN f /\ G[nId] = [[f[nId] EXCEPT !.nRefCount = 0] EXCEPT !.fInTried = TRUE]
      /\ \A i \in DOMAIN f : i # nId => G[i] = f[i]
  BY DEF F
<1>6. t \in Seq(Nat) /\ L \in Nat /\ V \in Seq(Nat) /\ Len(V) = L + 1 /\ V[L + 1] = nId
      /\ \A p \in 1 .. L : V[p] = t[p]
  BY <1>4, SMTT(30)
<1> HIDE DEF x, V
<1>7. U \in [TriedBuckets -> Seq(Nat)] /\ U[kb] = V /\ T[kb] = t /\ Len(t) = L
      /\ \A c \in TriedBuckets : c # kb => U[c] = T[c]
  BY <1>4, <1>6
<1> HIDE DEF G, U, f, T, new, t, L
<1>8. /\ G[nId] \in CAddrInfos /\ G[nId].addr = f[nId].addr /\ G[nId].nRandomPos = f[nId].nRandomPos
      /\ G[nId].nLastSuccess = f[nId].nLastSuccess /\ G[nId].nRefCount = 0 /\ G[nId].fInTried
  <2> DEFINE g == f[nId]
             h == [g EXCEPT !.nRefCount = 0]
  <2>1. /\ h \in CAddrInfos /\ h.addr = g.addr /\ h.nRandomPos = g.nRandomPos
        /\ h.nLastSuccess = g.nLastSuccess /\ h.nRefCount = 0
    BY <1>4 DEF CAddrInfos
  <2>2. G[nId] = [h EXCEPT !.fInTried = TRUE]
    BY <1>5
  <2> HIDE DEF h, g
  <2>3. /\ G[nId] \in CAddrInfos /\ G[nId].addr = h.addr /\ G[nId].nRandomPos = h.nRandomPos
        /\ G[nId].nLastSuccess = h.nLastSuccess /\ G[nId].nRefCount = h.nRefCount /\ G[nId].fInTried
    BY <2>1, <2>2 DEF CAddrInfos
  <2> QED
    BY <2>1, <2>3 DEF g
<1>9. Infos(G) /\ Below(G, m.nIdCount) /\ Shuffled(G, m.vRandom) /\ Addressed(G, m.mapAddr)
  <2>1. Relabels(f, G)
    BY <1>1, <1>5, <1>8 DEF Relabels, Infos
  <2> QED
    BY <1>1, <2>1, Relabel
<1>10. TriedIds(G) = TriedIds(f) \cup {nId} /\ NewIds(G) = NewIds(f) \ {nId} /\ nId \notin TriedIds(f) /\ nId \in NewIds(f)
  BY <1>5, <1>8, <1>h DEF TriedIds, NewIds
<1>11. Counted(G, m.nTried + 1, m.nNew - 1) /\ m.nTried \in Nat
  <2>1. IsFiniteSet(NewIds(f)) /\ IsFiniteSet(TriedIds(f))
    BY <1>1, EntriesFinite
  <2>2. Cardinality(NewIds(f) \ {nId}) = Cardinality(NewIds(f)) - 1
    BY <1>10, <2>1, FS_RemoveElement
  <2>3. Cardinality(TriedIds(f) \cup {nId}) = Cardinality(TriedIds(f)) + 1 /\ Cardinality(TriedIds(f)) \in Nat
    BY <1>10, <2>1, FS_AddElement, FS_CardinalityType
  <2> QED
    BY <1>1, <1>10, <2>2, <2>3 DEF Counted
<1>12. InBuckets(G, N)
  <2>1. N \in [NewBuckets -> SUBSET Nat] /\ \A c \in NewBuckets : N[c] \subseteq DOMAIN G
    BY <1>1, <1>5 DEF InBuckets, N, Outside
  <2>2. In(N, nId) = {} /\ \A j : j # nId => In(N, j) = In(new, j)
    BY InOut DEF N
  <2>3. Cardinality({}) = 0
    BY FS_EmptySet
  <2>4. ASSUME NEW i \in DOMAIN G
        PROVE  /\ G[i].nRefCount = Cardinality(In(N, i))
               /\ G[i].fInTried => In(N, i) = {}
               /\ ~G[i].fInTried => In(N, i) # {} /\ G[i].nRefCount <= NewBucketsPerAddress
    <3>1. CASE i = nId
      BY <1>8, <2>2, <2>3, <3>1
    <3>2. CASE i # nId
      BY <1>1, <1>5, <2>2, <3>2 DEF InBuckets
    <3> QED
      BY <3>1, <3>2
  <2> QED
    BY <2>1, <2>4 DEF InBuckets
<1>13. InTried(G, U)
  <2>1. \A i \in TriedIds(f) : G[i] = f[i]
    BY <1>5, <1>10 DEF TriedIds
  <2>2. G[nId].nLastSuccess # 0 /\ kb = TriedBucketOf[G[nId].addr]
    BY <1>8, <1>h
  <2>3. InTried(G, [T EXCEPT ![kb] = Append(T[kb], nId)])
    BY <1>1, <1>4, <1>10, <2>1, <2>2, TriedMore
  <2> QED
    BY <2>3 DEF U, V, t
<1>14. Man(x)
  BY <1>3, <1>9, <1>11, <1>12, <1>13 DEF Man, Indexes
<1>15. Bounded(N, U)
  <2>1. ASSUME NEW c \in NewBuckets PROVE Cardinality(N[c]) <= NewBucketSize
    <3>1. IsFiniteSet(new[c]) /\ Cardinality(new[c]) \in Nat
      BY NewBucketFinite DEF new
    <3>2. N[c] = new[c] \ {nId} /\ Cardinality(new[c]) <= NewBucketSize
      BY <1>1 DEF N, Outside, Bounded
    <3>3. Cardinality(new[c] \ {nId}) <= Cardinality(new[c]) /\ Cardinality(new[c] \ {nId}) \in Nat
      BY <3>1, BucketStep
    <3>4. NewBucketSize \in Nat
      BY AddrManAssumption
    <3> QED
      BY <3>1, <3>2, <3>3, <3>4
  <2>2. TriedBucketSize \in Nat /\ L < TriedBucketSize
    BY <1>h, AddrManAssumption
  <2>3. ASSUME NEW c \in TriedBuckets PROVE Len(U[c]) <= TriedBucketSize
    <3>1. CASE c = kb
      BY <1>6, <1>7, <2>2, <3>1
    <3>2. CASE c # kb
      BY <1>1, <1>7, <3>2 DEF Bounded
    <3> QED
      BY <3>1, <3>2
  <2> QED
    BY <2>1, <2>3 DEF Bounded
<1>16. Keeps(m, x)
  <2>1. x.nTried >= m.nTried
    BY <1>3, <1>11
  <2>2. \A i \in TriedIds(f) : i \in DOMAIN G /\ G[i].addr = f[i].addr
    BY <1>5, <1>10 DEF TriedIds
  <2> QED
    BY <1>3, <2>1, <2>2 DEF Keeps, f
<1> QED
  BY <1>3, <1>14, <1>15, <1>16 DEF x, out, T, f, new

\* When MakeTried finds the tried bucket full.
Full(m, nId, kb, nOrigin, r) ==
  /\ Man(m) /\ Bounded(m.vvNew, m.vvTried) /\ nId \in DOMAIN m.mapInfo
  /\ kb = TriedBucketOf[m.mapInfo[nId].addr] /\ m.mapInfo[nId].nLastSuccess # 0
  /\ ~m.mapInfo[nId].fInTried /\ ~(Len(m.vvTried[kb]) < TriedBucketSize)
  /\ nOrigin \in NewBuckets /\ nId \in m.vvNew[nOrigin]
  /\ r \in Draws(Inspected(m.vvTried[kb]), Len(m.vvTried[kb]))
Evicting(m, nId, kb, nOrigin, r) == InsteadOf(OutOfNew(m, nId), nId, kb, nOrigin, r)

LEMMA InsteadFacts ==
  ASSUME NEW m, NEW nId, NEW kb, NEW nOrigin, NEW r, Full(m, nId, kb, nOrigin, r)
  PROVE  LET x == Evicting(m, nId, kb, nOrigin, r) IN
         Man(x) /\ Bounded(x.vvNew, x.vvTried) /\ x.nIdCount = m.nIdCount /\ Keeps(m, x)
<1> DEFINE f == m.mapInfo
           new == m.vvNew
           T == m.vvTried
           out == OutOfNew(m, nId)
           x == InsteadOf(out, nId, kb, nOrigin, r)
           F == [f EXCEPT ![nId].nRefCount = 0]
           N == Outside(new, nId)
           t == T[kb]
           L == Len(t)
           sel == SelectTried(out, kb, r)
           w == sel.vTried
           pos == sel.nOldestPos
           old == w[pos]
           own == NewBucketOf[NetAddr[F[old].addr], F[old].source]
           b == IF Cardinality(N[own]) < NewBucketSize THEN own ELSE nOrigin
           G == [F EXCEPT ![old].fInTried = FALSE, ![old].nRefCount = 1, ![nId].fInTried = TRUE]
           M == With(N, b, old)
           W == [w EXCEPT ![pos] = nId]
           U == [T EXCEPT ![kb] = W]
<1>m. Man(m) /\ nId \in DOMAIN m.mapInfo
  BY DEF Full
<1>1. /\ Rec(m) /\ Infos(f) /\ Below(f, m.nIdCount) /\ Shuffled(f, m.vRandom) /\ Addressed(f, m.mapAddr)
      /\ InTried(f, T) /\ Counted(f, m.nTried, m.nNew) /\ InBuckets(f, new) /\ Bounded(new, T)
  BY DEF Full, Man, Indexes
<1>h. /\ kb = TriedBucketOf[f[nId].addr] /\ f[nId].nLastSuccess # 0 /\ ~f[nId].fInTried /\ nId \in DOMAIN f
      /\ ~(L < TriedBucketSize) /\ nId \in new[nOrigin] /\ nOrigin \in NewBuckets /\ r \in Draws(Inspected(t), L)
  BY DEF Full
<1>2. /\ Rec(out) /\ out.nIdCount = m.nIdCount /\ out.vvTried = T /\ out.vRandom = m.vRandom
      /\ out.mapAddr = m.mapAddr /\ out.nTried = m.nTried /\ out.nNew = m.nNew - 1
      /\ out.vvNew = N /\ out.mapInfo = F
  BY <1>m, OutFacts
<1>k. kb = TriedBucketOf[f[nId].addr] /\ nId \in DOMAIN f
  BY <1>h
<1>4. nId \in Nat /\ f[nId] \in CAddrInfos /\ kb \in TriedBuckets /\ T \in [TriedBuckets -> Seq(Nat)]
      /\ t \in Seq(Nat) /\ L \in Nat
  <2>1. nId \in Nat /\ f[nId] \in CAddrInfos /\ kb \in TriedBuckets /\ T \in [TriedBuckets -> Seq(Nat)]
    BY <1>1, <1>k, AddrManAssumption DEF Infos, CAddrInfos, InTried
  <2> HIDE DEF T
  <2> QED
    BY <2>1
<1>x. x = [out EXCEPT !.mapInfo[old].fInTried = FALSE,
                      !.mapInfo[old].nRefCount = 1,
                      !.vvNew[b] = @ \cup {old},
                      !.nNew = @ + 1,
                      !.vvTried[kb] = W,
                      !.mapInfo[nId].fInTried = TRUE]
  BY <1>2, Zenon DEF InsteadOf
<1> HIDE DEF out, x, F, N, sel
<1>3. Rearranged(t, w) /\ pos \in 1 .. L
  <2>1. L # 0
    BY <1>4, <1>h, AddrManAssumption
  <2>2. t = out.vvTried[kb] /\ \A p, q \in 1 .. L : t[p] = t[q] => p = q
    BY <1>1, <1>2, <1>4 DEF InTried
  <2> HIDE DEF t
  <2> QED
    BY <1>4, <1>h, <2>1, <2>2, SelectFacts DEF sel
<1> HIDE DEF old, b, W, pos, w, own
<1>5. /\ Rec(x) /\ x.nIdCount = m.nIdCount /\ x.vvTried = U /\ x.vRandom = m.vRandom
      /\ x.mapAddr = m.mapAddr /\ x.nTried = m.nTried /\ x.nNew = m.nNew - 1 + 1
      /\ x.vvNew = [N EXCEPT ![b] = @ \cup {old}]
  BY <1>2, <1>x DEF Rec
<1>g. x.mapInfo = G
  BY <1>2, <1>x DEF Rec
<1> HIDE DEF f, T, new, t, L
<1>t. T[kb] = t /\ Len(t) = L /\ L >= 1
  BY <1>3, <1>4 DEF t, L
<1>6. /\ w \in Seq(Nat) /\ Len(w) = L
  BY <1>3, <1>t, Zenon DEF Rearranged
<1>7. \A p \in 1 .. L : \E q \in 1 .. L : w[q] = t[p]
  BY <1>3, <1>t, Zenon DEF Rearranged
<1>8. \A p \in 1 .. L : \E q \in 1 .. L : t[q] = w[p]
  BY <1>3, <1>t, Zenon DEF Rearranged
<1>9. \A p, q \in 1 .. L : w[p] = w[q] => p = q
  BY <1>3, <1>t, Zenon DEF Rearranged
<1>10. \A p \in 1 .. L : t[p] \in TriedIds(f) /\ TriedBucketOf[f[t[p]].addr] = kb
  BY <1>1, <1>4, <1>t DEF InTried
<1>11. \A p \in 1 .. L : w[p] \in TriedIds(f) /\ TriedBucketOf[f[w[p]].addr] = kb /\ w[p] # nId
  <2>1. ASSUME NEW p \in 1 .. L
        PROVE  w[p] \in TriedIds(f) /\ TriedBucketOf[f[w[p]].addr] = kb /\ w[p] # nId
    <3>1. PICK q \in 1 .. L : t[q] = w[p]
      BY <1>8
    <3>2. t[q] \in TriedIds(f) /\ TriedBucketOf[f[t[q]].addr] = kb
      BY <1>10
    <3> QED
      BY <1>h, <3>1, <3>2 DEF TriedIds
  <2> QED
    BY <2>1
<1>12. /\ old \in TriedIds(f) /\ TriedBucketOf[f[old].addr] = kb /\ old # nId /\ old \in DOMAIN f
       /\ f[old].fInTried /\ f[old] \in CAddrInfos /\ old \in Nat
  BY <1>1, <1>3, <1>11 DEF old, TriedIds, Infos
<1>13. /\ DOMAIN G = DOMAIN f /\ G[nId] = [[f[nId] EXCEPT !.nRefCount = 0] EXCEPT !.fInTried = TRUE]
       /\ G[old] = [[f[old] EXCEPT !.fInTried = FALSE] EXCEPT !.nRefCount = 1]
       /\ \A i \in DOMAIN f : i # nId /\ i # old => G[i] = f[i]
  BY <1>12, <1>h DEF F
<1> HIDE DEF G
<1>14. /\ G[nId] \in CAddrInfos /\ G[nId].addr = f[nId].addr /\ G[nId].nRandomPos = f[nId].nRandomPos
       /\ G[nId].nLastSuccess = f[nId].nLastSuccess /\ G[nId].nRefCount = 0 /\ G[nId].fInTried
  <2> DEFINE g == f[nId]
             h == [g EXCEPT !.nRefCount = 0]
  <2>1. /\ h \in CAddrInfos /\ h.addr = g.addr /\ h.nRandomPos = g.nRandomPos
        /\ h.nLastSuccess = g.nLastSuccess /\ h.nRefCount = 0
    BY <1>4 DEF CAddrInfos
  <2>2. G[nId] = [h EXCEPT !.fInTried = TRUE]
    BY <1>13
  <2> HIDE DEF h, g
  <2>3. /\ G[nId] \in CAddrInfos /\ G[nId].addr = h.addr /\ G[nId].nRandomPos = h.nRandomPos
        /\ G[nId].nLastSuccess = h.nLastSuccess /\ G[nId].nRefCount = h.nRefCount /\ G[nId].fInTried
    BY <2>1, <2>2 DEF CAddrInfos
  <2> QED
    BY <2>1, <2>3 DEF g
<1>15. /\ G[old] \in CAddrInfos /\ G[old].addr = f[old].addr /\ G[old].nRandomPos = f[old].nRandomPos
       /\ G[old].nRefCount = 1 /\ ~G[old].fInTried
  <2> DEFINE g == f[old]
             h == [g EXCEPT !.fInTried = FALSE]
  <2>1. /\ h \in CAddrInfos /\ h.addr = g.addr /\ h.nRandomPos = g.nRandomPos /\ ~h.fInTried
    BY <1>12 DEF CAddrInfos
  <2>2. G[old] = [h EXCEPT !.nRefCount = 1]
    BY <1>13
  <2> HIDE DEF h, g
  <2>3. /\ G[old] \in CAddrInfos /\ G[old].addr = h.addr /\ G[old].nRandomPos = h.nRandomPos
        /\ G[old].fInTried = h.fInTried /\ G[old].nRefCount = 1
    BY <2>1, <2>2 DEF CAddrInfos
  <2> QED
    BY <2>1, <2>3 DEF g
<1>16. Infos(G) /\ Below(G, m.nIdCount) /\ Shuffled(G, m.vRandom) /\ Addressed(G, m.mapAddr)
  <2>1. Relabels(f, G)
    BY <1>1, <1>13, <1>14, <1>15 DEF Relabels, Infos
  <2> QED
    BY <1>1, <2>1, Relabel
<1>17. /\ TriedIds(G) = (TriedIds(f) \ {old}) \cup {nId} /\ NewIds(G) = (NewIds(f) \ {nId}) \cup {old}
       /\ nId \notin TriedIds(f) /\ nId \in NewIds(f) /\ old \notin NewIds(f)
  <2>1. nId \notin TriedIds(f) /\ nId \in NewIds(f) /\ old \notin NewIds(f)
    BY <1>12, <1>h DEF TriedIds, NewIds
  <2>2. \A i \in DOMAIN f : i \in TriedIds(G) <=> (i \in TriedIds(f) /\ i # old) \/ i = nId
    BY <1>13, <1>14, <1>15 DEF TriedIds
  <2>3. \A i \in DOMAIN f : i \in NewIds(G) <=> (i \in NewIds(f) /\ i # nId) \/ i = old
    BY <1>13, <1>14, <1>15 DEF NewIds
  <2>4. /\ TriedIds(G) \subseteq DOMAIN f /\ NewIds(G) \subseteq DOMAIN f
        /\ TriedIds(f) \subseteq DOMAIN f /\ NewIds(f) \subseteq DOMAIN f
    BY <1>13 DEF TriedIds, NewIds
  <2> QED
    BY <1>12, <1>h, <2>1, <2>2, <2>3, <2>4
<1>18. Counted(G, m.nTried, m.nNew - 1 + 1) /\ m.nTried \in Nat
  <2>1. IsFiniteSet(NewIds(f)) /\ IsFiniteSet(TriedIds(f)) /\ Cardinality(NewIds(f)) \in Nat /\ Cardinality(TriedIds(f)) \in Nat
    BY <1>1, EntriesFinite
  <2>2. Cardinality(NewIds(f) \ {nId}) = Cardinality(NewIds(f)) - 1 /\ IsFiniteSet(NewIds(f) \ {nId})
    BY <1>17, <2>1, FS_RemoveElement
  <2>3. Cardinality((NewIds(f) \ {nId}) \cup {old}) = Cardinality(NewIds(f) \ {nId}) + 1
    <3>1. old \notin NewIds(f) \ {nId}
      BY <1>17
    <3> QED
      BY <2>2, <3>1, FS_AddElement
  <2>4. Cardinality(TriedIds(f) \ {old}) = Cardinality(TriedIds(f)) - 1 /\ IsFiniteSet(TriedIds(f) \ {old})
    BY <1>12, <2>1, FS_RemoveElement
  <2>5. Cardinality((TriedIds(f) \ {old}) \cup {nId}) = Cardinality(TriedIds(f) \ {old}) + 1
    <3>1. nId \notin TriedIds(f) \ {old}
      BY <1>17
    <3> QED
      BY <2>4, <3>1, FS_AddElement
  <2> QED
    BY <1>1, <1>17, <2>1, <2>2, <2>3, <2>4, <2>5 DEF Counted
<1>19. b \in NewBuckets /\ Cardinality(N[b]) < NewBucketSize /\ IsFiniteSet(N[b])
  <2>1. own \in NewBuckets
    <3>1. F[old].addr \in Services /\ F[old].source \in Sources
      <4>1. F[old] = f[old]
        BY <1>12 DEF F
      <4> QED
        BY <1>12, <4>1 DEF CAddrInfos
    <3> QED
      BY <3>1, AddrManAssumption DEF own, Nets
  <2>2. IsFiniteSet(new[nOrigin]) /\ Cardinality(new[nOrigin]) \in Nat /\ IsFiniteSet(new[own])
    BY <1>h, <1>m, <2>1, NewBucketFinite DEF new
  <2>3. N[nOrigin] = new[nOrigin] \ {nId} /\ N[own] = new[own] \ {nId}
    BY <1>h, <2>1 DEF N, Outside
  <2>4. Cardinality(new[nOrigin] \ {nId}) = Cardinality(new[nOrigin]) - 1 /\ IsFiniteSet(N[nOrigin]) /\ IsFiniteSet(N[own])
    <3>1. Cardinality(new[nOrigin] \ {nId}) = Cardinality(new[nOrigin]) - 1 /\ IsFiniteSet(new[nOrigin] \ {nId})
      BY <1>h, <2>2, BucketStep
    <3>2. IsFiniteSet(new[own] \ {nId})
      BY <2>2, BucketStep
    <3> QED
      BY <2>3, <3>1, <3>2
  <2>5. Cardinality(new[nOrigin]) <= NewBucketSize /\ NewBucketSize \in Nat
    BY <1>1, <1>h, AddrManAssumption DEF Bounded
  <2>6. Cardinality(N[nOrigin]) < NewBucketSize
    BY <2>2, <2>3, <2>4, <2>5
  <2> QED
    BY <1>h, <2>1, <2>4, <2>6 DEF b
<1>20. x.vvNew = M
  <2>1. N = [c \in NewBuckets |-> N[c]]
    BY DEF N, Outside
  <2> QED
    BY <1>5, <1>19, <2>1 DEF With
<1>21. InBuckets(G, M)
  <2>1. N \in [NewBuckets -> SUBSET Nat] /\ \A c \in NewBuckets : N[c] \subseteq DOMAIN G
    BY <1>1, <1>13 DEF InBuckets, N, Outside
  <2>2. M \in [NewBuckets -> SUBSET Nat] /\ \A c \in NewBuckets : M[c] \subseteq DOMAIN G
    BY <1>12, <1>13, <2>1 DEF With
  <2>3. In(N, nId) = {} /\ \A j : j # nId => In(N, j) = In(new, j)
    BY InOut DEF N
  <2>4. In(new, old) = {}
    BY <1>1, <1>12 DEF InBuckets
  <2>5. b \notin In(N, old)
    BY <1>12, <2>3, <2>4
  <2> HIDE DEF M
  <2>6. In(M, old) = {b} /\ \A j : j # old => In(M, j) = In(N, j)
    <3>1. In(M, old) = In(N, old) \cup {b} /\ \A j : j # old => In(M, j) = In(N, j)
      BY <1>19, <2>5, InWith DEF M
    <3> QED
      BY <1>12, <2>3, <2>4, <3>1
  <2>7. Cardinality({}) = 0 /\ Cardinality({b}) = 1
    BY FS_EmptySet, FS_Singleton
  <2>8. 1 <= NewBucketsPerAddress
    BY AddrManAssumption
  <2>9. ASSUME NEW i \in DOMAIN G
        PROVE  /\ G[i].nRefCount = Cardinality(In(M, i))
               /\ G[i].fInTried => In(M, i) = {}
               /\ ~G[i].fInTried => In(M, i) # {} /\ G[i].nRefCount <= NewBucketsPerAddress
    <3>1. CASE i = nId
      BY <1>12, <1>14, <2>3, <2>6, <2>7, <3>1
    <3>2. CASE i = old
      BY <1>15, <2>6, <2>7, <2>8, <3>2
    <3>3. CASE i # nId /\ i # old
      <4>1. G[i] = f[i] /\ In(M, i) = In(new, i) /\ i \in DOMAIN f
        BY <1>13, <2>3, <2>6, <3>3
      <4> QED
        BY <1>1, <4>1 DEF InBuckets
    <3> QED
      BY <3>1, <3>2, <3>3
  <2> QED
    BY <2>2, <2>9 DEF InBuckets
<1>22. /\ W \in Seq(Nat) /\ Len(W) = L /\ W[pos] = nId /\ \A p \in 1 .. L : p # pos => W[p] = w[p]
  BY <1>3, <1>4, <1>6 DEF W
<1>23. U \in [TriedBuckets -> Seq(Nat)] /\ U[kb] = W /\ \A c \in TriedBuckets : c # kb => U[c] = T[c]
  BY <1>4, <1>22
<1> HIDE DEF U, M
<1>24. InTried(G, U)
  <2>a. \A i \in TriedIds(f) : i # old => i \in TriedIds(G) /\ G[i] = f[i] /\ i # nId
    BY <1>13, <1>17 DEF TriedIds
  <2>1. ASSUME NEW c \in TriedBuckets, NEW p \in 1 .. Len(U[c])
        PROVE  /\ U[c][p] \in TriedIds(G) /\ TriedBucketOf[G[U[c][p]].addr] = c
               /\ \A q \in 1 .. Len(U[c]) : U[c][p] = U[c][q] => p = q
    <3>1. CASE c # kb
      <4>1. /\ \A i \in 1 .. Len(T[c]) : T[c][i] \in TriedIds(f) /\ TriedBucketOf[f[T[c][i]].addr] = c
            /\ \A i, j \in 1 .. Len(T[c]) : T[c][i] = T[c][j] => i = j
        BY <1>1 DEF InTried
      <4>2. U[c] = T[c]
        BY <1>23, <3>1
      <4>3. \A i \in 1 .. Len(T[c]) : T[c][i] # old
        BY <1>12, <3>1, <4>1
      <4> QED
        BY <2>a, <4>1, <4>2, <4>3
    <3>2. CASE c = kb
      <4>1. U[c] = W /\ p \in 1 .. L /\ Len(U[c]) = L
        BY <1>22, <1>23, <3>2
      <4>2. \A i \in 1 .. L : i # pos => w[i] # old
        BY <1>3, <1>9 DEF old
      <4>3. \A i \in 1 .. L : i # pos => W[i] \in TriedIds(G) /\ TriedBucketOf[G[W[i]].addr] = kb /\ W[i] # nId
        BY <1>11, <1>22, <2>a, <4>2
      <4>4. W[p] \in TriedIds(G) /\ TriedBucketOf[G[W[p]].addr] = kb
        <5>1. CASE p = pos
          BY <1>14, <1>17, <1>22, <1>h, <5>1
        <5>2. CASE p # pos
          BY <4>1, <4>3, <5>2
        <5> QED
          BY <5>1, <5>2
      <4>5. ASSUME NEW q \in 1 .. L, W[p] = W[q] PROVE p = q
        BY <1>3, <1>9, <1>22, <4>1, <4>3, <4>5
      <4> QED
        BY <3>2, <4>1, <4>4, <4>5
    <3> QED
      BY <3>1, <3>2
  <2>2. ASSUME NEW i \in TriedIds(G)
        PROVE  /\ G[i].nLastSuccess # 0
               /\ \E p \in 1 .. Len(U[TriedBucketOf[G[i].addr]]) : U[TriedBucketOf[G[i].addr]][p] = i
    <3>1. CASE i = nId
      <4>1. TriedBucketOf[G[i].addr] = kb /\ U[kb] = W /\ pos \in 1 .. Len(W) /\ W[pos] = nId
        BY <1>3, <1>14, <1>22, <1>23, <1>h, <3>1
      <4> QED
        BY <1>14, <1>h, <3>1, <4>1
    <3>2. CASE i # nId
      <4> DEFINE c == TriedBucketOf[f[i].addr]
      <4>1. i \in TriedIds(f) /\ G[i] = f[i] /\ i # old
        BY <1>13, <1>17, <3>2 DEF TriedIds
      <4>2. f[i].nLastSuccess # 0 /\ \E p \in 1 .. Len(T[c]) : T[c][p] = i
        BY <1>1, <4>1 DEF InTried
      <4>3. c \in TriedBuckets
        BY <1>1, <4>1, AddrManAssumption DEF Infos, CAddrInfos, TriedIds
      <4> HIDE DEF c
      <4>4. PICK p \in 1 .. Len(T[c]) : T[c][p] = i
        BY <4>2
      <4>5. \E q \in 1 .. Len(U[c]) : U[c][q] = i
        <5>1. CASE c # kb
          BY <1>23, <4>3, <4>4, <5>1
        <5>2. CASE c = kb
          <6>1. p \in 1 .. L /\ t[p] = i
            BY <1>t, <4>4, <5>2
          <6>2. PICK q \in 1 .. L : w[q] = t[p]
            BY <1>7, <6>1
          <6>3. q # pos
            BY <4>1, <6>1, <6>2 DEF old
          <6>4. W[q] = i
            BY <1>22, <6>1, <6>2, <6>3
          <6> QED
            BY <1>22, <1>23, <5>2, <6>4
        <5> QED
          BY <5>1, <5>2
      <4> QED
        BY <4>1, <4>2, <4>5 DEF c
    <3> QED
      BY <3>1, <3>2
  <2> QED
    BY <1>23, <2>1, <2>2 DEF InTried
<1>25. Man(x)
  BY <1>5, <1>g, <1>16, <1>18, <1>20, <1>21, <1>24 DEF Man, Indexes
<1>26. Bounded(M, U)
  <2>0. NewBucketSize \in Nat
    BY AddrManAssumption
  <2>1. ASSUME NEW c \in NewBuckets PROVE Cardinality(M[c]) <= NewBucketSize
    <3>1. CASE c = b
      <4>1. M[c] = N[b] \cup {old}
        BY <1>19, <3>1 DEF M, With
      <4>2. Cardinality(N[b] \cup {old}) <= Cardinality(N[b]) + 1 /\ Cardinality(N[b]) \in Nat /\ Cardinality(N[b] \cup {old}) \in Nat
        BY <1>19, BucketStep
      <4> QED
        BY <1>19, <2>0, <4>1, <4>2
    <3>2. CASE c # b
      <4>1. IsFiniteSet(new[c]) /\ Cardinality(new[c]) \in Nat
        BY <1>m, NewBucketFinite DEF new
      <4>2. M[c] = new[c] \ {nId} /\ Cardinality(new[c]) <= NewBucketSize
        BY <1>1, <3>2 DEF M, With, N, Outside, Bounded
      <4>3. Cardinality(new[c] \ {nId}) <= Cardinality(new[c]) /\ Cardinality(new[c] \ {nId}) \in Nat
        BY <4>1, BucketStep
      <4> QED
        BY <2>0, <4>1, <4>2, <4>3
    <3> QED
      BY <3>1, <3>2
  <2>2. ASSUME NEW c \in TriedBuckets PROVE Len(U[c]) <= TriedBucketSize
    <3>1. CASE c = kb
      <4>1. Len(T[kb]) <= TriedBucketSize
        BY <1>1, <1>4 DEF Bounded
      <4> QED
        BY <1>22, <1>23, <1>t, <3>1, <4>1
    <3>2. CASE c # kb
      BY <1>1, <1>23, <3>2 DEF Bounded
    <3> QED
      BY <3>1, <3>2
  <2> QED
    BY <2>1, <2>2 DEF Bounded
<1>27. Keeps(m, x)
  <2>1. x.nTried >= m.nTried
    BY <1>5, <1>18
  <2>2. \A i \in TriedIds(f) : i \in DOMAIN G /\ G[i].addr = f[i].addr
    BY <1>12, <1>13, <1>15, <1>17 DEF TriedIds
  <2> QED
    BY <1>g, <2>1, <2>2 DEF Keeps, f
<1> QED
  BY <1>5, <1>20, <1>25, <1>26, <1>27 DEF x, out, Evicting

\* Good.
LEMMA GoodFacts ==
  ASSUME AddrInv, NEW svc \in Services, NEW nTime \in 1 .. MaxTime, Good(svc, nTime)
  PROVE  AddrInv' /\ Keeps(am, am')
<1> DEFINE nId == Find(am, svc)
           f == am.mapInfo
           m == [am EXCEPT !.mapInfo[nId].nLastSuccess = nTime]
           kb == TriedBucketOf[svc]
<1>1. /\ Man(am) /\ Bounded(am.vvNew, am.vvTried) /\ am.nIdCount \in Ids /\ f[nId].addr = svc /\ Known(am, svc)
      /\ IF f[nId].fInTried \/ \A b \in NewBuckets : nId \notin am.vvNew[b]
         THEN am' = m
         ELSE \E nOrigin \in NewBuckets, r \in Draws(Inspected(am.vvTried[kb]), Len(am.vvTried[kb])) :
                /\ nId \in am.vvNew[nOrigin]
                /\ am' = MakeTried(m, nId, nOrigin, r)
  BY DEF AddrInv, Good
<1>2. nId \in DOMAIN f
  BY <1>1 DEF Man, Indexes, Addressed, Known, Find
<1> HIDE DEF nId
<1>3. /\ Man(m) /\ m.nIdCount = am.nIdCount /\ m.vvTried = am.vvTried /\ m.nTried = am.nTried /\ m.vvNew = am.vvNew
      /\ DOMAIN m.mapInfo = DOMAIN f /\ SameTried(f, m.mapInfo)
      /\ m.mapInfo[nId].nLastSuccess # 0 /\ m.mapInfo[nId].addr = f[nId].addr
  BY <1>1, <1>2, StampFacts
<1>4. Keeps(am, m)
  BY <1>1, <1>3, SameTriedKeeps DEF Man
<1> HIDE DEF m, kb
<1>5. CASE am' = m
  BY <1>1, <1>3, <1>4, <1>5 DEF AddrInv
<1>6. CASE am' # m
  <2>1. PICK nOrigin \in NewBuckets, r \in Draws(Inspected(am.vvTried[kb]), Len(am.vvTried[kb])) :
                /\ nId \in am.vvNew[nOrigin]
                /\ am' = MakeTried(m, nId, nOrigin, r)
    BY <1>1, <1>6
  <2>2. nId \in m.vvNew[nOrigin] /\ nId \in DOMAIN m.mapInfo /\ r \in Draws(Inspected(m.vvTried[kb]), Len(m.vvTried[kb]))
    BY <1>2, <1>3, <2>1
  <2>3. kb = TriedBucketOf[m.mapInfo[nId].addr]
    BY <1>1, <1>3 DEF kb
  <2>4. ~m.mapInfo[nId].fInTried
    BY <1>3, <2>2 DEF Man, InBuckets, In
  <2>5. Bounded(m.vvNew, m.vvTried)
    BY <1>1, <1>3
  <2>6. OutOfNew(m, nId).vvTried = m.vvTried
    BY <1>3, <2>2, OutFacts
  <2>7. am' = IF Len(m.vvTried[kb]) < TriedBucketSize
              THEN IntoRoom(OutOfNew(m, nId), nId, kb)
              ELSE InsteadOf(OutOfNew(m, nId), nId, kb, nOrigin, r)
    BY <2>1, <2>3, <2>6 DEF MakeTried
  <2>8. Man(am') /\ Bounded(am'.vvNew, am'.vvTried) /\ am'.nIdCount = m.nIdCount /\ Keeps(m, am')
    <3>1. CASE Len(m.vvTried[kb]) < TriedBucketSize
      <4>1. am' = IntoRoom(OutOfNew(m, nId), nId, kb)
        BY <2>7, <3>1
      <4>2. LET x == IntoRoom(OutOfNew(m, nId), nId, kb) IN
              Man(x) /\ Bounded(x.vvNew, x.vvTried) /\ x.nIdCount = m.nIdCount /\ Keeps(m, x)
        BY <1>3, <2>2, <2>3, <2>4, <2>5, <3>1, RoomFacts
      <4> QED
        BY <4>1, <4>2
    <3>2. CASE ~(Len(m.vvTried[kb]) < TriedBucketSize)
      <4> DEFINE x == Evicting(m, nId, kb, nOrigin, r)
      <4>1. am' = x
        BY <2>7, <3>2 DEF Evicting
      <4>2. Full(m, nId, kb, nOrigin, r)
        BY <1>3, <2>2, <2>3, <2>4, <2>5, <3>2 DEF Full
      <4>3. Man(x) /\ Bounded(x.vvNew, x.vvTried) /\ x.nIdCount = m.nIdCount /\ Keeps(m, x)
        BY <4>2, InsteadFacts
      <4> HIDE DEF x
      <4> QED
        BY <4>1, <4>3
    <3> QED
      BY <3>1, <3>2
  <2>9. Keeps(am, am')
    <3>1. am.nTried \in Nat
      BY <1>1, EntriesFinite DEF Man, Indexes, Counted
    <3> QED
      BY <1>3, <2>8, <3>1 DEF Keeps, SameTried
  <2> QED
    BY <1>1, <1>3, <2>8, <2>9 DEF AddrInv
<1> QED
  BY <1>5, <1>6

-----------------------------------------------------------------------------
(***************************************************************************)
(* The answer to getaddr                                                   *)
(***************************************************************************)

\* Infos at other places of vRandom.
LEMMA AlikeMan ==
  ASSUME NEW m, Man(m), NEW s, Rec(s), SameBut(m, s), DOMAIN s.mapInfo = DOMAIN m.mapInfo,
         Alike(m.mapInfo, s.mapInfo), Infos(s.mapInfo), Shuffled(s.mapInfo, s.vRandom)
  PROVE  Man(s) /\ SameTried(m.mapInfo, s.mapInfo)
<1> DEFINE f == m.mapInfo
           F == s.mapInfo
           new == m.vvNew
<1>1. /\ Below(f, m.nIdCount) /\ Addressed(f, m.mapAddr)
      /\ InTried(f, m.vvTried) /\ Counted(f, m.nTried, m.nNew) /\ InBuckets(f, new)
  BY DEF Man, Indexes
<1>2. /\ s.nIdCount = m.nIdCount /\ s.mapAddr = m.mapAddr /\ s.nTried = m.nTried
      /\ s.vvTried = m.vvTried /\ s.nNew = m.nNew /\ s.vvNew = new
  BY DEF SameBut
<1>3. DOMAIN F = DOMAIN f /\ \A i \in DOMAIN f : /\ F[i].addr = f[i].addr /\ F[i].nLastSuccess = f[i].nLastSuccess
                                                 /\ F[i].nRefCount = f[i].nRefCount /\ F[i].fInTried = f[i].fInTried
  BY DEF Alike
<1>d. Infos(F) /\ Shuffled(F, s.vRandom)
  OBVIOUS
<1> HIDE DEF f, F, new
<1>4. TriedIds(F) = TriedIds(f) /\ NewIds(F) = NewIds(f)
  BY <1>3 DEF TriedIds, NewIds
<1>5. SameTried(f, F)
  BY <1>3, <1>4 DEF SameTried, TriedIds
<1>6. InTried(F, m.vvTried) /\ Counted(F, m.nTried, m.nNew) /\ Below(F, m.nIdCount)
  BY <1>1, <1>3, <1>4, <1>5, SameTriedBuckets DEF Counted, Below
<1>7. Addressed(F, m.mapAddr)
  BY <1>1, <1>3 DEF Addressed
<1>8. InBuckets(F, new)
  <2>1. new \in [NewBuckets -> SUBSET Nat] /\ \A c \in NewBuckets : new[c] \subseteq DOMAIN F
    BY <1>1, <1>3 DEF InBuckets
  <2>2. ASSUME NEW i \in DOMAIN F
        PROVE  /\ F[i].nRefCount = Cardinality(In(new, i))
               /\ F[i].fInTried => In(new, i) = {}
               /\ ~F[i].fInTried => In(new, i) # {} /\ F[i].nRefCount <= NewBucketsPerAddress
    BY <1>1, <1>3 DEF InBuckets
  <2> QED
    BY <2>1, <2>2 DEF InBuckets
<1> QED
  BY <1>2, <1>5, <1>6, <1>7, <1>8, <1>d DEF Man, Indexes, F, f

\* A percentage of a length is within it.
LEMMA PctFacts ==
  ASSUME NEW pct \in 0 .. 100, NEW L \in Nat
  PROVE  (pct * L) \div 100 \in 0 .. L
<1>1. 100 * L - pct * L = (100 - pct) * L /\ (100 - pct) * L >= 0 /\ pct * L \in Nat
  OBVIOUS
<1>2. pct * L <= 100 * L
  BY <1>1
<1> DEFINE z == pct * L
<1>3. z \in Nat /\ z <= 100 * L
  BY <1>1, <1>2
<1> HIDE DEF z
<1>4. z \div 100 \in 0 .. L
  BY <1>3
<1> QED
  BY <1>4 DEF z

\* GetAddr_ shuffles vRandom.
LEMMA GetAddrFacts ==
  ASSUME AddrInv, GetAddr
  PROVE  AddrInv' /\ Keeps(am, am')
<1> DEFINE L == Len(am.vRandom)
           k == (GetAddrMaxPct * L) \div 100
           f == am.mapInfo
<1>1. /\ Man(am) /\ Bounded(am.vvNew, am.vvTried) /\ am.nIdCount \in Ids
      /\ Rec(am) /\ Infos(f) /\ Shuffled(f, am.vRandom)
  BY DEF AddrInv, Man, Indexes
<1>2. L \in Nat
  BY <1>1 DEF Shuffled
<1>3. k \in Nat /\ k <= L
  <2> HIDE DEF L
  <2>1. GetAddrMaxPct \in 0 .. 100
    BY AddrManAssumption
  <2>2. k \in 0 .. L
    BY <1>2, <2>1, PctFacts
  <2> HIDE DEF k
  <2> QED
    BY <1>2, <2>2
<1>4. PICK r \in Draws(k, L) : am' = Shuffling(am, k, r)[k]
  BY DEF GetAddr
<1> HIDE DEF k
<1>5. \A n \in 1 .. k : r[n] \in 1 .. L
  BY DEF Draws
<1> DEFINE s == Shuffling(am, k, r)
           Good1(m) == /\ Rec(m) /\ SameBut(am, m) /\ DOMAIN m.mapInfo = DOMAIN f /\ Alike(f, m.mapInfo)
                       /\ Infos(m.mapInfo) /\ Shuffled(m.mapInfo, m.vRandom) /\ Len(m.vRandom) = L
           S == {n \in Nat : n <= k => Good1(s[n])}
<1>6. s = [i \in 0 .. k |-> IF i = 0 THEN am ELSE SwapRandom(s[i - 1], i, r[i])]
  BY <1>3, ShufflingDef
<1> HIDE DEF s, L
<1>7. 0 \in S
  <2>1. s[0] = am
    BY <1>3, <1>6
  <2>2. Good1(am)
    BY <1>1 DEF SameBut, Alike, Infos, L
  <2> QED
    BY <2>1, <2>2
<1>8. ASSUME NEW n \in Nat, n + 1 <= k, n \in S PROVE n + 1 \in S
  <2> DEFINE m == s[n]
             p == n + 1
             q == r[p]
             x == SwapRandom(m, p, q)
  <2>1. Good1(m)
    BY <1>3, <1>8
  <2>2. p \in 1 .. k /\ p \in 1 .. L /\ q \in 1 .. L /\ p # 0 /\ p - 1 = n /\ p \in 0 .. k
    BY <1>2, <1>3, <1>5, <1>8
  <2>3. s[p] = x
    BY <1>6, <2>2
  <2> HIDE DEF m, p, q
  <2>4. p \in 1 .. Len(m.vRandom) /\ q \in 1 .. Len(m.vRandom)
    BY <2>1, <2>2
  <2>5. /\ Rec(x) /\ SameBut(m, x) /\ DOMAIN x.mapInfo = DOMAIN m.mapInfo /\ Alike(m.mapInfo, x.mapInfo)
        /\ Infos(x.mapInfo) /\ Shuffled(x.mapInfo, x.vRandom)
        /\ Len(x.vRandom) = Len(m.vRandom)
    BY <2>1, <2>4, SwapFacts
  <2> HIDE DEF x
  <2>6. SameBut(am, x)
    BY <2>1, <2>5 DEF SameBut
  <2>7. Alike(f, x.mapInfo)
    BY <2>1, <2>5 DEF Alike
  <2>8. Good1(x) /\ p \in Nat
    BY <2>1, <2>2, <2>5, <2>6, <2>7
  <2>9. p \in S
    BY <2>3, <2>8
  <2> QED
    BY <2>9 DEF p
<1>9. k \in S
  <2> HIDE DEF S
  <2>1. k \in Nat /\ k \in 0 .. k
    BY <1>3
  <2>2. \A n \in Nat : n + 1 <= k /\ n \in S => n + 1 \in S
    BY <1>8
  <2>3. \A n \in 0 .. k : n \in S
    BY <1>7, <2>1, <2>2, InductTo
  <2> QED
    BY <2>1, <2>3
<1>10. Good1(s[k]) /\ am' = s[k]
  BY <1>3, <1>4, <1>9 DEF s
<1>11. Good1(am')
  BY <1>10
<1>12. Man(am') /\ SameTried(f, am'.mapInfo)
  BY <1>1, <1>11, AlikeMan
<1>13. am'.vvNew = am.vvNew /\ am'.vvTried = am.vvTried /\ am'.nIdCount = am.nIdCount /\ am'.nTried = am.nTried
  BY <1>11 DEF SameBut
<1>14. Keeps(am, am')
  BY <1>1, <1>12, <1>13, SameTriedKeeps DEF Man
<1> QED
  BY <1>1, <1>12, <1>13, <1>14 DEF AddrInv

-----------------------------------------------------------------------------
(***************************************************************************)
(* Ids in order                                                            *)
(***************************************************************************)

\* S is a finite set of ids.
IdSet(S) == IsFiniteSet(S) /\ \A i \in S : i \in Nat

\* Rank is the rank of an id, and InOrder its inverse.
LEMMA RankFacts ==
  ASSUME NEW S, IdSet(S)
  PROVE  /\ Cardinality(S) \in Nat
         /\ \A i \in S : Rank(S, i) \in 0 .. Cardinality(S) - 1
         /\ \A i, j \in S : Rank(S, i) = Rank(S, j) => i = j
         /\ \A k \in 1 .. Cardinality(S) : InOrder(S)[k] \in S /\ Rank(S, InOrder(S)[k]) = k - 1
         /\ \A i \in S : InOrder(S)[Rank(S, i) + 1] = i
         /\ InOrder(S) \in Seq(Nat) /\ Len(InOrder(S)) = Cardinality(S)
<1> DEFINE n == Cardinality(S)
           P(i) == {j \in S : j < i}
<1>1. IsFiniteSet(S) /\ n \in Nat /\ \A i \in S : i \in Nat
  BY FS_CardinalityType DEF IdSet
<1>2. ASSUME NEW i \in S PROVE Rank(S, i) = Cardinality(P(i)) /\ IsFiniteSet(P(i)) /\ Cardinality(P(i)) \in Nat
  <2>1. P(i) \in SUBSET S
    OBVIOUS
  <2>2. IsFiniteSet(P(i))
    BY <1>1, <2>1, FS_Subset
  <2> QED
    BY <2>2, FS_CardinalityType DEF Rank
<1>3. ASSUME NEW i \in S PROVE Rank(S, i) \in 0 .. n - 1
  <2>1. P(i) \in SUBSET (S \ {i})
    BY <1>1
  <2>2. IsFiniteSet(S \ {i}) /\ Cardinality(S \ {i}) = n - 1
    BY <1>1, FS_RemoveElement
  <2>3. Cardinality(P(i)) <= Cardinality(S \ {i})
    <3> DEFINE Q == P(i)
               R == S \ {i}
    <3>1. IsFiniteSet(R) /\ Q \in SUBSET R
      BY <2>1, <2>2
    <3> HIDE DEF Q, R
    <3>2. Cardinality(Q) <= Cardinality(R)
      BY <3>1, FS_Subset
    <3> QED
      BY <3>2 DEF Q, R
  <2> HIDE DEF n
  <2> QED
    BY <1>1, <1>2, <2>2, <2>3
<1>4. ASSUME NEW i \in S, NEW j \in S, i < j PROVE Rank(S, i) < Rank(S, j)
  <2> DEFINE Q == P(i)
             R == P(j)
  <2>1. i \notin Q /\ Q \cup {i} \in SUBSET R
    BY <1>1, <1>4
  <2>2. IsFiniteSet(Q) /\ IsFiniteSet(R) /\ Rank(S, i) = Cardinality(Q) /\ Rank(S, j) = Cardinality(R)
        /\ Cardinality(Q) \in Nat /\ Cardinality(R) \in Nat
    BY <1>2
  <2> HIDE DEF Q, R
  <2>3. Cardinality(Q \cup {i}) = Cardinality(Q) + 1
    BY <2>1, <2>2, FS_AddElement
  <2>4. Cardinality(Q \cup {i}) <= Cardinality(R)
    BY <2>1, <2>2, FS_Subset
  <2> QED
    BY <2>2, <2>3, <2>4
<1>5. ASSUME NEW i \in S, NEW j \in S, Rank(S, i) = Rank(S, j) PROVE i = j
  <2>1. i \in Nat /\ j \in Nat /\ Rank(S, i) \in Int /\ Rank(S, j) \in Int
    BY <1>1, <1>3
  <2>2. ~(i < j) /\ ~(j < i)
    BY <1>4, <1>5, <2>1
  <2> QED
    BY <2>1, <2>2
<1> DEFINE B == 0 .. n - 1
           g == [i \in S |-> Rank(S, i)]
<1>6. g \in Injection(S, B)
  <2>1. g \in [S -> B]
    BY <1>3
  <2>2. \A i, j \in S : g[i] = g[j] => i = j
    BY <1>5
  <2> HIDE DEF g, B
  <2> QED
    BY <2>1, <2>2, Zenon DEF Injection, IsInjective
<1>7. IsFiniteSet(B) /\ Cardinality(B) = n
  <2>1. IsFiniteSet(0 .. n - 1) /\ Cardinality(0 .. n - 1) = IF 0 > n - 1 THEN 0 ELSE n - 1 - 0 + 1
    <3> HIDE DEF n
    <3>1. 0 \in Int /\ n - 1 \in Int
      BY <1>1
    <3> QED
      BY <3>1, FS_Interval
  <2> HIDE DEF n
  <2> QED
    BY <1>1, <2>1
<1>8. ASSUME NEW k \in 1 .. n PROVE \E i \in S : Rank(S, i) = k - 1
  <2> HIDE DEF g, B
  <2>1. Cardinality(S) = Cardinality(B)
    BY <1>7
  <2>2. g \in Surjection(S, B)
    BY <1>6, <1>7, <2>1, FS_Injection
  <2>3. k - 1 \in B
    BY <1>1 DEF B
  <2>4. \E i \in S : g[i] = k - 1
    BY <2>2, <2>3, Zenon DEF Surjection
  <2> QED
    BY <2>4 DEF g
<1>9. ASSUME NEW k \in 1 .. n PROVE InOrder(S)[k] \in S /\ Rank(S, InOrder(S)[k]) = k - 1
  <2>1. InOrder(S)[k] = CHOOSE i \in S : Rank(S, i) = k - 1
    BY DEF InOrder
  <2>2. \E i \in S : Rank(S, i) = k - 1
    BY <1>8
  <2> QED
    BY <2>1, <2>2, Zenon
<1>10. ASSUME NEW i \in S PROVE InOrder(S)[Rank(S, i) + 1] = i
  <2> DEFINE k == Rank(S, i) + 1
  <2>1. k \in 1 .. n /\ k - 1 = Rank(S, i)
    <3> HIDE DEF n
    <3> QED
      BY <1>1, <1>3
  <2>2. InOrder(S)[k] \in S /\ Rank(S, InOrder(S)[k]) = k - 1
    BY <1>9, <2>1
  <2> QED
    BY <1>5, <2>1, <2>2
<1>11. InOrder(S) \in Seq(Nat) /\ Len(InOrder(S)) = n
  <2> DEFINE s == InOrder(S)
  <2>1. s = [k \in 1 .. n |-> CHOOSE i \in S : Rank(S, i) = k - 1]
    BY DEF InOrder
  <2>2. \A k \in 1 .. n : s[k] \in Nat
    BY <1>1, <1>9
  <2>3. s \in [1 .. n -> Nat]
    <3>1. DOMAIN s = 1 .. n /\ s = [k \in 1 .. n |-> s[k]]
      BY <2>1, Zenon
    <3> HIDE DEF s, n
    <3> QED
      BY <2>2, <3>1
  <2> HIDE DEF s, n
  <2> QED
    BY <1>1, <2>3 DEF s
<1> QED
  BY <1>1, <1>3, <1>5, <1>9, <1>10, <1>11

-----------------------------------------------------------------------------
(***************************************************************************)
(* peers.dat                                                               *)
(***************************************************************************)

\* The number of ids a dump holds, and the id that is read back as x.
NNew(f) == Cardinality(NewIds(f))
NTried(f) == Cardinality(TriedIds(f))
ReadIds(f) == 0 .. NNew(f) + NTried(f) - 1
Orig(f, x) == IF x < NNew(f) THEN InOrder(NewIds(f))[x + 1] ELSE InOrder(TriedIds(f))[x - NNew(f) + 1]

LEMMA OrigFacts ==
  ASSUME NEW f, NEW k, Infos(f), Below(f, k)
  PROVE  /\ IdSet(NewIds(f)) /\ IdSet(TriedIds(f)) /\ NNew(f) \in Nat /\ NTried(f) \in Nat
         /\ \A x \in ReadIds(f) : /\ Orig(f, x) \in DOMAIN f
                                  /\ x < NNew(f) => Orig(f, x) \in NewIds(f) /\ Rank(NewIds(f), Orig(f, x)) = x
                                  /\ ~(x < NNew(f)) => Orig(f, x) \in TriedIds(f)
         /\ \A x, y \in ReadIds(f) : Orig(f, x) = Orig(f, y) => x = y
         /\ \A i \in DOMAIN f : \E x \in ReadIds(f) : Orig(f, x) = i
<1> DEFINE n == NNew(f)
           t == NTried(f)
           A == NewIds(f)
           B == TriedIds(f)
<1>1. IdSet(A) /\ IdSet(B) /\ A \subseteq DOMAIN f /\ B \subseteq DOMAIN f /\ A \cap B = {} /\ DOMAIN f = A \cup B
  <2>1. IsFiniteSet(A) /\ IsFiniteSet(B)
    BY EntriesFinite
  <2>2. A \subseteq DOMAIN f /\ B \subseteq DOMAIN f /\ A \cap B = {} /\ DOMAIN f = A \cup B
    BY DEF NewIds, TriedIds
  <2> QED
    BY <2>1, <2>2 DEF IdSet, Infos
<1> HIDE DEF A, B
<1>2. /\ Cardinality(A) \in Nat
      /\ \A i \in A : Rank(A, i) \in 0 .. Cardinality(A) - 1
      /\ \A j \in 1 .. Cardinality(A) : InOrder(A)[j] \in A /\ Rank(A, InOrder(A)[j]) = j - 1
      /\ \A i \in A : InOrder(A)[Rank(A, i) + 1] = i
  BY <1>1, RankFacts
<1>3. /\ Cardinality(B) \in Nat
      /\ \A i \in B : Rank(B, i) \in 0 .. Cardinality(B) - 1
      /\ \A j \in 1 .. Cardinality(B) : InOrder(B)[j] \in B /\ Rank(B, InOrder(B)[j]) = j - 1
      /\ \A i \in B : InOrder(B)[Rank(B, i) + 1] = i
  BY <1>1, RankFacts
<1>4. n = Cardinality(A) /\ t = Cardinality(B) /\ n \in Nat /\ t \in Nat /\ ReadIds(f) = 0 .. n + t - 1
  BY <1>2, <1>3 DEF A, B, NNew, NTried, ReadIds
<1>5. \A x : Orig(f, x) = IF x < n THEN InOrder(A)[x + 1] ELSE InOrder(B)[x - n + 1]
  BY DEF Orig, A, B
<1> HIDE DEF n, t
<1>6. ASSUME NEW x \in ReadIds(f), x < n
      PROVE  Orig(f, x) \in A /\ Rank(A, Orig(f, x)) = x /\ Orig(f, x) = InOrder(A)[x + 1]
  <2>1. x + 1 \in 1 .. Cardinality(A) /\ (x + 1) - 1 = x
    BY <1>4, <1>6
  <2>2. Orig(f, x) = InOrder(A)[x + 1]
    BY <1>5, <1>6, Zenon
  <2>3. InOrder(A)[x + 1] \in A /\ Rank(A, InOrder(A)[x + 1]) = (x + 1) - 1
    BY <1>2, <2>1
  <2> QED
    BY <2>1, <2>2, <2>3, Zenon
<1>7. ASSUME NEW x \in ReadIds(f), ~(x < n)
      PROVE  Orig(f, x) \in B /\ Rank(B, Orig(f, x)) = x - n /\ Orig(f, x) = InOrder(B)[x - n + 1]
  <2>1. x - n + 1 \in 1 .. Cardinality(B) /\ (x - n + 1) - 1 = x - n
    BY <1>4, <1>7
  <2>2. Orig(f, x) = InOrder(B)[x - n + 1]
    BY <1>5, <1>7, Zenon
  <2>3. InOrder(B)[x - n + 1] \in B /\ Rank(B, InOrder(B)[x - n + 1]) = (x - n + 1) - 1
    BY <1>3, <2>1
  <2> QED
    BY <2>1, <2>2, <2>3, Zenon
<1>8. ASSUME NEW x \in ReadIds(f), NEW y \in ReadIds(f), Orig(f, x) = Orig(f, y) PROVE x = y
  <2>0. x \in Int /\ y \in Int
    BY <1>4
  <2>1. CASE x < n /\ y < n
    BY <1>6, <1>8, <2>1
  <2>2. CASE ~(x < n) /\ ~(y < n)
    <3>1. x - n = y - n
      BY <1>7, <1>8, <2>2
    <3> QED
      BY <1>4, <2>0, <3>1
  <2>3. CASE x < n /\ ~(y < n)
    BY <1>1, <1>6, <1>7, <1>8, <2>3
  <2>4. CASE ~(x < n) /\ y < n
    BY <1>1, <1>6, <1>7, <1>8, <2>4
  <2> QED
    BY <2>1, <2>2, <2>3, <2>4
<1>9. ASSUME NEW i \in DOMAIN f PROVE \E x \in ReadIds(f) : Orig(f, x) = i
  <2>1. CASE i \in A
    <3> DEFINE x == Rank(A, i)
    <3>1. x \in 0 .. Cardinality(A) - 1 /\ InOrder(A)[x + 1] = i
      BY <1>2, <2>1
    <3> HIDE DEF x
    <3>2. x \in ReadIds(f) /\ x < n
      BY <1>4, <3>1
    <3> QED
      BY <1>6, <3>1, <3>2
  <2>2. CASE i \in B
    <3> DEFINE z == Rank(B, i)
               x == n + z
    <3>1. z \in 0 .. Cardinality(B) - 1 /\ InOrder(B)[z + 1] = i
      BY <1>3, <2>2
    <3> HIDE DEF z
    <3>2. x \in ReadIds(f) /\ ~(x < n) /\ x - n + 1 = z + 1
      BY <1>4, <3>1
    <3> HIDE DEF x
    <3> QED
      BY <1>7, <3>1, <3>2
  <2> QED
    BY <1>1, <2>1, <2>2
<1>10. \A x \in ReadIds(f) : /\ Orig(f, x) \in DOMAIN f
                             /\ x < n => Orig(f, x) \in A /\ Rank(A, Orig(f, x)) = x
                             /\ ~(x < n) => Orig(f, x) \in B
  BY <1>1, <1>6, <1>7
<1> QED
  BY <1>1, <1>4, <1>8, <1>9, <1>10 DEF A, B, n, t

\* What the dump of m holds.
Dump(m, file) ==
  LET f == m.mapInfo IN
  /\ file.nNew = NNew(f) /\ file.nTried = NTried(f)
  /\ Len(file.new) = NNew(f) /\ Len(file.tried) = NTried(f)
  /\ \A x \in ReadIds(f) : IF x < NNew(f) THEN file.new[x + 1] = OnDisk(f[Orig(f, x)])
                           ELSE file.tried[x - NNew(f) + 1] = OnDisk(f[Orig(f, x)])
  /\ DOMAIN file.buckets = NewBuckets
  /\ \A b \in NewBuckets : file.buckets[b] = {x \in ReadIds(f) : Orig(f, x) \in m.vvNew[b]}

\* The list of the entries of S, up to n of them.
Listed(f, S, n) ==
  LET l == SubSeq(InOrder(S), 1, SmallerOf(n, Cardinality(S)))
  IN  [k \in DOMAIN l |-> OnDisk(f[l[k]])]

LEMMA ListFacts ==
  ASSUME NEW f, NEW S, IdSet(S), NEW n, n = Cardinality(S)
  PROVE  Len(Listed(f, S, n)) = n /\ \A k \in 1 .. n : Listed(f, S, n)[k] = OnDisk(f[InOrder(S)[k]])
<1> DEFINE s == InOrder(S)
           l == SubSeq(s, 1, SmallerOf(n, Cardinality(S)))
           d == [k \in DOMAIN l |-> OnDisk(f[l[k]])]
<1>1. s \in Seq(Nat) /\ Len(s) = n /\ n \in Nat
  BY RankFacts
<1>2. SmallerOf(n, Cardinality(S)) = n
  BY <1>1 DEF SmallerOf
<1>3. l = SubSeq(s, 1, n)
  BY <1>2
<1> HIDE DEF s, l
<1>4. DOMAIN l = 1 .. n /\ \A k \in 1 .. n : l[k] = s[k]
  BY <1>1, <1>3
<1>5. DOMAIN d = 1 .. n /\ \A k \in 1 .. n : d[k] = OnDisk(f[s[k]])
  BY <1>4
<1>6. Len(d) = n
  <2> DEFINE V == {d[k] : k \in 1 .. n}
  <2>1. d \in [1 .. n -> V]
    BY <1>5
  <2> HIDE DEF d, V
  <2> QED
    BY <1>1, <2>1
<1>7. d = Listed(f, S, n)
  BY DEF Listed, s, l
<1> HIDE DEF d
<1> QED
  BY <1>5, <1>6, <1>7 DEF s

\* Serialize writes the dump of m.
LEMMA SerializeFacts ==
  ASSUME NEW m, Man(m)
  PROVE  Dump(m, Serialize(m))
<1> DEFINE f == m.mapInfo
           A == NewIds(f)
           B == TriedIds(f)
           n == NNew(f)
           t == NTried(f)
           R == {i \in DOMAIN f : f[i].nRefCount # 0}
           T == {i \in DOMAIN f : f[i].fInTried}
           unkId(i) == IF Rank(R, i) < m.nNew THEN Rank(R, i) ELSE 0
           file == Serialize(m)
<1>1. Infos(f) /\ Below(f, m.nIdCount) /\ InBuckets(f, m.vvNew) /\ Counted(f, m.nTried, m.nNew)
  BY DEF Man, Indexes
<1>2. /\ IdSet(A) /\ IdSet(B) /\ n \in Nat /\ t \in Nat
      /\ \A x \in ReadIds(f) : /\ Orig(f, x) \in DOMAIN f
                               /\ x < n => Orig(f, x) \in A /\ Rank(A, Orig(f, x)) = x
                               /\ ~(x < n) => Orig(f, x) \in B
      /\ n = Cardinality(A) /\ t = Cardinality(B) /\ m.nNew = n /\ m.nTried = t /\ ReadIds(f) = 0 .. n + t - 1
  BY <1>1, OrigFacts DEF NNew, NTried, ReadIds, Counted
<1>3. ASSUME NEW i \in DOMAIN f PROVE f[i].nRefCount # 0 <=> ~f[i].fInTried
  <2>1. In(m.vvNew, i) \in SUBSET NewBuckets
    BY DEF In
  <2>2. IsFiniteSet(In(m.vvNew, i))
    BY <2>1, FS_Subset, AddrManAssumption
  <2>3. Cardinality(In(m.vvNew, i)) = 0 <=> In(m.vvNew, i) = {}
    BY <2>2, FS_EmptySet
  <2>4. f[i].nRefCount = Cardinality(In(m.vvNew, i))
    BY <1>1 DEF InBuckets
  <2>5. f[i].fInTried => In(m.vvNew, i) = {}
    BY <1>1 DEF InBuckets
  <2>6. ~f[i].fInTried => In(m.vvNew, i) # {}
    BY <1>1 DEF InBuckets
  <2> QED
    BY <2>3, <2>4, <2>5, <2>6
<1>4. R = A /\ T = B
  BY <1>3 DEF NewIds, TriedIds
<1>5. file = [nNew |-> m.nNew, nTried |-> m.nTried, new |-> Listed(f, R, m.nNew), tried |-> Listed(f, T, m.nTried),
              buckets |-> [b \in NewBuckets |-> {unkId(i) : i \in m.vvNew[b]}]]
  BY DEF Serialize, Listed
<1>6. /\ file.nNew = n /\ file.nTried = t /\ file.new = Listed(f, A, n) /\ file.tried = Listed(f, B, t)
      /\ file.buckets = [b \in NewBuckets |-> {unkId(i) : i \in m.vvNew[b]}]
  <2> HIDE DEF file, A, B, n, t, R, T, unkId, f
  <2> QED
    BY <1>2, <1>4, <1>5
<1>7. ASSUME NEW i \in A PROVE unkId(i) = Rank(A, i) /\ Rank(A, i) \in ReadIds(f) /\ Orig(f, Rank(A, i)) = i
  <2>1. Rank(A, i) \in 0 .. n - 1 /\ InOrder(A)[Rank(A, i) + 1] = i
    BY <1>2, RankFacts
  <2>2. Rank(A, i) < n /\ Rank(A, i) \in ReadIds(f)
    <3> HIDE DEF A, n, t
    <3> QED
      BY <1>2, <2>1
  <2>3. Orig(f, Rank(A, i)) = i
    <3>1. Orig(f, Rank(A, i)) = InOrder(A)[Rank(A, i) + 1]
      BY <2>2, Zenon DEF Orig
    <3> QED
      BY <2>1, <3>1, Zenon
  <2>4. unkId(i) = Rank(A, i)
    <3> HIDE DEF A, R, n
    <3> QED
      BY <1>2, <1>4, <2>2
  <2> QED
    BY <2>2, <2>3, <2>4, Zenon
<1>8. ASSUME NEW b \in NewBuckets PROVE file.buckets[b] = {x \in ReadIds(f) : Orig(f, x) \in m.vvNew[b]}
  <2>1. ASSUME NEW i \in m.vvNew[b] PROVE i \in A
    <3>1. i \in DOMAIN f
      BY <1>1 DEF InBuckets
    <3>2. b \in In(m.vvNew, i)
      BY DEF In
    <3>3. ~f[i].fInTried
      BY <1>1, <3>1, <3>2 DEF InBuckets
    <3> QED
      BY <3>1, <3>3 DEF NewIds
  <2>2. file.buckets[b] = {unkId(i) : i \in m.vvNew[b]}
    <3> HIDE DEF file, unkId
    <3> QED
      BY <1>6
  <2>3. A \cap B = {}
    BY DEF NewIds, TriedIds
  <2> HIDE DEF A, B, unkId, n, t, file
  <2>4. ASSUME NEW x \in file.buckets[b] PROVE x \in ReadIds(f) /\ Orig(f, x) \in m.vvNew[b]
    <3>1. PICK i \in m.vvNew[b] : x = unkId(i)
      BY <2>2
    <3> QED
      BY <1>7, <2>1, <3>1
  <2>5. ASSUME NEW x \in ReadIds(f), Orig(f, x) \in m.vvNew[b] PROVE x \in file.buckets[b]
    <3>1. Orig(f, x) \in A
      BY <2>1, <2>5
    <3>2. x < n
      BY <1>2, <2>3, <3>1
    <3>3. Rank(A, Orig(f, x)) = x
      BY <1>2, <3>2
    <3>4. unkId(Orig(f, x)) = x
      BY <1>7, <3>1, <3>3, Zenon
    <3> QED
      BY <2>2, <2>5, <3>4
  <2> QED
    BY <2>4, <2>5
<1>9. /\ Len(file.new) = n /\ \A k \in 1 .. n : file.new[k] = OnDisk(f[InOrder(A)[k]])
      /\ Len(file.tried) = t /\ \A k \in 1 .. t : file.tried[k] = OnDisk(f[InOrder(B)[k]])
  <2> HIDE DEF A, B, n, t, f, file
  <2>1. Len(Listed(f, A, n)) = n /\ \A k \in 1 .. n : Listed(f, A, n)[k] = OnDisk(f[InOrder(A)[k]])
    BY <1>2, ListFacts
  <2>2. Len(Listed(f, B, t)) = t /\ \A k \in 1 .. t : Listed(f, B, t)[k] = OnDisk(f[InOrder(B)[k]])
    BY <1>2, ListFacts
  <2> QED
    BY <1>6, <2>1, <2>2, Zenon
<1>10. ASSUME NEW x \in ReadIds(f)
       PROVE  IF x < n THEN file.new[x + 1] = OnDisk(f[Orig(f, x)]) ELSE file.tried[x - n + 1] = OnDisk(f[Orig(f, x)])
  <2>0. Orig(f, x) = IF x < n THEN InOrder(A)[x + 1] ELSE InOrder(B)[x - n + 1]
    BY DEF Orig
  <2> HIDE DEF A, B, n, t, f, file
  <2>1. CASE x < n
    <3>1. x + 1 \in 1 .. n
      BY <1>2, <2>1
    <3>2. file.new[x + 1] = OnDisk(f[InOrder(A)[x + 1]])
      BY <1>9, <3>1
    <3> QED
      BY <2>0, <2>1, <3>2, Zenon
  <2>2. CASE ~(x < n)
    <3>1. x - n + 1 \in 1 .. t
      BY <1>2, <2>2
    <3>2. file.tried[x - n + 1] = OnDisk(f[InOrder(B)[x - n + 1]])
      BY <1>9, <3>1
    <3> QED
      BY <2>0, <2>2, <3>2, Zenon
  <2> QED
    BY <2>1, <2>2
<1>11. DOMAIN file.buckets = NewBuckets
  <2> HIDE DEF file, unkId
  <2> QED
    BY <1>6
<1> HIDE DEF file
<1> QED
  BY <1>6, <1>8, <1>9, <1>10, <1>11 DEF Dump, file

\* The table s holds the first NNew + k ids of the dump of m, with what the dump says of them.
Part(m, s, k) ==
  LET f == m.mapInfo
      n == NNew(f)
  IN  /\ Rec(s) /\ s.nIdCount = n + k /\ s.nNew = n /\ s.nTried = NTried(f)
      /\ DOMAIN s.mapInfo = 0 .. n + k - 1
      /\ Infos(s.mapInfo) /\ Shuffled(s.mapInfo, s.vRandom) /\ Addressed(s.mapInfo, s.mapAddr)
      /\ InTried(s.mapInfo, s.vvTried) /\ \A b \in TriedBuckets : Len(s.vvTried[b]) <= TriedBucketSize
      /\ \A x \in DOMAIN s.mapInfo :
           /\ OnDisk(s.mapInfo[x]) = OnDisk(f[Orig(f, x)])
           /\ s.mapInfo[x].fInTried <=> ~(x < n)

\* What is written of an entry is three of its fields.
LEMMA DiskFields ==
  ASSUME NEW d, NEW e
  PROVE  /\ OnDisk(d).addr = d.addr /\ OnDisk(d).source = d.source /\ OnDisk(d).nLastSuccess = d.nLastSuccess
         /\ OnDisk(d) = OnDisk(e) <=> d.addr = e.addr /\ d.source = e.source /\ d.nLastSuccess = e.nLastSuccess
  BY DEF OnDisk

\* Two ids of a dump have two network addresses.
LEMMA OrigDistinct ==
  ASSUME NEW m, Man(m), NEW x \in ReadIds(m.mapInfo), NEW y \in ReadIds(m.mapInfo),
         NetAddr[m.mapInfo[Orig(m.mapInfo, x)].addr] = NetAddr[m.mapInfo[Orig(m.mapInfo, y)].addr]
  PROVE  x = y
<1> DEFINE f == m.mapInfo
           i == Orig(f, x)
           j == Orig(f, y)
<1>1. Infos(f) /\ Below(f, m.nIdCount) /\ Addressed(f, m.mapAddr)
  BY DEF Man, Indexes
<1>2. i \in DOMAIN f /\ j \in DOMAIN f /\ (i = j => x = y)
  BY <1>1, OrigFacts
<1>3. NetAddr[f[i].addr] = NetAddr[f[j].addr]
  OBVIOUS
<1> HIDE DEF f, i, j
<1> QED
  BY <1>1, <1>2, <1>3 DEF Addressed

\* An entry that is read back.
LEMMA RestoredFields ==
  ASSUME NEW e \in CAddrInfos, NEW pos \in Nat
  PROVE  LET r == Restored(OnDisk(e), pos) IN
         /\ r \in CAddrInfos /\ r.addr = e.addr /\ r.source = e.source /\ r.nLastSuccess = e.nLastSuccess
         /\ ~r.fInTried /\ r.nRandomPos = pos
<1> DEFINE c == CAddrInfo(e.addr, e.source)
           d == OnDisk(e)
           h == [c EXCEPT !.nLastSuccess = e.nLastSuccess]
           r == [h EXCEPT !.nRandomPos = pos]
<1>1. e.addr \in Services /\ e.source \in Sources /\ e.nLastSuccess \in 0 .. MaxTime /\ 0 \in 0 .. MaxTime
  BY AddrManAssumption DEF CAddrInfos
<1>2. c \in CAddrInfos /\ c.addr = e.addr /\ c.source = e.source /\ ~c.fInTried
  BY <1>1 DEF CAddrInfo, CAddrInfos
<1> HIDE DEF c
<1>3. /\ h \in CAddrInfos /\ h.addr = e.addr /\ h.source = e.source /\ ~h.fInTried
      /\ h.nLastSuccess = e.nLastSuccess
  BY <1>1, <1>2 DEF CAddrInfos
<1>4. Restored(d, pos) = r
  <2>1. d.addr = e.addr /\ d.source = e.source /\ d.nLastSuccess = e.nLastSuccess
    BY DEF OnDisk
  <2> HIDE DEF d
  <2>2. Restored(d, pos) = [[CAddrInfo(d.addr, d.source) EXCEPT !.nLastSuccess = d.nLastSuccess] EXCEPT !.nRandomPos = pos]
    BY DEF Restored
  <2> QED
    BY <2>1, <2>2, Zenon DEF c
<1> HIDE DEF h, d
<1>5. r \in CAddrInfos /\ r.addr = e.addr /\ r.source = e.source /\ r.nLastSuccess = e.nLastSuccess
      /\ ~r.fInTried /\ r.nRandomPos = pos
  BY <1>3 DEF CAddrInfos
<1> HIDE DEF r
<1> QED
  BY <1>4, <1>5 DEF d

\* The new entries are read.
LEMMA LoadNewFacts ==
  ASSUME NEW m, Man(m), NEW file, Dump(m, file)
  PROVE  Part(m, LoadNew(file), 0)
<1> DEFINE f == m.mapInfo
           n == Len(file.new)
           s == LoadNew(file)
           I == 0 .. n - 1
           F == [i \in I |-> Restored(file.new[i + 1], i + 1)]
           net(i) == NetAddr[file.new[i + 1].addr]
           N == {net(i) : i \in I}
           M == [a \in N |-> CHOOSE i \in I : net(i) = a]
           V == [p \in 1 .. n |-> p - 1]
           T == [b \in TriedBuckets |-> <<>>]
<1>1. Infos(f) /\ Below(f, m.nIdCount)
  BY DEF Man, Indexes
<1>2. n = NNew(f) /\ file.nNew = n /\ file.nTried = NTried(f)
      /\ \A x \in ReadIds(f) : x < n => file.new[x + 1] = OnDisk(f[Orig(f, x)])
  BY DEF Dump
<1>3. /\ n \in Nat /\ NTried(f) \in Nat /\ ReadIds(f) = 0 .. n + NTried(f) - 1
      /\ \A x \in ReadIds(f) : Orig(f, x) \in DOMAIN f
  BY <1>1, <1>2, OrigFacts DEF ReadIds
<1>4. Rec(CAddrMan) /\ CAddrMan.vvTried = T
  BY DEF CAddrMan, Rec
<1>5. /\ Rec(s) /\ s.nIdCount = n /\ s.nNew = n /\ s.nTried = NTried(f) /\ s.mapInfo = F /\ s.mapAddr = M
      /\ s.vRandom = V /\ s.vvTried = T
  <2> DEFINE C == CAddrMan
  <2>1. Rec(C) /\ C.vvTried = T
    BY <1>4
  <2>2. s = [C EXCEPT !.nIdCount = n, !.nNew = file.nNew, !.nTried = file.nTried,
        !.mapInfo = F, !.mapAddr = M, !.vRandom = V]
    BY DEF LoadNew
  <2> HIDE DEF C, s, n, F, M, V, T
  <2> QED
    BY <1>2, <2>1, <2>2 DEF Rec
<1> HIDE DEF s, n
<1>6. ASSUME NEW i \in I
      PROVE  /\ i \in Nat /\ i \in ReadIds(f) /\ i < n /\ file.new[i + 1] = OnDisk(f[Orig(f, i)])
             /\ f[Orig(f, i)] \in CAddrInfos /\ net(i) = NetAddr[f[Orig(f, i)].addr]
  <2>1. i \in ReadIds(f) /\ i < n /\ i \in Nat
    BY <1>3
  <2>2. file.new[i + 1] = OnDisk(f[Orig(f, i)]) /\ f[Orig(f, i)] \in CAddrInfos
    BY <1>1, <1>3, <1>2, <2>1 DEF Infos
  <2>3. net(i) = NetAddr[f[Orig(f, i)].addr]
    BY <2>2, DiskFields
  <2> QED
    BY <2>1, <2>2, <2>3
<1>7. ASSUME NEW i \in I
      PROVE  /\ F[i] \in CAddrInfos /\ F[i].addr = f[Orig(f, i)].addr /\ F[i].nRandomPos = i + 1 /\ ~F[i].fInTried
             /\ OnDisk(F[i]) = OnDisk(f[Orig(f, i)])
  <2> DEFINE e == f[Orig(f, i)]
             r == Restored(OnDisk(e), i + 1)
  <2>1. e \in CAddrInfos /\ i + 1 \in Nat
    BY <1>6
  <2>2. F[i] = r
    BY <1>6
  <2> HIDE DEF e, F
  <2>3. /\ r \in CAddrInfos /\ r.addr = e.addr /\ r.source = e.source /\ r.nLastSuccess = e.nLastSuccess
        /\ ~r.fInTried /\ r.nRandomPos = i + 1
    BY <2>1, RestoredFields
  <2> HIDE DEF r
  <2> QED
    BY <2>2, <2>3, DiskFields DEF e
<1>8. DOMAIN F = I /\ DOMAIN M = N /\ DOMAIN T = TriedBuckets /\ \A b \in TriedBuckets : T[b] = <<>>
  OBVIOUS
<1>9. Infos(F)
  BY <1>6, <1>7, <1>8 DEF Infos
<1>10. Shuffled(F, V)
  <2>1. V \in Seq(Nat) /\ Len(V) = n /\ \A p \in 1 .. n : V[p] = p - 1
    BY <1>3
  <2> HIDE DEF V, F
  <2>2. ASSUME NEW p \in 1 .. n PROVE V[p] \in DOMAIN F /\ F[V[p]].nRandomPos = p
    <3>1. p - 1 \in I /\ (p - 1) + 1 = p /\ V[p] = p - 1
      BY <1>3, <2>1
    <3>2. F[p - 1].nRandomPos = (p - 1) + 1
      BY <1>7, <3>1
    <3> QED
      BY <1>8, <3>1, <3>2
  <2>3. ASSUME NEW i \in I PROVE F[i].nRandomPos \in 1 .. n /\ V[F[i].nRandomPos] = i
    <3>1. F[i].nRandomPos = i + 1 /\ i + 1 \in 1 .. n
      BY <1>3, <1>7
    <3> QED
      BY <2>1, <3>1
  <2> QED
    BY <1>8, <2>1, <2>2, <2>3 DEF Shuffled
<1>11. Addressed(F, M)
  <2>1. ASSUME NEW i \in I PROVE NetAddr[F[i].addr] = net(i) /\ net(i) \in N /\ net(i) \in Nets
    <3>1. NetAddr[F[i].addr] = net(i)
      BY <1>6, <1>7
    <3>2. F[i].addr \in Services
      BY <1>7 DEF CAddrInfos
    <3> QED
      BY <3>1, <3>2 DEF Nets
  <2>2. ASSUME NEW i \in I, NEW j \in I, net(i) = net(j) PROVE i = j
    BY <1>6, <2>2, OrigDistinct
  <2>3. ASSUME NEW a \in N PROVE M[a] \in I /\ net(M[a]) = a
    <3>1. \E i \in I : net(i) = a
      BY <2>3
    <3>2. M[a] = CHOOSE i \in I : net(i) = a
      BY <2>3
    <3> HIDE DEF I, net, M
    <3> QED
      BY <3>1, <3>2, Zenon
  <2>4. ASSUME NEW i \in I PROVE M[net(i)] = i
    <3>1. net(i) \in N
      OBVIOUS
    <3>2. M[net(i)] \in I /\ net(M[net(i)]) = net(i)
      BY <2>3, <3>1
    <3> HIDE DEF I, net, M, N
    <3> QED
      BY <2>2, <3>2
  <2>5. N \subseteq Nets
    BY <2>1
  <2> HIDE DEF I, net, M, N, F
  <2> QED
    BY <1>8, <2>1, <2>3, <2>4, <2>5 DEF Addressed
<1>12. InTried(F, T) /\ \A b \in TriedBuckets : Len(T[b]) <= TriedBucketSize
  <2>1. TriedIds(F) = {}
    BY <1>7, <1>8 DEF TriedIds
  <2>2. T \in [TriedBuckets -> Seq(Nat)]
    OBVIOUS
  <2>3. \A b \in TriedBuckets : Len(T[b]) = 0
    OBVIOUS
  <2>4. TriedBucketSize \in Nat
    BY AddrManAssumption
  <2> HIDE DEF T, F
  <2> QED
    BY <2>1, <2>2, <2>3, <2>4 DEF InTried
<1>13. n + 0 = n
  BY <1>3
<1> HIDE DEF F, M, V, T
<1>14. ASSUME NEW x \in DOMAIN F PROVE OnDisk(F[x]) = OnDisk(f[Orig(f, x)]) /\ (F[x].fInTried <=> ~(x < n))
  BY <1>6, <1>7, <1>8
<1>15. DOMAIN F = 0 .. (n + 0) - 1
  BY <1>8, <1>13
<1>16. Part(m, s, 0)
  BY <1>2, <1>3, <1>5, <1>9, <1>10, <1>11, <1>12, <1>13, <1>14, <1>15 DEF Part
<1> QED
  BY <1>16 DEF s

\* The tried bucket of the next entry has room: the dump holds one entry more of that bucket.
LEMMA TriedRoom ==
  ASSUME NEW m, Man(m), Bounded(m.vvNew, m.vvTried), NEW s, NEW k \in Nat, Part(m, s, k), k < NTried(m.mapInfo),
         NEW kb \in TriedBuckets, kb = TriedBucketOf[m.mapInfo[Orig(m.mapInfo, NNew(m.mapInfo) + k)].addr]
  PROVE  Len(s.vvTried[kb]) < TriedBucketSize
<1> DEFINE f == m.mapInfo
           n == NNew(f)
           t == s.vvTried[kb]
           u == m.vvTried[kb]
           L == Len(t)
           id(p) == IF p = L + 1 THEN n + k ELSE t[p]
           place(x) == CHOOSE q \in 1 .. Len(u) : u[q] = Orig(f, x)
           g == [p \in 1 .. L + 1 |-> place(id(p))]
<1>1. Infos(f) /\ Below(f, m.nIdCount) /\ InTried(f, m.vvTried)
  BY DEF Man, Indexes
<1>2. /\ n \in Nat /\ NTried(f) \in Nat /\ ReadIds(f) = 0 .. n + NTried(f) - 1
      /\ \A x \in ReadIds(f) : Orig(f, x) \in DOMAIN f /\ (~(x < n) => Orig(f, x) \in TriedIds(f))
      /\ \A x, y \in ReadIds(f) : Orig(f, x) = Orig(f, y) => x = y
  BY <1>1, OrigFacts DEF ReadIds
<1>3. /\ DOMAIN s.mapInfo = 0 .. n + k - 1 /\ InTried(s.mapInfo, s.vvTried)
      /\ \A x \in DOMAIN s.mapInfo : /\ OnDisk(s.mapInfo[x]) = OnDisk(f[Orig(f, x)])
                                     /\ s.mapInfo[x].fInTried <=> ~(x < n)
  BY DEF Part
<1>4. t \in Seq(Nat) /\ u \in Seq(Nat) /\ L \in Nat /\ Len(u) \in Nat /\ Len(u) <= TriedBucketSize
      /\ k < NTried(f) /\ kb = TriedBucketOf[f[Orig(f, n + k)].addr]
  <2>1. s.vvTried \in [TriedBuckets -> Seq(Nat)] /\ m.vvTried \in [TriedBuckets -> Seq(Nat)]
    BY <1>1, <1>3, Zenon DEF InTried
  <2>2. \A b \in TriedBuckets : Len(m.vvTried[b]) <= TriedBucketSize
    BY Zenon DEF Bounded
  <2>3. k < NTried(f) /\ kb = TriedBucketOf[f[Orig(f, n + k)].addr] /\ kb \in TriedBuckets
    BY Zenon
  <2>4. t \in Seq(Nat) /\ u \in Seq(Nat) /\ Len(u) <= TriedBucketSize
    <3> HIDE DEF f, n
    <3> QED
      BY <2>1, <2>2, <2>3
  <2> HIDE DEF t, u, f, n
  <2> QED
    BY <2>3, <2>4
<1> HIDE DEF f, n, t, u, L
<1>5. ASSUME NEW p \in 1 .. L
      PROVE  /\ t[p] \in 0 .. n + k - 1 /\ t[p] \in ReadIds(f) /\ ~(t[p] < n)
             /\ TriedBucketOf[f[Orig(f, t[p])].addr] = kb
             /\ \A q \in 1 .. L : t[p] = t[q] => p = q
  <2>1. /\ t[p] \in TriedIds(s.mapInfo) /\ TriedBucketOf[s.mapInfo[t[p]].addr] = kb
        /\ \A q \in 1 .. L : t[p] = t[q] => p = q
    <3>1. \A b \in TriedBuckets : \A i \in 1 .. Len(s.vvTried[b]) :
            /\ s.vvTried[b][i] \in TriedIds(s.mapInfo) /\ TriedBucketOf[s.mapInfo[s.vvTried[b][i]].addr] = b
            /\ \A j \in 1 .. Len(s.vvTried[b]) : s.vvTried[b][i] = s.vvTried[b][j] => i = j
      BY <1>3 DEF InTried
    <3> QED
      BY <3>1, Zenon DEF t, L
  <2>2. t[p] \in DOMAIN s.mapInfo /\ s.mapInfo[t[p]].fInTried
    BY <2>1 DEF TriedIds
  <2>3. s.mapInfo[t[p]].addr = f[Orig(f, t[p])].addr /\ ~(t[p] < n)
    BY <1>3, <2>2, DiskFields
  <2>4. t[p] \in ReadIds(f)
    BY <1>2, <1>3, <1>4, <2>2
  <2> QED
    BY <1>3, <2>1, <2>2, <2>3, <2>4
<1>6. n + k \in ReadIds(f) /\ ~(n + k < n)
  BY <1>2, <1>4
<1>7. ASSUME NEW p \in 1 .. L + 1
      PROVE  id(p) \in ReadIds(f) /\ ~(id(p) < n) /\ TriedBucketOf[f[Orig(f, id(p))].addr] = kb
  <2>1. CASE p = L + 1
    BY <1>4, <1>6, <2>1
  <2>2. CASE p # L + 1
    <3>1. p \in 1 .. L /\ id(p) = t[p]
      BY <1>4, <2>2
    <3> QED
      BY <1>5, <3>1
  <2> QED
    BY <2>1, <2>2
<1>8. ASSUME NEW p \in 1 .. L + 1, NEW q \in 1 .. L + 1, id(p) = id(q) PROVE p = q
  <2>1. CASE p # L + 1 /\ q # L + 1
    <3>1. p \in 1 .. L /\ q \in 1 .. L /\ t[p] = t[q]
      BY <1>4, <1>8, <2>1
    <3> QED
      BY <1>5, <3>1
  <2>2. CASE p = L + 1 /\ q # L + 1
    <3>1. q \in 1 .. L /\ t[q] = n + k
      BY <1>4, <1>8, <2>2
    <3>2. t[q] \in 0 .. n + k - 1
      BY <1>5, <3>1
    <3> QED
      BY <1>2, <3>1, <3>2
  <2>3. CASE p # L + 1 /\ q = L + 1
    <3>1. p \in 1 .. L /\ t[p] = n + k
      BY <1>4, <1>8, <2>3
    <3>2. t[p] \in 0 .. n + k - 1
      BY <1>5, <3>1
    <3> QED
      BY <1>2, <3>1, <3>2
  <2> QED
    BY <2>1, <2>2, <2>3
<1> HIDE DEF id
<1>9. ASSUME NEW p \in 1 .. L + 1 PROVE g[p] \in 1 .. Len(u) /\ u[g[p]] = Orig(f, id(p))
  <2> DEFINE x == id(p)
  <2>1. Orig(f, x) \in TriedIds(f) /\ TriedBucketOf[f[Orig(f, x)].addr] = kb
    BY <1>2, <1>7
  <2>2. \E q \in 1 .. Len(u) : u[q] = Orig(f, x)
    BY <1>1, <2>1 DEF InTried, u
  <2>3. g[p] = CHOOSE q \in 1 .. Len(u) : u[q] = Orig(f, x)
    OBVIOUS
  <2> HIDE DEF g, x
  <2>4. g[p] \in 1 .. Len(u) /\ u[g[p]] = Orig(f, x)
    BY <2>2, <2>3, Zenon
  <2> QED
    BY <2>4 DEF x
<1>10. g \in Injection(1 .. L + 1, 1 .. Len(u))
  <2>1. g \in [1 .. L + 1 -> 1 .. Len(u)]
    <3>1. g = [p \in 1 .. L + 1 |-> g[p]]
      OBVIOUS
    <3> HIDE DEF g
    <3> QED
      BY <1>9, <3>1
  <2> HIDE DEF g
  <2>2. ASSUME NEW p \in 1 .. L + 1, NEW q \in 1 .. L + 1, g[p] = g[q] PROVE p = q
    <3>1. Orig(f, id(p)) = Orig(f, id(q))
      BY <1>9, <2>2
    <3>2. id(p) = id(q)
      BY <1>2, <1>7, <3>1
    <3> QED
      BY <1>8, <3>2
  <2> QED
    BY <2>1, <2>2, Zenon DEF Injection, IsInjective
<1> HIDE DEF g
<1>11. Cardinality(1 .. L + 1) <= Cardinality(1 .. Len(u))
  <2>1. IsFiniteSet(1 .. Len(u))
    BY <1>4, FS_Interval
  <2> QED
    BY <1>10, <2>1, FS_Injection
<1>12. Cardinality(1 .. L + 1) = L + 1 /\ Cardinality(1 .. Len(u)) = Len(u)
  <2>1. 1 \in Int /\ L + 1 \in Int /\ Len(u) \in Int
    BY <1>4
  <2>2. Cardinality(1 .. L + 1) = IF 1 > L + 1 THEN 0 ELSE (L + 1) - 1 + 1
    BY <2>1, FS_Interval
  <2>3. Cardinality(1 .. Len(u)) = IF 1 > Len(u) THEN 0 ELSE Len(u) - 1 + 1
    BY <2>1, FS_Interval
  <2> QED
    BY <1>4, <2>2, <2>3
<1>13. TriedBucketSize \in Nat
  BY AddrManAssumption
<1>14. L < TriedBucketSize
  BY <1>4, <1>11, <1>12, <1>13
<1> QED
  BY <1>14 DEF L, t

\* A tried entry is read.
LEMMA LoadTriedFacts ==
  ASSUME NEW m, Man(m), Bounded(m.vvNew, m.vvTried), NEW file, Dump(m, file),
         NEW s, NEW k \in Nat, Part(m, s, k), k < NTried(m.mapInfo)
  PROVE  Part(m, LoadTried(s, file.tried[k + 1]), k + 1)
<1> DEFINE f == m.mapInfo
           n == NNew(f)
           K == n + k
           e == f[Orig(f, K)]
           d == file.tried[k + 1]
           kb == TriedBucketOf[d.addr]
           T == s.vvTried
           F0 == s.mapInfo
           made == Create(s, d.addr, d.source)
           F == made.mapInfo
           H == [F EXCEPT ![K].nLastSuccess = d.nLastSuccess]
           G == [H EXCEPT ![K].fInTried = TRUE]
           U == [T EXCEPT ![kb] = Append(T[kb], K)]
           r == LoadTried(s, d)
<1>1. Infos(f) /\ Below(f, m.nIdCount) /\ InTried(f, m.vvTried)
  BY DEF Man, Indexes
<1>2. /\ n \in Nat /\ NTried(f) \in Nat /\ ReadIds(f) = 0 .. n + NTried(f) - 1
      /\ \A x \in ReadIds(f) : Orig(f, x) \in DOMAIN f /\ (~(x < n) => Orig(f, x) \in TriedIds(f))
  BY <1>1, OrigFacts DEF ReadIds
<1>3. K \in ReadIds(f) /\ K \in Nat /\ ~(K < n) /\ K - n + 1 = k + 1
  <2> HIDE DEF n
  <2> QED
    BY <1>2
<1>4. d = OnDisk(e) /\ e \in CAddrInfos /\ e.nLastSuccess # 0
  <2>1. file.tried[K - n + 1] = OnDisk(e)
    BY <1>3 DEF Dump
  <2>2. Orig(f, K) \in DOMAIN f /\ Orig(f, K) \in TriedIds(f)
    BY <1>2, <1>3
  <2> HIDE DEF n, K
  <2> QED
    BY <1>1, <1>3, <2>1, <2>2 DEF Infos, InTried
<1>5. d.addr = e.addr /\ d.source = e.source /\ d.nLastSuccess = e.nLastSuccess
      /\ e.addr \in Services /\ e.source \in Sources /\ e.nLastSuccess \in 0 .. MaxTime /\ kb \in TriedBuckets
  <2> HIDE DEF d, e
  <2> QED
    BY <1>4, DiskFields, AddrManAssumption DEF CAddrInfos
<1>6. /\ Rec(s) /\ s.nIdCount = K /\ s.nNew = n /\ s.nTried = NTried(f) /\ DOMAIN F0 = 0 .. n + k - 1
      /\ Infos(F0) /\ Shuffled(F0, s.vRandom) /\ Addressed(F0, s.mapAddr) /\ InTried(F0, T)
      /\ \A x \in DOMAIN F0 : OnDisk(F0[x]) = OnDisk(f[Orig(f, x)]) /\ (F0[x].fInTried <=> ~(x < n))
  BY DEF Part
<1>7. Below(F0, K)
  <2> HIDE DEF n, F0
  <2> QED
    BY <1>2, <1>6 DEF Below
<1>8. Len(T[kb]) < TriedBucketSize
  <2>1. kb = TriedBucketOf[e.addr]
    BY <1>5
  <2> HIDE DEF kb
  <2>2. kb \in TriedBuckets
    BY <1>5
  <2> QED
    BY <2>1, <2>2, TriedRoom
<1>9. ~Known(s, d.addr)
  <2> SUFFICES ASSUME Known(s, d.addr) PROVE FALSE
    OBVIOUS
  <2> DEFINE x == s.mapAddr[NetAddr[d.addr]]
  <2>1. x \in DOMAIN F0 /\ NetAddr[F0[x].addr] = NetAddr[d.addr]
    BY <1>6 DEF Known, Addressed
  <2> HIDE DEF x, d, F0, n
  <2>2. F0[x].addr = f[Orig(f, x)].addr
    BY <1>6, <2>1, DiskFields
  <2>3. x \in ReadIds(f) /\ x # K
    BY <1>2, <1>6, <2>1
  <2>4. NetAddr[f[Orig(f, x)].addr] = NetAddr[f[Orig(f, K)].addr]
    BY <1>5, <2>1, <2>2
  <2> QED
    BY <1>3, <2>3, <2>4, OrigDistinct
<1> HIDE DEF made, F0, d, e, K
<1>10. /\ Rec(made) /\ DOMAIN F = DOMAIN F0 \cup {K} /\ K \notin DOMAIN F0
       /\ F[K] = NewInfo(d.addr, d.source, Len(s.vRandom) + 1)
       /\ \A i \in DOMAIN F0 : F[i] = F0[i]
       /\ made.nIdCount = K + 1 /\ Infos(F) /\ Below(F, K + 1)
       /\ Shuffled(F, made.vRandom) /\ Addressed(F, made.mapAddr)
       /\ made.nTried = s.nTried /\ made.nNew = s.nNew /\ made.vvTried = T
  <2>1. d.addr \in Services /\ d.source \in Sources
    BY <1>5
  <2>2. Infos(s.mapInfo) /\ Below(s.mapInfo, s.nIdCount) /\ Shuffled(s.mapInfo, s.vRandom)
        /\ Addressed(s.mapInfo, s.mapAddr) /\ s.nIdCount = K
    BY <1>6, <1>7 DEF F0
  <2> QED
    <3>1. PICK svc \in Services, source \in Sources : svc = d.addr /\ source = d.source
      BY <2>1
    <3>2. ~Known(s, svc) /\ made = Create(s, svc, source)
      BY <1>9, <3>1 DEF made
    <3>3. /\ Rec(made) /\ DOMAIN F = DOMAIN s.mapInfo \cup {s.nIdCount} /\ s.nIdCount \notin DOMAIN s.mapInfo
          /\ F[s.nIdCount] = NewInfo(svc, source, Len(s.vRandom) + 1)
          /\ \A i \in DOMAIN s.mapInfo : F[i] = s.mapInfo[i]
          /\ made.nIdCount = s.nIdCount + 1 /\ Infos(F) /\ Below(F, s.nIdCount + 1)
          /\ Shuffled(F, made.vRandom) /\ Addressed(F, made.mapAddr)
          /\ made.nTried = s.nTried /\ made.nNew = s.nNew /\ made.vvTried = s.vvTried
      BY <1>6, <2>2, <3>2, CreateFacts
    <3> QED
      BY <1>6, <3>1, <3>3 DEF F0
<1>11. F[K] \in CAddrInfos /\ F[K].addr = e.addr /\ F[K].source = e.source
  <2>1. Len(s.vRandom) + 1 \in Nat
    BY <1>6 DEF Shuffled
  <2>2. PICK p \in Nat : p = Len(s.vRandom) + 1
    BY <2>1
  <2>3. F[K] = NewInfo(e.addr, e.source, p)
    BY <1>5, <1>10, <2>2
  <2> HIDE DEF F
  <2> QED
    BY <1>5, <2>3, InfoFields
<1>12. r = [made EXCEPT !.mapInfo[s.nIdCount].nLastSuccess = d.nLastSuccess,
                        !.mapInfo[s.nIdCount].fInTried = TRUE,
                        !.vvTried[kb] = Append(@, s.nIdCount)]
  BY <1>8, Zenon DEF LoadTried, made
<1>13. /\ Rec(r) /\ r.nIdCount = K + 1 /\ r.nNew = n /\ r.nTried = NTried(f) /\ r.mapInfo = G
       /\ r.vRandom = made.vRandom /\ r.mapAddr = made.mapAddr /\ r.vvTried = U
  <2> HIDE DEF r, f, n
  <2> QED
    BY <1>6, <1>10, <1>12 DEF Rec
<1>14. /\ DOMAIN G = DOMAIN F /\ \A i \in DOMAIN F0 : G[i] = F[i]
       /\ G[K] = [[F[K] EXCEPT !.nLastSuccess = e.nLastSuccess] EXCEPT !.fInTried = TRUE]
  <2> HIDE DEF F
  <2> QED
    BY <1>5, <1>10
<1> HIDE DEF F, H, G, U, r, T
<1>15. /\ G[K] \in CAddrInfos /\ G[K].addr = F[K].addr /\ G[K].nRandomPos = F[K].nRandomPos
       /\ OnDisk(G[K]) = OnDisk(e) /\ G[K].fInTried /\ G[K].nLastSuccess # 0
  <2> DEFINE g == F[K]
             h == [g EXCEPT !.nLastSuccess = e.nLastSuccess]
  <2>1. h \in CAddrInfos /\ h.addr = g.addr /\ h.source = g.source /\ h.nRandomPos = g.nRandomPos /\ h.nLastSuccess = e.nLastSuccess
    BY <1>5, <1>11 DEF CAddrInfos
  <2>2. G[K] = [h EXCEPT !.fInTried = TRUE]
    BY <1>14
  <2> HIDE DEF h, g
  <2>3. /\ G[K] \in CAddrInfos /\ G[K].addr = h.addr /\ G[K].source = h.source /\ G[K].nRandomPos = h.nRandomPos
        /\ G[K].nLastSuccess = h.nLastSuccess /\ G[K].fInTried
    BY <2>1, <2>2 DEF CAddrInfos
  <2>4. g.addr = e.addr /\ g.source = e.source
    BY <1>11 DEF g
  <2>5. OnDisk(G[K]) = OnDisk(e)
    BY <2>1, <2>3, <2>4, DiskFields
  <2> QED
    BY <1>4, <2>1, <2>3, <2>5 DEF g
<1>16. Infos(G) /\ Shuffled(G, made.vRandom) /\ Addressed(G, made.mapAddr)
  <2>1. Relabels(F, G)
    BY <1>10, <1>14, <1>15 DEF Relabels, Infos
  <2> QED
    BY <1>10, <2>1, Relabel
<1>17. InTried(G, U)
  <2>1. TriedIds(G) = TriedIds(F0) \cup {K} /\ K \notin TriedIds(F0)
    <3>1. DOMAIN G = DOMAIN F0 \cup {K} /\ K \notin DOMAIN F0 /\ G[K].fInTried
      BY <1>10, <1>14, <1>15
    <3>2. \A i \in DOMAIN F0 : G[i] = F0[i]
      BY <1>10, <1>14
    <3> QED
      BY <3>1, <3>2 DEF TriedIds
  <2>2. \A i \in TriedIds(F0) : G[i] = F0[i]
    BY <1>10, <1>14 DEF TriedIds
  <2>3. kb = TriedBucketOf[G[K].addr] /\ kb \in TriedBuckets
    BY <1>5, <1>11, <1>15
  <2> HIDE DEF kb
  <2>4. InTried(G, [T EXCEPT ![kb] = Append(T[kb], K)])
    <3>1. Infos(F0) /\ InTried(F0, T) /\ K \in Nat /\ G[K].nLastSuccess # 0
      BY <1>3, <1>6, <1>15
    <3> QED
      BY <2>1, <2>2, <2>3, <3>1, TriedMore
  <2> QED
    BY <2>4 DEF U
<1>b. ASSUME NEW b \in TriedBuckets PROVE Len(U[b]) <= TriedBucketSize
  <2>1. T \in [TriedBuckets -> Seq(Nat)] /\ TriedBucketSize \in Nat /\ Len(T[b]) <= TriedBucketSize
    BY AddrManAssumption DEF Part, InTried, T
  <2>2. kb \in TriedBuckets /\ K \in Nat /\ Len(T[kb]) < TriedBucketSize
    BY <1>3, <1>5, <1>8
  <2> HIDE DEF kb
  <2>3. CASE b = kb
    <3>1. U[b] = Append(T[kb], K)
      BY <2>1, <2>2, <2>3 DEF U
    <3>2. T[kb] \in Seq(Nat)
      BY <2>1, <2>2
    <3>3. Len(U[b]) = Len(T[kb]) + 1 /\ Len(T[kb]) \in Nat
      BY <2>2, <3>1, <3>2
    <3> QED
      BY <2>1, <2>2, <3>3
  <2>4. CASE b # kb
    BY <2>1, <2>4 DEF U
  <2> QED
    BY <2>3, <2>4
<1>18. ASSUME NEW x \in DOMAIN G
       PROVE  OnDisk(G[x]) = OnDisk(f[Orig(f, x)]) /\ (G[x].fInTried <=> ~(x < n))
  <2>1. CASE x = K
    BY <1>3, <1>15, <2>1 DEF e
  <2>2. CASE x # K
    <3>1. x \in DOMAIN F0 /\ G[x] = F0[x]
      BY <1>10, <1>14, <2>2
    <3> QED
      BY <1>6, <3>1
  <2> QED
    BY <2>1, <2>2
<1>19. DOMAIN G = 0 .. n + (k + 1) - 1 /\ K + 1 = n + (k + 1)
  <2> HIDE DEF n
  <2>1. DOMAIN G = (0 .. n + k - 1) \cup {n + k}
    BY <1>6, <1>10, <1>14 DEF K
  <2> QED
    BY <1>2, <2>1 DEF K
<1>20. Part(m, r, k + 1)
  BY <1>13, <1>16, <1>17, <1>b, <1>18, <1>19 DEF Part
<1> QED
  BY <1>20 DEF r, d

\* Every entry is read.
LEMMA LoadingFacts ==
  ASSUME NEW m, Man(m), Bounded(m.vvNew, m.vvTried), NEW file, Dump(m, file)
  PROVE  Part(m, Loading(file)[Len(file.tried)], NTried(m.mapInfo))
<1> DEFINE t == NTried(m.mapInfo)
           s == Loading(file)
           S == {k \in Nat : k <= t => Part(m, s[k], k)}
<1>1. t \in Nat /\ Len(file.tried) = t
  BY OrigFacts DEF Man, Indexes, Dump
<1>2. s = [i \in 0 .. t |-> IF i = 0 THEN LoadNew(file) ELSE LoadTried(s[i - 1], file.tried[i])]
  BY <1>1, LoadingDef
<1> HIDE DEF s, t
<1>3. 0 \in S
  <2>1. s[0] = LoadNew(file)
    BY <1>1, <1>2
  <2> QED
    BY <2>1, LoadNewFacts
<1>4. ASSUME NEW k \in Nat, k + 1 <= t, k \in S PROVE k + 1 \in S
  <2>1. k < t /\ k <= t /\ k + 1 \in 0 .. t /\ k + 1 # 0 /\ (k + 1) - 1 = k
    BY <1>1, <1>4
  <2>2. Part(m, s[k], k)
    BY <1>4, <2>1
  <2>3. s[k + 1] = LoadTried(s[k], file.tried[k + 1])
    BY <1>2, <2>1
  <2>4. Part(m, s[k + 1], k + 1)
    BY <2>1, <2>2, <2>3, LoadTriedFacts DEF t
  <2> QED
    BY <2>4
<1> HIDE DEF S
<1>5. \A k \in 0 .. t : k \in S
  BY <1>1, <1>3, <1>4, InductTo
<1>6. t \in S
  BY <1>1, <1>5
<1>7. Part(m, s[t], t)
  BY <1>1, <1>6 DEF S
<1> QED
  BY <1>1, <1>7 DEF s, t

\* The table R holds all that the dump of m does.
Copy(m, R) ==
  LET f == m.mapInfo IN
  /\ DOMAIN R.mapInfo = ReadIds(f) /\ R.nIdCount = NNew(f) + NTried(f) /\ R.nNew = NNew(f) /\ R.nTried = NTried(f)
  /\ \A x \in ReadIds(f) : OnDisk(R.mapInfo[x]) = OnDisk(f[Orig(f, x)]) /\ (R.mapInfo[x].fInTried <=> ~(x < NNew(f)))
  /\ \A b \in NewBuckets : R.vvNew[b] = {x \in ReadIds(f) : Orig(f, x) \in m.vvNew[b]}
  /\ \A b \in TriedBuckets : Len(R.vvTried[b]) <= TriedBucketSize

\* The new buckets are read; no entry is in too many.
LEMMA LoadBucketsFacts ==
  ASSUME NEW m, Man(m), NEW file, Dump(m, file), NEW s, Part(m, s, NTried(m.mapInfo))
  PROVE  Man(LoadBuckets(s, file)) /\ Copy(m, LoadBuckets(s, file))
<1> DEFINE f == m.mapInfo
           n == NNew(f)
           t == NTried(f)
           R == LoadBuckets(s, file)
           F == s.mapInfo
           upTo(b, i) == Cardinality({c \in NewBuckets : c <= b /\ i \in file.buckets[c]})
           W == [b \in NewBuckets |-> {i \in file.buckets[b] : upTo(b, i) <= NewBucketsPerAddress}]
           G == [i \in DOMAIN F |-> [F[i] EXCEPT !.nRefCount = Cardinality({b \in NewBuckets : i \in W[b]})]]
<1>1. Infos(f) /\ Below(f, m.nIdCount) /\ InBuckets(f, m.vvNew)
  BY DEF Man, Indexes
<1>2. /\ n \in Nat /\ t \in Nat /\ ReadIds(f) = 0 .. n + t - 1
      /\ \A x \in ReadIds(f) : /\ Orig(f, x) \in DOMAIN f
                               /\ x < n => Orig(f, x) \in NewIds(f)
                               /\ ~(x < n) => Orig(f, x) \in TriedIds(f)
  BY <1>1, OrigFacts DEF ReadIds
<1>3. /\ Rec(s) /\ s.nIdCount = n + t /\ s.nNew = n /\ s.nTried = t /\ DOMAIN F = 0 .. n + t - 1
      /\ Infos(F) /\ Shuffled(F, s.vRandom) /\ Addressed(F, s.mapAddr) /\ InTried(F, s.vvTried)
      /\ \A b \in TriedBuckets : Len(s.vvTried[b]) <= TriedBucketSize
      /\ \A x \in DOMAIN F : OnDisk(F[x]) = OnDisk(f[Orig(f, x)]) /\ (F[x].fInTried <=> ~(x < n))
  BY DEF Part
<1>4. \A b \in NewBuckets : file.buckets[b] = {x \in ReadIds(f) : Orig(f, x) \in m.vvNew[b]}
  BY DEF Dump
<1>5. /\ Rec(R) /\ R.nIdCount = n + t /\ R.nNew = n /\ R.nTried = t /\ R.mapInfo = G /\ R.vRandom = s.vRandom
      /\ R.mapAddr = s.mapAddr /\ R.vvTried = s.vvTried /\ R.vvNew = W
  <2>1. R = [s EXCEPT !.vvNew = W, !.mapInfo = G]
    BY DEF LoadBuckets
  <2> HIDE DEF R, W, G, n, t
  <2> QED
    BY <1>3, <2>1 DEF Rec
<1> HIDE DEF n, t, R, F, f
<1>6. Below(F, n + t)
  BY <1>2, <1>3 DEF Below
<1>7. ASSUME NEW x \in ReadIds(f)
      PROVE  /\ In(m.vvNew, Orig(f, x)) \in SUBSET NewBuckets
             /\ Cardinality(In(m.vvNew, Orig(f, x))) <= NewBucketsPerAddress
             /\ x < n => In(m.vvNew, Orig(f, x)) # {}
             /\ ~(x < n) => In(m.vvNew, Orig(f, x)) = {}
  <2> DEFINE i == Orig(f, x)
  <2>1. i \in DOMAIN f /\ (x < n => ~f[i].fInTried) /\ (~(x < n) => f[i].fInTried)
    BY <1>2 DEF NewIds, TriedIds
  <2> HIDE DEF i
  <2>2. /\ f[i].nRefCount = Cardinality(In(m.vvNew, i))
        /\ f[i].fInTried => In(m.vvNew, i) = {}
        /\ ~f[i].fInTried => In(m.vvNew, i) # {} /\ f[i].nRefCount <= NewBucketsPerAddress
    BY <1>1, <2>1 DEF InBuckets
  <2>3. Cardinality({}) = 0 /\ NewBucketsPerAddress \in Nat
    BY FS_EmptySet, AddrManAssumption
  <2>4. In(m.vvNew, i) \in SUBSET NewBuckets
    BY InFacts
  <2> QED
    BY <2>1, <2>2, <2>3, <2>4 DEF i
<1>8. ASSUME NEW b \in NewBuckets PROVE W[b] = {x \in ReadIds(f) : Orig(f, x) \in m.vvNew[b]}
  <2>1. ASSUME NEW x \in file.buckets[b] PROVE upTo(b, x) <= NewBucketsPerAddress
    <3> DEFINE P == {c \in NewBuckets : c <= b /\ x \in file.buckets[c]}
               Q == In(m.vvNew, Orig(f, x))
    <3>1. x \in ReadIds(f)
      BY <1>4, <2>1
    <3>2. P \in SUBSET Q
      BY <1>4 DEF In
    <3>3. IsFiniteSet(Q) /\ Cardinality(Q) \in Nat /\ Cardinality(Q) <= NewBucketsPerAddress
      BY <1>7, <3>1, InFacts
    <3> HIDE DEF P, Q
    <3>4. Cardinality(P) <= Cardinality(Q) /\ IsFiniteSet(P)
      BY <3>2, <3>3, FS_Subset
    <3>5. Cardinality(P) \in Nat /\ NewBucketsPerAddress \in Nat
      BY <3>4, FS_CardinalityType, AddrManAssumption
    <3>6. Cardinality(P) <= NewBucketsPerAddress
      BY <3>3, <3>4, <3>5
    <3> QED
      BY <3>6 DEF P
  <2>2. W[b] = {x \in file.buckets[b] : upTo(b, x) <= NewBucketsPerAddress}
    OBVIOUS
  <2> HIDE DEF upTo, W
  <2>3. W[b] = file.buckets[b]
    BY <2>1, <2>2
  <2> QED
    BY <1>4, <2>3
<1>9. DOMAIN W = NewBuckets /\ W = [b \in NewBuckets |-> W[b]]
  OBVIOUS
<1>10. DOMAIN G = DOMAIN F /\ \A i \in DOMAIN F : G[i] = [F[i] EXCEPT !.nRefCount = Cardinality(In(W, i))]
  <2> HIDE DEF W
  <2> QED
    BY DEF In
<1> HIDE DEF W, G
<1>11. ASSUME NEW x \in ReadIds(f) PROVE In(W, x) = In(m.vvNew, Orig(f, x))
  BY <1>8 DEF In
<1>12. DOMAIN F = ReadIds(f)
  BY <1>2, <1>3
<1>13. ASSUME NEW i \in ReadIds(f)
       PROVE  /\ G[i] \in CAddrInfos /\ G[i].addr = F[i].addr /\ G[i].source = F[i].source
              /\ G[i].nLastSuccess = F[i].nLastSuccess /\ G[i].nRandomPos = F[i].nRandomPos
              /\ G[i].fInTried = F[i].fInTried /\ G[i].nRefCount = Cardinality(In(W, i))
              /\ OnDisk(G[i]) = OnDisk(F[i])
  <2>1. F[i] \in CAddrInfos
    BY <1>3, <1>12 DEF Infos
  <2>2. PICK c \in Nat : c = Cardinality(In(W, i))
    BY InFacts
  <2>3. G[i] = [F[i] EXCEPT !.nRefCount = c]
    BY <1>10, <1>12, <2>2
  <2>4. /\ G[i] \in CAddrInfos /\ G[i].addr = F[i].addr /\ G[i].source = F[i].source
        /\ G[i].nLastSuccess = F[i].nLastSuccess /\ G[i].nRandomPos = F[i].nRandomPos
        /\ G[i].fInTried = F[i].fInTried /\ G[i].nRefCount = c
    BY <2>1, <2>3 DEF CAddrInfos
  <2>5. OnDisk(G[i]) = OnDisk(F[i])
    BY <2>4, DiskFields
  <2> QED
    BY <2>2, <2>4, <2>5
<1>14. Infos(G) /\ Below(G, n + t) /\ Shuffled(G, s.vRandom) /\ Addressed(G, s.mapAddr)
  <2>1. Relabels(F, G)
    BY <1>10, <1>12, <1>13 DEF Relabels
  <2> QED
    BY <1>3, <1>6, <2>1, Relabel
<1>15. TriedIds(G) = n .. n + t - 1 /\ NewIds(G) = 0 .. n - 1 /\ TriedIds(G) = TriedIds(F)
  <2>1. \A x \in ReadIds(f) : (G[x].fInTried <=> ~(x < n)) /\ (F[x].fInTried <=> ~(x < n))
    BY <1>3, <1>12, <1>13
  <2>2. DOMAIN G = ReadIds(f)
    BY <1>10, <1>12
  <2> QED
    BY <1>2, <1>12, <2>1, <2>2 DEF TriedIds, NewIds
<1>16. Counted(G, t, n)
  <2>1. n \in Int /\ n + t - 1 \in Int /\ 0 \in Int /\ n - 1 \in Int
    BY <1>2
  <2>2. Cardinality(n .. n + t - 1) = IF n > n + t - 1 THEN 0 ELSE (n + t - 1) - n + 1
    BY <2>1, FS_Interval
  <2>3. Cardinality(0 .. n - 1) = IF 0 > n - 1 THEN 0 ELSE (n - 1) - 0 + 1
    BY <2>1, FS_Interval
  <2>4. Cardinality(n .. n + t - 1) = t
    BY <1>2, <2>2
  <2>5. Cardinality(0 .. n - 1) = n
    BY <1>2, <2>3
  <2> QED
    BY <1>15, <2>4, <2>5 DEF Counted
<1>17. InTried(G, s.vvTried)
  <2>1. SameTried(F, G)
    BY <1>12, <1>13, <1>15 DEF SameTried, TriedIds
  <2> QED
    BY <1>3, <2>1, SameTriedBuckets
<1>18. InBuckets(G, W)
  <2>0. \A x \in ReadIds(f) : x \in Nat
    BY <1>2
  <2>1. W \in [NewBuckets -> SUBSET Nat]
    BY <1>8, <1>9, <2>0
  <2>2. \A b \in NewBuckets : W[b] \subseteq DOMAIN G
    BY <1>8, <1>10, <1>12
  <2>3. ASSUME NEW x \in DOMAIN G
        PROVE  /\ G[x].nRefCount = Cardinality(In(W, x))
               /\ G[x].fInTried => In(W, x) = {}
               /\ ~G[x].fInTried => In(W, x) # {} /\ G[x].nRefCount <= NewBucketsPerAddress
    <3>1. x \in ReadIds(f) /\ (G[x].fInTried <=> ~(x < n))
      BY <1>3, <1>10, <1>12, <1>13
    <3> QED
      BY <1>7, <1>11, <1>13, <3>1
  <2> QED
    BY <2>1, <2>2, <2>3 DEF InBuckets
<1>19. Man(R)
  BY <1>5, <1>14, <1>16, <1>17, <1>18 DEF Man, Indexes
<1>20. Copy(m, R)
  <2>1. DOMAIN G = ReadIds(f)
    BY <1>10, <1>12
  <2>2. ASSUME NEW x \in ReadIds(f) PROVE OnDisk(G[x]) = OnDisk(f[Orig(f, x)]) /\ (G[x].fInTried <=> ~(x < n))
    BY <1>3, <1>12, <1>13
  <2> QED
    BY <1>3, <1>5, <1>8, <2>1, <2>2 DEF Copy, f, n, t
<1> QED
  BY <1>19, <1>20 DEF R

\* A tried bucket holds the tried entries whose addresses belong there.
LEMMA TriedSet ==
  ASSUME NEW f, NEW tried, InTried(f, tried), NEW b \in TriedBuckets
  PROVE  ToSet(tried[b]) = {i \in TriedIds(f) : TriedBucketOf[f[i].addr] = b}
<1>1. tried[b] \in Seq(Nat)
  BY DEF InTried
<1>2. DOMAIN tried[b] = 1 .. Len(tried[b])
  BY <1>1
<1>3. ASSUME NEW p \in 1 .. Len(tried[b])
      PROVE  tried[b][p] \in TriedIds(f) /\ TriedBucketOf[f[tried[b][p]].addr] = b
  BY DEF InTried
<1>4. ASSUME NEW i \in TriedIds(f), TriedBucketOf[f[i].addr] = b PROVE \E p \in 1 .. Len(tried[b]) : tried[b][p] = i
  BY <1>4 DEF InTried
<1>5. ToSet(tried[b]) = {tried[b][p] : p \in 1 .. Len(tried[b])}
  BY <1>2, Zenon DEF ToSet
<1> QED
  BY <1>3, <1>4, <1>5

\* The buckets of a copy are within their sizes, and its ids are bounded.
LEMMA CopyBounded ==
  ASSUME NEW m, Man(m), Bounded(m.vvNew, m.vvTried), NEW R, Copy(m, R)
  PROVE  Bounded(R.vvNew, R.vvTried) /\ R.nIdCount \in Ids
<1> DEFINE f == m.mapInfo
           O == ReadIds(f)
<1>1. Infos(f) /\ Below(f, m.nIdCount) /\ InBuckets(f, m.vvNew) /\ Addressed(f, m.mapAddr)
  BY DEF Man, Indexes
<1>2. \A x, y \in O : Orig(f, x) = Orig(f, y) => x = y
  BY <1>1, OrigFacts
<1>3. ASSUME NEW b \in NewBuckets PROVE Cardinality(R.vvNew[b]) <= NewBucketSize
  <2> DEFINE P == R.vvNew[b]
             Q == m.vvNew[b]
             g == [x \in P |-> Orig(f, x)]
  <2>1. P = {x \in O : Orig(f, x) \in Q}
    BY DEF Copy
  <2> HIDE DEF P, Q, O
  <2>2. g \in [P -> Q]
    BY <2>1
  <2>3. \A x, y \in P : g[x] = g[y] => x = y
    BY <1>2, <2>1
  <2> HIDE DEF g
  <2>4. g \in Injection(P, Q)
    BY <2>2, <2>3, Zenon DEF Injection, IsInjective
  <2>5. IsFiniteSet(Q) /\ Cardinality(Q) \in Nat
    <3>1. Q \in SUBSET DOMAIN f
      BY <1>1 DEF InBuckets, Q
    <3> QED
      BY <1>1, <3>1, EntriesFinite
  <2>6. IsFiniteSet(P) /\ Cardinality(P) <= Cardinality(Q)
    BY <2>4, <2>5, FS_Injection
  <2>7. Cardinality(P) \in Nat /\ Cardinality(Q) <= NewBucketSize /\ NewBucketSize \in Nat
    BY <2>6, FS_CardinalityType, AddrManAssumption DEF Bounded, Q
  <2>8. Cardinality(P) <= NewBucketSize
    BY <2>5, <2>6, <2>7
  <2> QED
    BY <2>8 DEF P
<1>4. Bounded(R.vvNew, R.vvTried)
  BY <1>3 DEF Bounded, Copy
<1>5. R.nIdCount \in Ids
  <2> DEFINE g == [i \in DOMAIN f |-> f[i].addr]
             c == Cardinality(Services)
  <2>1. g \in [DOMAIN f -> Services]
    BY <1>1 DEF Infos, CAddrInfos
  <2>2. \A i, j \in DOMAIN f : g[i] = g[j] => i = j
    BY <1>1 DEF Addressed
  <2> HIDE DEF g
  <2>3. g \in Injection(DOMAIN f, Services)
    BY <2>1, <2>2, Zenon DEF Injection, IsInjective
  <2>4. Cardinality(DOMAIN f) <= c /\ c \in Nat
    BY <2>3, FS_Injection, FS_CardinalityType, AddrManAssumption
  <2>5. Cardinality(DOMAIN f) = NTried(f) + NNew(f)
    BY <1>1, EntriesSplit DEF NTried, NNew
  <2>6. R.nIdCount = NNew(f) + NTried(f) /\ NNew(f) \in Nat /\ NTried(f) \in Nat
    BY <1>1, OrigFacts DEF Copy
  <2>7. MaxIds \in Nat
    BY AddrManAssumption
  <2> HIDE DEF c
  <2>8. R.nIdCount \in 0 .. MaxIds + c
    BY <2>4, <2>5, <2>6, <2>7
  <2> QED
    BY <2>8 DEF Ids, c
<1> QED
  BY <1>4, <1>5

\* A copy says the same about addresses.
LEMMA CopyContent ==
  ASSUME NEW m, Man(m), NEW R, Man(R), Copy(m, R)
  PROVE  Content(R) = Content(m)
<1> DEFINE f == m.mapInfo
           G == R.mapInfo
           O == ReadIds(f)
           n == NNew(f)
           d(i) == OnDisk(f[i])
           D(x) == OnDisk(G[x])
<1>1. Infos(f) /\ Below(f, m.nIdCount) /\ InBuckets(f, m.vvNew) /\ InTried(f, m.vvTried)
  BY DEF Man, Indexes
<1>2. Infos(G) /\ Below(G, R.nIdCount) /\ InTried(G, R.vvTried)
  BY DEF Man, Indexes
<1>3. /\ \A x \in O : /\ Orig(f, x) \in DOMAIN f
                      /\ x < n => Orig(f, x) \in NewIds(f)
                      /\ ~(x < n) => Orig(f, x) \in TriedIds(f)
      /\ \A i \in DOMAIN f : \E x \in O : Orig(f, x) = i
  BY <1>1, OrigFacts
<1>4. DOMAIN G = O /\ \A x \in O : D(x) = d(Orig(f, x)) /\ (G[x].fInTried <=> ~(x < n))
  BY DEF Copy
<1> HIDE DEF O, n
<1>5. ASSUME NEW b \in NewBuckets PROVE {D(x) : x \in R.vvNew[b]} = {d(i) : i \in m.vvNew[b]}
  <2> DEFINE P == R.vvNew[b]
             Q == m.vvNew[b]
  <2>1. P = {x \in O : Orig(f, x) \in Q} /\ Q \subseteq DOMAIN f
    BY <1>1 DEF Copy, InBuckets, O
  <2> HIDE DEF P, Q
  <2>2. ASSUME NEW x \in P PROVE \E i \in Q : D(x) = d(i)
    BY <1>4, <2>1
  <2>3. ASSUME NEW i \in Q PROVE \E x \in P : D(x) = d(i)
    <3>1. PICK x \in O : Orig(f, x) = i
      BY <1>3, <2>1
    <3> QED
      BY <1>4, <2>1, <3>1
  <2> HIDE DEF D, d
  <2>4. {D(x) : x \in P} = {d(i) : i \in Q}
    BY <2>2, <2>3
  <2> QED
    BY <2>4 DEF P, Q
<1>6. ASSUME NEW b \in TriedBuckets PROVE {D(x) : x \in ToSet(R.vvTried[b])} = {d(i) : i \in ToSet(m.vvTried[b])}
  <2> DEFINE P == ToSet(R.vvTried[b])
             Q == ToSet(m.vvTried[b])
  <2>1. P = {x \in TriedIds(G) : TriedBucketOf[G[x].addr] = b} /\ Q = {i \in TriedIds(f) : TriedBucketOf[f[i].addr] = b}
    BY <1>1, <1>2, TriedSet
  <2>2. ASSUME NEW x \in O PROVE G[x].addr = f[Orig(f, x)].addr /\ (x \in TriedIds(G) <=> Orig(f, x) \in TriedIds(f))
    <3>1. G[x].addr = f[Orig(f, x)].addr
      BY <1>4, DiskFields
    <3>2. x \in TriedIds(G) <=> ~(x < n)
      BY <1>4 DEF TriedIds
    <3>3. Orig(f, x) \in TriedIds(f) <=> ~(x < n)
      BY <1>3 DEF TriedIds, NewIds
    <3> QED
      BY <3>1, <3>2, <3>3
  <2>3. TriedIds(G) \subseteq O /\ TriedIds(f) \subseteq DOMAIN f
    BY <1>4 DEF TriedIds
  <2> HIDE DEF P, Q
  <2>4. ASSUME NEW x \in P PROVE \E i \in Q : D(x) = d(i)
    BY <1>4, <2>1, <2>2, <2>3
  <2>5. ASSUME NEW i \in Q PROVE \E x \in P : D(x) = d(i)
    <3>1. PICK x \in O : Orig(f, x) = i
      BY <1>3, <2>1, <2>3
    <3>2. x \in P
      BY <2>1, <2>2, <3>1
    <3> QED
      BY <1>4, <3>1, <3>2
  <2> HIDE DEF D, d
  <2>6. {D(x) : x \in P} = {d(i) : i \in Q}
    BY <2>4, <2>5
  <2> QED
    BY <2>6 DEF P, Q
<1>7. R.nTried = m.nTried /\ R.nNew = m.nNew /\ Len(R.vRandom) = Len(m.vRandom)
  <2>1. R.nTried = m.nTried /\ R.nNew = m.nNew
    BY DEF Copy, Man, Indexes, Counted, NNew, NTried
  <2>2. Len(R.vRandom) = R.nTried + R.nNew
    BY SameSizes, EntriesSplit DEF Man, Indexes, Counted
  <2>3. Len(m.vRandom) = m.nTried + m.nNew
    BY SameSizes, EntriesSplit DEF Man, Indexes, Counted
  <2> QED
    BY <2>1, <2>2, <2>3
<1>8. [b \in TriedBuckets |-> {D(x) : x \in ToSet(R.vvTried[b])}] = [b \in TriedBuckets |-> {d(i) : i \in ToSet(m.vvTried[b])}]
  <2> HIDE DEF D, d
  <2> QED
    BY <1>6
<1>9. [b \in NewBuckets |-> {D(x) : x \in R.vvNew[b]}] = [b \in NewBuckets |-> {d(i) : i \in m.vvNew[b]}]
  <2> HIDE DEF D, d
  <2> QED
    BY <1>5
<1> QED
  BY <1>7, <1>8, <1>9, Zenon DEF Content

\* A restart brings back the dump.
LEMMA RestartFacts ==
  ASSUME NEW m, Man(m), Bounded(m.vvNew, m.vvTried)
  PROVE  LET R == Load(Serialize(m)) IN
         Man(R) /\ Bounded(R.vvNew, R.vvTried) /\ R.nIdCount \in Ids /\ Content(R) = Content(m)
<1> DEFINE file == Serialize(m)
           s == Loading(file)[Len(file.tried)]
           R == LoadBuckets(s, file)
<1>1. Dump(m, file)
  BY SerializeFacts
<1> HIDE DEF file
<1>2. Part(m, s, NTried(m.mapInfo))
  BY <1>1, LoadingFacts
<1> HIDE DEF s
<1>3. Man(R) /\ Copy(m, R)
  BY <1>1, <1>2, LoadBucketsFacts
<1>4. Load(Serialize(m)) = R
  BY DEF Load, file, s
<1> HIDE DEF R
<1>5. Bounded(R.vvNew, R.vvTried) /\ R.nIdCount \in Ids
  BY <1>3, CopyBounded
<1>6. Content(R) = Content(m)
  BY <1>3, CopyContent
<1> QED
  BY <1>3, <1>4, <1>5, <1>6

-----------------------------------------------------------------------------
(***************************************************************************)
(* The theorems                                                            *)
(***************************************************************************)

\* The empty table satisfies the invariant.
LEMMA EmptyInv ==
  Man(CAddrMan) /\ Bounded(CAddrMan.vvNew, CAddrMan.vvTried) /\ CAddrMan.nIdCount \in Ids
<1> DEFINE m == CAddrMan
           N == [b \in NewBuckets |-> {}]
           T == [b \in TriedBuckets |-> <<>>]
<1>1. /\ Rec(m) /\ m.nIdCount = 0 /\ m.mapInfo = <<>> /\ m.mapAddr = <<>> /\ m.vRandom = <<>> /\ m.nTried = 0
      /\ m.nNew = 0 /\ m.vvTried = T /\ m.vvNew = N
  BY DEF CAddrMan, Rec
<1>2. DOMAIN <<>> = {} /\ Len(<<>>) = 0 /\ <<>> \in Seq(Nat)
  OBVIOUS
<1>3. N \in [NewBuckets -> SUBSET Nat] /\ \A b \in NewBuckets : N[b] = {}
  OBVIOUS
<1>4. T \in [TriedBuckets -> Seq(Nat)] /\ \A b \in TriedBuckets : T[b] = <<>>
  OBVIOUS
<1> HIDE DEF N, T, m
<1>5. Cardinality({}) = 0
  BY FS_EmptySet
<1>6. TriedIds(<<>>) = {} /\ NewIds(<<>>) = {}
  BY <1>2 DEF TriedIds, NewIds
<1>7. Infos(<<>>) /\ Below(<<>>, 0) /\ Shuffled(<<>>, <<>>) /\ Addressed(<<>>, <<>>)
  BY <1>2 DEF Infos, Below, Shuffled, Addressed
<1>8. InTried(<<>>, T)
  BY <1>2, <1>4, <1>6 DEF InTried
<1>9. InBuckets(<<>>, N)
  BY <1>2, <1>3 DEF InBuckets
<1>10. Counted(<<>>, 0, 0)
  BY <1>5, <1>6 DEF Counted
<1>11. Man(m)
  BY <1>1, <1>7, <1>8, <1>9, <1>10 DEF Man, Indexes
<1>12. NewBucketSize \in Nat /\ TriedBucketSize \in Nat /\ MaxIds \in Nat /\ Cardinality(Services) \in Nat
  BY FS_CardinalityType, AddrManAssumption
<1>13. Bounded(N, T)
  <2>1. \A b \in NewBuckets : Cardinality(N[b]) = 0
    BY <1>3, <1>5
  <2>2. \A b \in TriedBuckets : Len(T[b]) = 0
    BY <1>2, <1>4
  <2> QED
    BY <1>12, <2>1, <2>2 DEF Bounded
<1>14. 0 \in Ids
  BY <1>12 DEF Ids
<1> QED
  BY <1>1, <1>11, <1>13, <1>14 DEF m

\* Every step keeps the invariant, and the tried entries but for a restart.
LEMMA StepFacts ==
  ASSUME AddrInv, [AddrNext]_am
  PROVE  AddrInv' /\ (~Restart /\ ~RestartEmpty => Keeps(am, am'))
<1>1. ASSUME NEW svc \in Services, NEW source \in Sources, AddNew(svc, source) PROVE AddrInv' /\ Keeps(am, am')
  BY <1>1, AddNewFacts
<1>2. ASSUME NEW svc \in Services, NEW source \in Sources, AddKnown(svc, source) PROVE AddrInv' /\ Keeps(am, am')
  BY <1>2, AddKnownFacts
<1>3. ASSUME NEW svc \in Services, NEW nTime \in 1 .. MaxTime, Good(svc, nTime) PROVE AddrInv' /\ Keeps(am, am')
  BY <1>3, GoodFacts
<1>4. ASSUME GetAddr PROVE AddrInv' /\ Keeps(am, am')
  BY <1>4, GetAddrFacts
<1>5. ASSUME Restart PROVE AddrInv'
  BY <1>5, RestartFacts DEF Restart, AddrInv
<1>6. ASSUME RestartEmpty PROVE AddrInv'
  BY <1>6, EmptyInv DEF RestartEmpty, AddrInv
<1>7. ASSUME UNCHANGED am PROVE AddrInv' /\ Keeps(am, am')
  <2>1. AddrInv'
    BY <1>7 DEF AddrInv
  <2>2. Keeps(am, am)
    BY EntriesFinite DEF Keeps, AddrInv, Man, Indexes, Counted, TriedIds
  <2> QED
    BY <1>7, <2>1, <2>2
<1> QED
  BY <1>1, <1>2, <1>3, <1>4, <1>5, <1>6, <1>7 DEF AddrNext

\* The invariant holds in every state that is reached.
LEMMA AddrInvariant == AddrSpec => []AddrInv
<1>1. AddrInit => AddrInv
  BY EmptyInv DEF AddrInit, AddrInv
<1>2. AddrInv /\ [AddrNext]_am => AddrInv'
  BY StepFacts
<1> QED
  BY <1>1, <1>2, PTL DEF AddrSpec

\* Whatever the addresses, the bucket functions and the sizes, the five
\* indexes and the two counters of the address manager agree after every
\* operation and every restart (addrman.cpp: Create, SwapRandom, ShrinkNew,
\* MakeTried, Add_, Good_, GetAddr_; addrman.h: Serialize, Unserialize).
THEOREM AddrManConsistent == AddrSpec => []Consistent
  BY AddrInvariant, InvConsistent, PTL

\* From every state that is reached, peers.dat read back says of every
\* address what was dumped: no entry is lost to a full bucket or to the limit
\* on references, although the ids are assigned anew (addrman.h:270-378).
THEOREM AddrManDumpLoadsBack == AddrSpec => []DumpLoadsBack
<1>1. AddrInv => DumpLoadsBack
  BY RestartFacts DEF AddrInv, DumpLoadsBack
<1> QED
  BY <1>1, AddrInvariant, PTL

\* A tried address stays known until the process ends, in a new bucket if it
\* is evicted, and the number of tried entries never falls (addrman.h:215).
THEOREM AddrManTriedKept == AddrSpec => TriedKept
<1>1. ASSUME AddrInv, [AddrNext]_am, ~Restart, ~RestartEmpty
      PROVE  /\ am'.nTried >= am.nTried
             /\ \A i \in DOMAIN am.mapInfo :
                  am.mapInfo[i].fInTried =>
                    /\ i \in DOMAIN am'.mapInfo
                    /\ am'.mapInfo[i].addr = am.mapInfo[i].addr
                    /\ ~am'.mapInfo[i].fInTried => InNew(am', i) # {}
  <2>1. AddrInv' /\ Keeps(am, am')
    BY <1>1, StepFacts
  <2>2. InBuckets(am'.mapInfo, am'.vvNew)
    BY <2>1 DEF AddrInv, Man
  <2>3. \A i : InNew(am', i) = In(am'.vvNew, i)
    BY DEF InNew, In
  <2>4. am'.nTried >= am.nTried
    BY <2>1 DEF Keeps
  <2>5. ASSUME NEW i \in DOMAIN am.mapInfo, am.mapInfo[i].fInTried
        PROVE  /\ i \in DOMAIN am'.mapInfo
               /\ am'.mapInfo[i].addr = am.mapInfo[i].addr
               /\ ~am'.mapInfo[i].fInTried => InNew(am', i) # {}
    <3>1. i \in TriedIds(am.mapInfo)
      BY <2>5 DEF TriedIds
    <3>2. i \in DOMAIN am'.mapInfo /\ am'.mapInfo[i].addr = am.mapInfo[i].addr
      BY <2>1, <3>1 DEF Keeps
    <3>3. ~am'.mapInfo[i].fInTried => In(am'.vvNew, i) # {}
      BY <2>2, <3>2 DEF InBuckets
    <3> QED
      BY <2>3, <3>2, <3>3
  <2> QED
    BY <2>4, <2>5
<1> QED
  BY <1>1, AddrInvariant, PTL DEF AddrSpec, TriedKept

=============================================================================
