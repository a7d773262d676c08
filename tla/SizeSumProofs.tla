--------------------------- MODULE SizeSumProofs ----------------------------
(***************************************************************************)
(* The sum of the sizes of stored items, as the ledger property states it   *)
(* with MapThenSumSet: storing one more item adds its size.  The fold picks *)
(* its elements in an order nobody knows, so the sum is first shown not to  *)
(* depend on it.  Each induction is an argument about a smallest set that   *)
(* would be an exception.                                                  *)
(***************************************************************************)
EXTENDS Integers, Sequences, FiniteSets, FiniteSetsExt, FiniteSetTheorems,
        WellFoundedInduction, TLAPS

SizeSum(e, S) == MapThenSumSet(LAMBDA i : e[i].size, S)

LEMMA MinimalSet ==
  ASSUME NEW S, IsFiniteSet(S), NEW T, T \subseteq SUBSET S, T # {}
  PROVE  \E x \in T : \A y \in T : y \subseteq x => y = x
<1>1. IsWellFoundedOn(StrictSubsetOrdering(S), FiniteSubsetsOf(S))
  BY FS_StrictSubsetOrderingWellFounded
<1>2. T \subseteq FiniteSubsetsOf(S)
  BY FS_Subset DEF FiniteSubsetsOf
<1>3. PICK x \in T : \A y \in T : <<y, x>> \notin StrictSubsetOrdering(S)
  BY <1>1, <1>2, WFMin
<1>4. QED
  BY <1>3 DEF StrictSubsetOrdering

(* The function the fold is built from. *)
Pick(s) == CHOOSE x \in s : TRUE

Rest(s) == s \ {Pick(s)}

IsFold(g, e, S) ==
  g = [s \in SUBSET S |-> IF s = {} THEN 0 ELSE e[Pick(s)].size + g[Rest(s)]]

Fold(e, S) == CHOOSE g : IsFold(g, e, S)

LEMMA SumIsFold ==
  ASSUME NEW e, NEW S
  PROVE  SizeSum(e, S) = Fold(e, S)[S]
BY DEF SizeSum, MapThenSumSet, MapThenFoldSet, Fold, IsFold, Pick, Rest

LEMMA PickIn ==
  ASSUME NEW s, s # {}
  PROVE  Pick(s) \in s /\ Rest(s) \subseteq s /\ Rest(s) # s
<1>1. Pick(s) \in s
  BY DEF Pick
<1>2. QED
  BY <1>1 DEF Rest

LEMMA FoldAt ==
  ASSUME NEW g, NEW e, NEW S, IsFold(g, e, S), NEW s \in SUBSET S
  PROVE  g[s] = IF s = {} THEN 0 ELSE e[Pick(s)].size + g[Rest(s)]
BY DEF IsFold

(* Two such functions agree wherever the sizes do. *)
LEMMA FoldUnique ==
  ASSUME NEW g, NEW e, NEW S, IsFold(g, e, S),
         NEW h, NEW d, NEW T, IsFold(h, d, T),
         NEW U, IsFiniteSet(U), U \subseteq S, U \subseteq T,
         \A i \in U : e[i].size = d[i].size
  PROVE  g[U] = h[U]
<1> DEFINE Bad == { s \in SUBSET U : g[s] # h[s] }
<1>1. SUFFICES ASSUME Bad # {} PROVE FALSE
  OBVIOUS
<1>2. PICK s \in Bad : \A y \in Bad : y \subseteq s => y = s
  <2>1. Bad \subseteq SUBSET U
    OBVIOUS
  <2> HIDE DEF Bad
  <2>2. QED
    BY <1>1, <2>1, MinimalSet
<1>3. /\ s \in SUBSET S /\ s \in SUBSET T
      /\ g[s] = IF s = {} THEN 0 ELSE e[Pick(s)].size + g[Rest(s)]
      /\ h[s] = IF s = {} THEN 0 ELSE d[Pick(s)].size + h[Rest(s)]
  BY FoldAt
<1>4. s # {}
  BY <1>3
<1>5. Pick(s) \in U /\ Rest(s) \in SUBSET U /\ Rest(s) \notin Bad
  BY <1>2, <1>4, PickIn
<1>6. QED
  BY <1>3, <1>4, <1>5

LEMMA FoldExists ==
  ASSUME NEW e, NEW S, IsFiniteSet(S)
  PROVE  \E g : IsFold(g, e, S)
<1> DEFINE Bad == { s \in SUBSET S : ~ \E g : IsFold(g, e, s) }
<1>1. SUFFICES ASSUME Bad # {} PROVE FALSE
  OBVIOUS
<1>2. PICK m \in Bad : \A y \in Bad : y \subseteq m => y = m
  <2>1. Bad \subseteq SUBSET S
    OBVIOUS
  <2> HIDE DEF Bad
  <2>2. QED
    BY <1>1, <2>1, MinimalSet
<1>3. \A x \in m : IsFold(Fold(e, m \ {x}), e, m \ {x})
  <2>1. \A x \in m : \E g : IsFold(g, e, m \ {x})
    BY <1>2
  <2>2. QED
    BY <2>1 DEF Fold
<1> DEFINE out(s) == Pick(m \ s)
           val(s) == Fold(e, m \ {out(s)})[s]
           h == [s \in SUBSET m |-> IF s # m THEN val(s)
                                    ELSE IF m = {} THEN 0 ELSE e[Pick(m)].size + val(Rest(m))]
<1>4. ASSUME NEW s \in SUBSET m, s # m
      PROVE  out(s) \in m /\ s \in SUBSET (m \ {out(s)})
  <2>1. out(s) \in m \ s
    BY <1>4, PickIn
  <2>2. QED
    BY <2>1
<1>5. IsFiniteSet(m) /\ \A s \in SUBSET m : IsFiniteSet(s)
  BY FS_Subset
<1>6. ASSUME NEW s \in SUBSET m, s # m
      PROVE  h[s] = IF s = {} THEN 0 ELSE e[Pick(s)].size + h[Rest(s)]
  <2>1. h[s] = val(s)
    BY <1>6
  <2>2. val(s) = IF s = {} THEN 0 ELSE e[Pick(s)].size + Fold(e, m \ {out(s)})[Rest(s)]
    BY <1>3, <1>4, <1>6, FoldAt
  <2>3. ASSUME s # {}
        PROVE  Fold(e, m \ {out(s)})[Rest(s)] = h[Rest(s)]
    <3>1. Rest(s) \in SUBSET m /\ Rest(s) # m /\ Rest(s) \subseteq s
      BY <1>6, <2>3, PickIn
    <3>2. /\ out(s) \in m /\ Rest(s) \subseteq m \ {out(s)}
          /\ out(Rest(s)) \in m /\ Rest(s) \subseteq m \ {out(Rest(s))}
      BY <1>4, <1>6, <3>1
    <3>3. h[Rest(s)] = val(Rest(s))
      BY <3>1
    <3> HIDE DEF h, out
    <3>4. Fold(e, m \ {out(s)})[Rest(s)] = Fold(e, m \ {out(Rest(s))})[Rest(s)]
      BY <1>3, <1>5, <3>1, <3>2, FoldUnique
    <3>5. QED
      BY <3>3, <3>4
  <2>4. QED
    BY <2>1, <2>2, <2>3
<1>7. h[m] = IF m = {} THEN 0 ELSE e[Pick(m)].size + h[Rest(m)]
  <2>1. m # {} => Rest(m) \in SUBSET m /\ Rest(m) # m
    BY PickIn
  <2>2. QED
    BY <2>1
<1>8. h = [s \in SUBSET m |-> IF s = {} THEN 0 ELSE e[Pick(s)].size + h[Rest(s)]]
  <2>1. \A s \in SUBSET m : h[s] = IF s = {} THEN 0 ELSE e[Pick(s)].size + h[Rest(s)]
    BY <1>6, <1>7
  <2>2. h = [s \in SUBSET m |-> h[s]]
    OBVIOUS
  <2> HIDE DEF h
  <2>3. QED
    BY <2>1, <2>2
<1>9. IsFold(h, e, m)
  BY <1>8 DEF IsFold
<1>10. QED
  BY <1>9

LEMMA FoldIsFold ==
  ASSUME NEW e, NEW S, IsFiniteSet(S)
  PROVE  IsFold(Fold(e, S), e, S)
BY FoldExists DEF Fold

(* The sum over a set is the fold at it, within whatever larger set. *)
LEMMA SumWithin ==
  ASSUME NEW e, NEW S, IsFiniteSet(S), NEW T \in SUBSET S
  PROVE  SizeSum(e, T) = Fold(e, S)[T]
<1>1. IsFiniteSet(T)
  BY FS_Subset
<1>2. QED
  BY <1>1, SumIsFold, FoldIsFold, FoldUnique

LEMMA SumEmpty ==
  ASSUME NEW e
  PROVE  SizeSum(e, {}) = 0
BY FS_EmptySet, SumIsFold, FoldIsFold, FoldAt

(* Only the sizes of the items summed matter. *)
LEMMA SumCongruent ==
  ASSUME NEW e, NEW d, NEW S, IsFiniteSet(S), \A i \in S : e[i].size = d[i].size
  PROVE  SizeSum(e, S) = SizeSum(d, S)
BY SumIsFold, FoldIsFold, FoldUnique

LEMMA SumPick ==
  ASSUME NEW e, NEW S, IsFiniteSet(S), S # {}
  PROVE  SizeSum(e, S) = e[Pick(S)].size + SizeSum(e, Rest(S))
<1>1. Rest(S) \in SUBSET S
  BY PickIn
<1>2. QED
  BY <1>1, SumIsFold, SumWithin, FoldIsFold, FoldAt

LEMMA SumTyped ==
  ASSUME NEW e, NEW S, IsFiniteSet(S), \A i \in S : e[i].size \in Nat
  PROVE  SizeSum(e, S) \in Nat
<1> DEFINE Bad == { s \in SUBSET S : SizeSum(e, s) \notin Nat }
<1>1. SUFFICES ASSUME Bad # {} PROVE FALSE
  OBVIOUS
<1>2. PICK s \in Bad : \A y \in Bad : y \subseteq s => y = s
  <2>1. Bad \subseteq SUBSET S
    OBVIOUS
  <2> HIDE DEF Bad
  <2>2. QED
    BY <1>1, <2>1, MinimalSet
<1>3. s # {} /\ IsFiniteSet(s)
  <2>1. SizeSum(e, s) \notin Nat /\ s \in SUBSET S
    OBVIOUS
  <2> HIDE DEF Bad
  <2>2. SizeSum(e, {}) = 0
    BY SumEmpty
  <2>3. s # {}
    BY <2>1, <2>2
  <2>4. IsFiniteSet(s)
    BY <2>1, FS_Subset
  <2>5. QED
    BY <2>3, <2>4
<1>4. Rest(s) \in SUBSET S /\ Rest(s) \notin Bad /\ Pick(s) \in S
  BY <1>2, <1>3, PickIn
<1>5. QED
  BY <1>3, <1>4, SumPick

(* Any element can be taken out first. *)
LEMMA SumRemove ==
  ASSUME NEW e, NEW S, IsFiniteSet(S), \A i \in S : e[i].size \in Nat, NEW x \in S
  PROVE  SizeSum(e, S) = e[x].size + SizeSum(e, S \ {x})
<1> DEFINE Bad == { s \in SUBSET S : \E z \in s : SizeSum(e, s) # e[z].size + SizeSum(e, s \ {z}) }
<1>1. SUFFICES ASSUME Bad # {} PROVE FALSE
  OBVIOUS
<1>2. PICK s \in Bad : \A y \in Bad : y \subseteq s => y = s
  <2>1. Bad \subseteq SUBSET S
    OBVIOUS
  <2> HIDE DEF Bad
  <2>2. QED
    BY <1>1, <2>1, MinimalSet
<1>3. PICK z \in s : SizeSum(e, s) # e[z].size + SizeSum(e, s \ {z})
  OBVIOUS
<1> DEFINE p == Pick(s)
<1>4. p \in s /\ IsFiniteSet(s) /\ Rest(s) = s \ {p}
  BY FS_Subset, PickIn DEF Rest
<1>5. SizeSum(e, s) = e[p].size + SizeSum(e, s \ {p})
  BY <1>3, <1>4, SumPick
<1> HIDE DEF p
<1>6. p # z
  BY <1>3, <1>5
<1>7. SizeSum(e, s \ {p}) = e[z].size + SizeSum(e, (s \ {p}) \ {z})
  <2>1. s \ {p} \in SUBSET S /\ s \ {p} \notin Bad /\ z \in s \ {p}
    BY <1>2, <1>4, <1>6
  <2>2. QED
    BY <2>1
<1>8. SizeSum(e, s \ {z}) = e[p].size + SizeSum(e, (s \ {z}) \ {p})
  <2>1. s \ {z} \in SUBSET S /\ s \ {z} \notin Bad /\ p \in s \ {z}
    BY <1>2, <1>4, <1>6
  <2>2. QED
    BY <2>1
<1>9. (s \ {p}) \ {z} = (s \ {z}) \ {p}
  OBVIOUS
<1>10. SizeSum(e, (s \ {p}) \ {z}) \in Nat /\ e[p].size \in Nat /\ e[z].size \in Nat
  <2>1. IsFiniteSet((s \ {p}) \ {z}) /\ (s \ {p}) \ {z} \subseteq S
    BY <1>4, FS_Subset
  <2>2. QED
    BY <1>4, <2>1, SumTyped
<1>11. QED
  BY <1>3, <1>5, <1>7, <1>8, <1>9, <1>10

(* Storing one more item adds its size to the sum. *)
THEOREM SumAppend ==
  ASSUME NEW Items, \A item \in Items : item.size \in Nat,
         NEW e \in Seq(Items), NEW new \in Items
  PROVE  SizeSum(Append(e, new), DOMAIN Append(e, new)) = SizeSum(e, DOMAIN e) + new.size
<1> DEFINE a == Append(e, new)
           n == Len(e) + 1
<1>1. /\ a \in Seq(Items) /\ DOMAIN a = 1..n /\ DOMAIN e = 1..Len(e) /\ Len(e) \in Nat
      /\ a[n] = new /\ \A i \in DOMAIN e : a[i] = e[i]
  OBVIOUS
<1>2. IsFiniteSet(DOMAIN a) /\ IsFiniteSet(DOMAIN e)
  BY <1>1, FS_Interval
<1>3. DOMAIN a \ {n} = DOMAIN e /\ n \in DOMAIN a
  BY <1>1
<1>4. \A i \in DOMAIN a : a[i].size \in Nat
  BY <1>1
<1>5. a[n].size = new.size /\ \A i \in DOMAIN e : a[i].size = e[i].size
  BY <1>1
<1> HIDE DEF a, n
<1>6. SizeSum(a, DOMAIN a) = a[n].size + SizeSum(a, DOMAIN e)
  BY <1>2, <1>3, <1>4, SumRemove
<1>7. SizeSum(a, DOMAIN e) = SizeSum(e, DOMAIN e)
  BY <1>2, <1>5, SumCongruent
<1>8. SizeSum(a, DOMAIN e) \in Nat /\ new.size \in Nat
  <2>1. \A i \in DOMAIN e : a[i].size \in Nat
    BY <1>3, <1>4
  <2>2. QED
    BY <1>2, <2>1, SumTyped
<1>9. SizeSum(a, DOMAIN a) = SizeSum(e, DOMAIN e) + new.size
  BY <1>5, <1>6, <1>7, <1>8
<1>10. QED
  BY <1>9 DEF a
=============================================================================
