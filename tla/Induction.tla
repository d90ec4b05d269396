------------------------------ MODULE Induction ------------------------------
(***************************************************************************)
(* Induction over the natural numbers and iterated functions, in the form  *)
(* the proofs of this project use: the set of the numbers with a property  *)
(* takes the place of the property.  And what a walk along the pointers of *)
(* a linked list reaches.                                                  *)
(***************************************************************************)
EXTENDS Integers, FiniteSets, WellFoundedInduction, FiniteSetTheorems, TLAPS

\* A set of natural numbers that is not empty has a least element.
LEMMA MinExists == ASSUME NEW T \in SUBSET Nat, T # {} PROVE \E m \in T : \A k \in T : m <= k
  <1>. DEFINE R == OpToRel(<, Nat)
  <1>1. IsWellFoundedOn(R, Nat)
    BY NatLessThanWellFounded, ZenonT(30)
  <1>2. \A x, y \in Nat : y < x => <<y, x>> \in R
    BY DEF OpToRel
  <1>. HIDE DEF R
  <1>3. PICK x \in T : \A y \in T : ~(<<y, x>> \in R)
    BY <1>1, WFMin, ZenonT(30)
  <1>4. \A y \in T : ~(y < x)
    BY <1>2, <1>3, ZenonT(30)
  <1>. QED BY <1>4

\* A set that contains zero and the successor of each of its numbers contains them all.
LEMMA SetInduction ==
    ASSUME NEW S, 0 \in S, \A n \in Nat : n \in S => n + 1 \in S
    PROVE  \A n \in Nat : n \in S
  <1>. SUFFICES ASSUME Nat \ S # {} PROVE FALSE
    OBVIOUS
  <1>1. PICK m \in Nat \ S : \A k \in Nat \ S : m <= k
    BY MinExists, ZenonT(30)
  <1>2. m # 0 /\ m - 1 \in Nat /\ m - 1 \in S
    BY <1>1
  <1>. QED BY <1>2

\* f records n applications of G to a.
Iterates(f, n, a, G) == f[0] = a /\ \A i \in 1..n : f[i] = G[f[i - 1]]

\* A function that maps a set to itself can be iterated, so the recursive definition of
\* its iterates has a solution.
LEMMA IterationExists ==
    ASSUME NEW S, NEW a \in S, NEW G \in [S -> S], NEW n \in Nat
    PROVE  \E f \in [0..n -> S] : Iterates(f, n, a, G)
  <1>. DEFINE M == {m \in Nat : \E f \in [0..m -> S] : Iterates(f, m, a, G)}
  <1>1. 0 \in M
    <2>. DEFINE f == [i \in 0..0 |-> a]
    <2>1. f \in [0..0 -> S] /\ Iterates(f, 0, a, G)
      BY DEF Iterates
    <2>. QED BY <2>1
  <1>2. ASSUME NEW m \in Nat, m \in M PROVE m + 1 \in M
    <2>1. PICK f \in [0..m -> S] : Iterates(f, m, a, G)
      BY <1>2
    <2>. DEFINE g == [i \in 0 .. m+1 |-> IF i = m + 1 THEN G[f[m]] ELSE f[i]]
    <2>2. g \in [0 .. m+1 -> S]
      OBVIOUS
    <2>3. g[0] = a
      BY <2>1 DEF Iterates
    <2>4. ASSUME NEW i \in 1 .. m+1 PROVE g[i] = G[g[i - 1]]
      <3>1. i - 1 \in 0..m /\ i - 1 # m + 1 /\ g[i - 1] = f[i - 1]
        OBVIOUS
      <3>. QED BY <2>1, <3>1 DEF Iterates
    <2>. HIDE DEF g
    <2>5. Iterates(g, m + 1, a, G)
      BY <2>3, <2>4 DEF Iterates
    <2>. QED BY <2>2, <2>5
  <1>. HIDE DEF M
  <1>3. n \in M
    BY <1>1, <1>2, SetInduction
  <1>. QED BY <1>3 DEF M
-----------------------------------------------------------------------------
(* Linked lists                                                            *)

\* One step along the pointers f, which may also lead out of the nodes N.
Onward(N, f, s) == s \cup ({f[m] : m \in s} \cap N)

\* The nodes that the pointers reach from the node a.
Reached(N, f, a) ==
    LET r[i \in 0 .. Cardinality(N)] ==
            IF i = 0 THEN {a} \cap N ELSE Onward(N, f, r[i-1])
    IN  r[Cardinality(N)]

\* A walk along the pointers does not leave the set, but for the end of the list.
NoWayOut(N, f, s) == \A m \in s : f[m] \in N => f[m] \in s

\* A walk is made of as many steps as there are nodes.
LEMMA ReachedSteps ==
    ASSUME NEW N, IsFiniteSet(N), NEW f, NEW a \in N
    PROVE  \E r : /\ r[0] = {a}
                  /\ \A i \in 1 .. Cardinality(N) : r[i] = Onward(N, f, r[i-1])
                  /\ Reached(N, f, a) = r[Cardinality(N)]
  <1>. DEFINE n == Cardinality(N)
              S == SUBSET N
              r[i \in 0..n] == IF i = 0 THEN {a} \cap N ELSE Onward(N, f, r[i-1])
              G == [s \in S |-> Onward(N, f, s)]
  <1>1. {a} \in S /\ {a} \cap N = {a} /\ G \in [S -> S] /\ n \in Nat
    BY FS_CardinalityType, ZenonT(30) DEF Onward
  <1>2. Reached(N, f, a) = r[n]
    BY ZenonT(30) DEF Reached
  <1>. HIDE DEF S, n
  <1>3. PICK g \in [0..n -> S] : Iterates(g, n, {a}, G)
    BY <1>1, IterationExists, ZenonT(30)
  <1>4. ASSUME NEW i \in 1..n PROVE g[i] = Onward(N, f, g[i-1])
    <2>1. i - 1 \in 0..n /\ g[i - 1] \in S
      BY <1>1
    <2>. QED BY <1>3, <2>1, ZenonT(30) DEF Iterates
  <1>5. g = [i \in 0..n |-> IF i = 0 THEN {a} \cap N ELSE Onward(N, f, g[i-1])]
    BY <1>1, <1>3, <1>4 DEF Iterates
  <1>6. r = [i \in 0..n |-> IF i = 0 THEN {a} \cap N ELSE Onward(N, f, r[i-1])]
    BY <1>5, ZenonT(30)
  <1>. HIDE DEF r
  <1>7. r[0] = {a} /\ \A i \in 1..n : r[i] = Onward(N, f, r[i-1])
    <2>1. 0 \in 0..n /\ \A i \in 1..n : i \in 0..n /\ i # 0
      BY <1>1
    <2>. QED BY <1>1, <1>6, <2>1, ZenonT(30)
  <1>. QED BY <1>2, <1>7, ZenonT(30) DEF n

\* Each step of a walk either reaches a further node or has reached them all.
LEMMA ReachedClosed ==
    ASSUME NEW N, IsFiniteSet(N), NEW f, NEW a \in N
    PROVE  /\ Reached(N, f, a) \in SUBSET N /\ a \in Reached(N, f, a)
           /\ NoWayOut(N, f, Reached(N, f, a))
  <1>. DEFINE n == Cardinality(N)
  <1>0. n \in Nat
    BY FS_CardinalityType, ZenonT(30)
  <1>1. PICK r : /\ r[0] = {a} /\ \A i \in 1..n : r[i] = Onward(N, f, r[i-1])
                 /\ Reached(N, f, a) = r[n]
    BY ReachedSteps
  <1>. HIDE DEF n
  <1>. DEFINE Good(s, i) == s \in SUBSET N /\ a \in s /\ (NoWayOut(N, f, s) \/ Cardinality(s) > i)
              M == {i \in Nat : i <= n => Good(r[i], i)}
  <1>2. 0 \in M
    <2>1. Cardinality({a}) = 1
      BY FS_Singleton, ZenonT(30)
    <2>. QED BY <1>1, <2>1
  <1>3. ASSUME NEW i \in Nat, i \in M PROVE i + 1 \in M
    <2>. SUFFICES ASSUME i + 1 <= n PROVE Good(r[i+1], i + 1)
      OBVIOUS
    <2>1. Good(r[i], i) /\ r[i+1] = Onward(N, f, r[i])
      BY <1>0, <1>1, <1>3
    <2>2. r[i+1] \in SUBSET N /\ a \in r[i+1] /\ r[i] \subseteq r[i+1]
      BY <2>1, ZenonT(30) DEF Onward
    <2>3. CASE NoWayOut(N, f, r[i])
      <3>1. r[i+1] = r[i]
        BY <2>1, <2>3, ZenonT(30) DEF Onward, NoWayOut
      <3>. QED BY <2>1, <2>3, <3>1, ZenonT(30)
    <2>4. CASE ~NoWayOut(N, f, r[i])
      <3>1. PICK m \in r[i] : f[m] \in N /\ f[m] \notin r[i]
        BY <2>4, ZenonT(30) DEF NoWayOut
      <3>2. f[m] \in r[i+1]
        BY <2>1, <3>1, ZenonT(30) DEF Onward
      <3>3. IsFiniteSet(r[i+1]) /\ IsFiniteSet(r[i])
        BY <2>1, <2>2, FS_Subset, ZenonT(30)
      <3>4. /\ Cardinality(r[i]) <= Cardinality(r[i+1])
            /\ Cardinality(r[i]) = Cardinality(r[i+1]) => r[i] = r[i+1]
        BY <2>2, <3>3, FS_Subset, ZenonT(30)
      <3>5. Cardinality(r[i]) \in Nat /\ Cardinality(r[i+1]) \in Nat /\ Cardinality(r[i]) > i
        BY <2>1, <2>4, <3>3, FS_CardinalityType, ZenonT(30)
      <3>6. Cardinality(r[i+1]) > i + 1
        BY <3>1, <3>2, <3>4, <3>5
      <3>. QED BY <2>2, <3>6, ZenonT(30)
    <2>. QED BY <2>3, <2>4, ZenonT(30)
  <1>. HIDE DEF M
  <1>4. n \in M
    BY <1>0, <1>2, <1>3, SetInduction, ZenonT(30)
  <1>5. Good(r[n], n)
    BY <1>0, <1>4 DEF M
  <1>6. Cardinality(r[n]) <= n
    BY <1>5, FS_Subset, ZenonT(30) DEF n
  <1>7. Cardinality(r[n]) \in Nat
    BY <1>5, FS_Subset, FS_CardinalityType, ZenonT(30)
  <1>. QED BY <1>0, <1>1, <1>5, <1>6, <1>7

\* A walk does not leave a closed set.
LEMMA ReachedWithin ==
    ASSUME NEW N, IsFiniteSet(N), NEW f, NEW a \in N, NEW L \in SUBSET N, a \in L,
           NoWayOut(N, f, L)
    PROVE  Reached(N, f, a) \subseteq L
  <1>. DEFINE n == Cardinality(N)
  <1>0. n \in Nat
    BY FS_CardinalityType, ZenonT(30)
  <1>1. PICK r : /\ r[0] = {a} /\ \A i \in 1..n : r[i] = Onward(N, f, r[i-1])
                 /\ Reached(N, f, a) = r[n]
    BY ReachedSteps
  <1>. HIDE DEF n
  <1>. DEFINE M == {i \in Nat : i <= n => r[i] \subseteq L}
  <1>2. 0 \in M
    BY <1>1, ZenonT(30)
  <1>3. ASSUME NEW i \in Nat, i \in M PROVE i + 1 \in M
    <2>. SUFFICES ASSUME i + 1 <= n PROVE r[i+1] \subseteq L
      OBVIOUS
    <2>1. r[i] \subseteq L /\ r[i+1] = Onward(N, f, r[i])
      BY <1>0, <1>1, <1>3
    <2>. QED BY <2>1, ZenonT(30) DEF Onward, NoWayOut
  <1>. HIDE DEF M
  <1>4. n \in M
    BY <1>0, <1>2, <1>3, SetInduction, ZenonT(30)
  <1>. QED BY <1>0, <1>1, <1>4 DEF M

\* The pointers make one chain of the nodes L, which begins at a: they do not leave L
\* but at its end, no two lead to the same node, none leads back to a, and no part of L
\* that has a is closed but L itself.
Chain(N, f, L, a) ==
    /\ L \in SUBSET N /\ a \in L /\ NoWayOut(N, f, L)
    /\ \A x \in L : f[x] # a
    /\ \A x, y \in L : f[x] \in N /\ f[x] = f[y] => x = y
    /\ \A S \in SUBSET L : a \in S /\ NoWayOut(N, f, S) => S = L

\* A walk along a chain meets all of its nodes.
LEMMA ChainReached ==
    ASSUME NEW N, IsFiniteSet(N), NEW f, NEW L, NEW a, Chain(N, f, L, a)
    PROVE  Reached(N, f, a) = L
  <1>1. L \in SUBSET N /\ a \in N /\ a \in L /\ NoWayOut(N, f, L)
    BY ZenonT(30) DEF Chain
  <1>2. Reached(N, f, a) \in SUBSET L
    BY <1>1, ReachedWithin, ZenonT(30)
  <1>3. a \in Reached(N, f, a) /\ NoWayOut(N, f, Reached(N, f, a))
    BY <1>1, ReachedClosed, ZenonT(30)
  <1>. QED BY <1>2, <1>3, ZenonT(30) DEF Chain

\* Every node of a chain but the first has a predecessor.
LEMMA ChainPredecessor ==
    ASSUME NEW N, NEW f, NEW L, NEW a, Chain(N, f, L, a), NEW x \in L, x # a
    PROVE  \E p \in L : f[p] = x
  <1>. SUFFICES ASSUME \A p \in L : f[p] # x PROVE FALSE
    OBVIOUS
  <1>1. L \ {x} \in SUBSET L /\ a \in L \ {x} /\ NoWayOut(N, f, L \ {x})
    BY ZenonT(30) DEF Chain, NoWayOut
  <1>2. L \ {x} = L
    BY <1>1, ZenonT(30) DEF Chain
  <1>. QED BY <1>2, ZenonT(30)

\* No node of a chain is its own successor.
LEMMA ChainSelfLess ==
    ASSUME NEW N, NEW f, NEW L, NEW a, Chain(N, f, L, a), NEW x \in L
    PROVE  f[x] # x
  <1>. SUFFICES ASSUME f[x] = x PROVE FALSE
    OBVIOUS
  <1>1. x # a /\ x \in N
    BY ZenonT(30) DEF Chain
  <1>2. \A m \in L : f[m] = x => m = x
    BY <1>1, ZenonT(30) DEF Chain
  <1>3. L \ {x} \in SUBSET L /\ a \in L \ {x} /\ NoWayOut(N, f, L \ {x})
    BY <1>1, <1>2, ZenonT(30) DEF Chain, NoWayOut
  <1>4. L \ {x} = L
    BY <1>3, ZenonT(30) DEF Chain
  <1>. QED BY <1>4, ZenonT(30)

\* What the pointers are that lead out of the nodes does not matter.
LEMMA ChainSame ==
    ASSUME NEW N, NEW f, NEW L, NEW a, Chain(N, f, L, a), NEW g,
           \A x \in L : f[x] \in N \/ g[x] \in N => g[x] = f[x]
    PROVE  Chain(N, g, L, a)
  <1>1. \A S \in SUBSET L : NoWayOut(N, g, S) <=> NoWayOut(N, f, S)
    BY ZenonT(30) DEF NoWayOut
  <1>2. \A x \in L : g[x] # a
    <2>1. a \in N /\ \A x \in L : f[x] # a
      BY ZenonT(30) DEF Chain
    <2>. QED BY <2>1, ZenonT(30)
  <1>3. \A x, y \in L : g[x] \in N /\ g[x] = g[y] => x = y
    BY ZenonT(30) DEF Chain
  <1>. QED BY <1>1, <1>2, <1>3, ZenonT(30) DEF Chain

\* A node is put behind another one and takes over its pointer; behind the last one, only
\* that it has no successor matters.
LEMMA ChainInsert ==
    ASSUME NEW N, NEW f, NEW L, NEW a, Chain(N, f, L, a), NEW g,
           NEW z \in L, NEW c \in N, c \notin L, g[z] = c,
           f[z] \in N \/ g[c] \in N => g[c] = f[z],
           \A x \in L : x # z => g[x] = f[x]
    PROVE  Chain(N, g, L \cup {c}, a)
  <1>. DEFINE K == L \cup {c}
  <1>0. \A x \in L : f[x] # c /\ f[x] # a
    BY ZenonT(30) DEF Chain, NoWayOut
  <1>1. K \in SUBSET N /\ a \in K /\ NoWayOut(N, g, K)
    BY ZenonT(30) DEF Chain, NoWayOut
  <1>2. \A x \in K : g[x] # a
    BY <1>0, ZenonT(30) DEF Chain
  <1>3. ASSUME NEW x \in K, NEW y \in K, g[x] \in N, g[x] = g[y] PROVE x = y
    <2>1. CASE x = z
      BY <1>0, <1>3, <2>1, ZenonT(30)
    <2>2. CASE y = z
      BY <1>0, <1>3, <2>2, ZenonT(30)
    <2>3. CASE x # z /\ y # z
      BY <1>3, <2>3, ZenonT(30) DEF Chain
    <2>. QED BY <2>1, <2>2, <2>3, ZenonT(30)
  <1>4. ASSUME NEW S \in SUBSET K, a \in S, NoWayOut(N, g, S) PROVE S = K
    <2>1. z \in S => c \in S /\ (f[z] \in N => f[z] \in S)
      BY <1>4, ZenonT(30) DEF NoWayOut
    <2>2. NoWayOut(N, f, S \cap L)
      BY <1>4, <2>1, ZenonT(30) DEF Chain, NoWayOut
    <2>3. S \cap L = L
      <3>1. S \cap L \in SUBSET L /\ a \in S \cap L
        BY <1>4, ZenonT(30) DEF Chain
      <3>. QED BY <2>2, <3>1, ZenonT(30) DEF Chain
    <2>. QED BY <2>1, <2>3, ZenonT(30)
  <1>. QED BY <1>1, <1>2, <1>3, <1>4, ZenonT(30) DEF Chain

\* A chain without one of its nodes, but for the first, is a chain when the predecessor
\* of the node takes over its pointer.
LEMMA ChainUnlink ==
    ASSUME NEW N, NEW f, NEW L, NEW a, Chain(N, f, L, a), NEW g, NEW x \in L, x # a,
           \A p \in L : p # x => g[p] = IF f[p] = x THEN f[x] ELSE f[p]
    PROVE  Chain(N, g, L \ {x}, a)
  <1>. DEFINE K == L \ {x}
  <1>1. PICK p \in L : f[p] = x
    BY ChainPredecessor
  <1>2. f[x] # x /\ x \in N /\ p # x
    <2>1. f[x] # x
      BY ChainSelfLess
    <2>. QED BY <1>1, <2>1, ZenonT(30) DEF Chain
  <1>3. \A q \in L : f[q] = x => q = p
    BY <1>1, <1>2, ZenonT(30) DEF Chain
  <1>4. g[p] = f[x] /\ \A q \in K : q # p => g[q] = f[q]
    BY <1>1, <1>2, <1>3, ZenonT(30)
  <1>5. K \in SUBSET N /\ a \in K
    BY ZenonT(30) DEF Chain
  <1>6. NoWayOut(N, g, K)
    <2>1. \A q \in L : f[q] \in N => f[q] \in L
      BY ZenonT(30) DEF Chain, NoWayOut
    <2>2. g[p] \in N => g[p] \in K
      BY <1>2, <1>4, <2>1, ZenonT(30)
    <2>3. ASSUME NEW q \in K, q # p, g[q] \in N PROVE g[q] \in K
      BY <1>3, <1>4, <2>1, <2>3, ZenonT(30)
    <2>. QED BY <2>2, <2>3, ZenonT(30) DEF NoWayOut
  <1>7. \A q \in K : g[q] # a
    BY <1>4, ZenonT(30) DEF Chain
  <1>8. \A q, r \in K : g[q] \in N /\ g[q] = g[r] => q = r
    <2>1. \A q \in K : f[q] \in N => f[q] # f[x]
      BY ZenonT(30) DEF Chain
    <2>. QED BY <1>4, <2>1, ZenonT(30) DEF Chain
  <1>9. ASSUME NEW S \in SUBSET K, a \in S, NoWayOut(N, g, S) PROVE S = K
    <2>1. CASE p \in S
      <3>1. NoWayOut(N, f, S \cup {x})
        BY <1>1, <1>2, <1>4, <1>9, <2>1, ZenonT(30) DEF NoWayOut
      <3>2. S \cup {x} = L
        <4>1. S \cup {x} \in SUBSET L /\ a \in S \cup {x}
          BY <1>9, ZenonT(30)
        <4>. QED BY <3>1, <4>1, ZenonT(30) DEF Chain
      <3>. QED BY <3>2, <1>9, ZenonT(30)
    <2>2. CASE p \notin S
      <3>1. NoWayOut(N, f, S)
        BY <1>4, <1>9, <2>2, ZenonT(30) DEF NoWayOut
      <3>2. S = L
        BY <1>9, <3>1, ZenonT(30) DEF Chain
      <3>. QED BY <3>2, <1>9, ZenonT(30)
    <2>. QED BY <2>1, <2>2, ZenonT(30)
  <1>. QED BY <1>5, <1>6, <1>7, <1>8, <1>9, ZenonT(30) DEF Chain
=============================================================================
