----------------------------- MODULE TlvTreeProofs -----------------------------
(***************************************************************************)
(* Proofs about TlvTree, for any variables, elements and items.            *)
(*                                                                         *)
(* The invariant, Forest, says of lists and pointers together what OneOwner*)
(* says of one node: a list names elements that are alive and have the node*)
(* for their parent, each once; an element is in the list of its parent;   *)
(* and going up ends (Rooted).  What a node owns and the tree at a node are*)
(* recursive functions over the lists; that they are what they say, and all*)
(* that is said of them, comes from induction from the leaves (FromLeaves).*)
(* A copy is a loop of calls, and GraftInv is its invariant.               *)
(***************************************************************************)
EXTENDS TlvTree, SetInduction, SequenceTheorems

(* What a pointer to a parent may be *)
Above == Addresses \union {Null}

(* Going up the pointers ends *)
Rooted(p) ==
  \A S \in SUBSET Addresses : S # {} => \E x \in S : p[x] \notin S

(* Every list names the children by the pointers they have. *)
PointedUp(c, p) ==
  \A m \in Addresses : \A i \in DOMAIN c[m] : p[c[m][i]] = m

(* There are finitely many addresses, and Null is none. *)
LEMMA AddressFacts ==
  /\ IsFiniteSet(Addresses) /\ Cardinality(Addresses) \in Nat
  /\ IsFiniteSet(Cells) /\ Cardinality(Cells) \in Nat
  /\ Null \notin Addresses /\ Null \notin Locals /\ Null \notin Cells
  /\ Locals \intersect Cells = {}
BY AddressAssumption, FS_Union, FS_CardinalityType DEF Addresses

(* What no family of sets can do without growing to all addresses: a       *)
(* member that lacks some can be given one more.                           *)
LEMMA Exhaust ==
  ASSUME NEW F \in SUBSET (SUBSET Addresses), {} \in F,
         \A D \in F : D # Addresses => \E m \in Addresses \ D : D \union {m} \in F
  PROVE  Addresses \in F
<1> DEFINE Counts == {Cardinality(Addresses \ D) : D \in F}
<1>1. ASSUME NEW D \in F
      PROVE  IsFiniteSet(Addresses \ D) /\ Cardinality(Addresses \ D) \in Nat
  BY AddressFacts, FS_Subset, FS_CardinalityType
<1>2. Counts \in SUBSET Nat /\ Counts # {}
  <2>1. ASSUME NEW x \in Counts PROVE x \in Nat
    <3>1. PICK D \in F : x = Cardinality(Addresses \ D)
      OBVIOUS
    <3> QED
      BY <1>1, <3>1
  <2>2. Cardinality(Addresses \ {}) \in Counts
    OBVIOUS
  <2> QED
    BY <2>1, <2>2
<1> HIDE DEF Counts
<1>3. PICK k \in Counts : \A i \in Counts : k <= i
  BY <1>2, LeastElement
<1>4. PICK D \in F : k = Cardinality(Addresses \ D)
  BY <1>3 DEF Counts
<1>5. ASSUME D # Addresses PROVE FALSE
  <2>1. PICK m \in Addresses \ D : D \union {m} \in F
    BY <1>5
  <2>2. Addresses \ (D \union {m}) = (Addresses \ D) \ {m}
    OBVIOUS
  <2> DEFINE rest == Addresses \ D
             less == Cardinality(Addresses \ (D \union {m}))
  <2>3. less = k - 1
    <3>1. less = Cardinality(rest \ {m}) /\ m \in rest
      BY <2>2
    <3>2. IsFiniteSet(rest) /\ k = Cardinality(rest)
      BY <1>1, <1>4
    <3> HIDE DEF less, rest
    <3> QED
      BY <3>1, <3>2, FS_RemoveElement
  <2>4. less \in Counts
    BY <2>1 DEF Counts
  <2>5. k \in Nat
    BY <1>2
  <2> HIDE DEF less
  <2> QED
    BY <1>3, <2>3, <2>4, <2>5
<1> QED
  BY <1>5

(* Induction from the leaves: what a node has when all of its children     *)
(* have it, every node has.                                                *)
LEMMA FromLeaves ==
  ASSUME NEW c \in [Addresses -> Seq(Addresses)], NEW p, Rooted(p),
         PointedUp(c, p), NEW P,
         \A m \in Addresses : (\A i \in DOMAIN c[m] : c[m][i] \in P) => m \in P
  PROVE  Addresses \subseteq P
<1> DEFINE N == Addresses \ P
<1> SUFFICES ASSUME N # {} PROVE FALSE
  OBVIOUS
<1>1. PICK top \in N : p[top] \notin N
  BY DEF Rooted
<1>2. \A m \in N : \E k \in N : p[k] = m
  <2> SUFFICES ASSUME NEW m \in N PROVE \E k \in N : p[k] = m
    OBVIOUS
  <2>1. PICK i \in DOMAIN c[m] : c[m][i] \notin P
    OBVIOUS
  <2>2. c[m] \in Seq(Addresses)
    OBVIOUS
  <2>3. c[m][i] \in Addresses
    BY <2>2, LenProperties, ElementOfSeq
  <2> QED
    BY <2>1, <2>3 DEF PointedUp
<1> DEFINE choice(m) == CHOOSE k \in N : p[k] = m
           kid == [m \in N |-> choice(m)]
<1>3. \A m \in N : choice(m) \in N \ {top} /\ p[choice(m)] = m
  BY <1>1, <1>2
<1> HIDE DEF choice
<1>4. kid \in [N -> N \ {top}] /\ \A m \in N : p[kid[m]] = m
  BY <1>3
<1>5. IsFiniteSet(N)
  BY AddressFacts, FS_Subset
<1>6. /\ IsFiniteSet(N \ {top}) /\ Cardinality(N) \in Nat
      /\ Cardinality(N \ {top}) = Cardinality(N) - 1
  BY <1>5, FS_RemoveElement, FS_CardinalityType
<1> HIDE DEF kid, N
<1>7. \E x, y \in N : x # y /\ kid[x] = kid[y]
  <2>1. Cardinality(N \ {top}) < Cardinality(N)
    BY <1>6
  <2> QED
    BY <1>4, <1>5, <1>6, <2>1, FS_PigeonHole
<1> QED
  BY <1>4, <1>7
-----------------------------------------------------------------------------
(* The nodes that a walk down the lists has finished *)
ClosedDown(c, D) == \A m \in D : \A i \in DOMAIN c[m] : c[m][i] \in D

(* As long as some node is missing, one is whose children are all there.   *)
LEMMA NextDown ==
  ASSUME NEW c \in [Addresses -> Seq(Addresses)], NEW p, Rooted(p),
         PointedUp(c, p), NEW D \in SUBSET Addresses, D # Addresses
  PROVE  \E m \in Addresses \ D : \A i \in DOMAIN c[m] : c[m][i] \in D
<1> SUFFICES ASSUME \A m \in Addresses :
                      (\A i \in DOMAIN c[m] : c[m][i] \in D) => m \in D
             PROVE  FALSE
  OBVIOUS
<1>1. Addresses \subseteq D
  BY FromLeaves
<1> QED
  BY <1>1

(* What a node owns is a function of the lists. *)
LEMMA OwnedUnfolds ==
  ASSUME NEW h, NEW p, h.children \in [Addresses -> Seq(Addresses)], Rooted(p),
         PointedUp(h.children, p), NEW n \in Addresses
  PROVE  Owned(h, n) =
           {n} \union UNION {Owned(h, kid) : kid \in Range(h.children[n])}
<1> DEFINE c == h.children
           Eq(f, D) == f = [m \in D |->
                         {m} \union UNION {f[kid] : kid \in Range(c[m])}]
           F == {D \in SUBSET Addresses : ClosedDown(c, D) /\ \E f : Eq(f, D)}
<1>1. {} \in F
  <2>1. Eq([m \in {} |-> {}], {})
    OBVIOUS
  <2> QED
    BY <2>1 DEF ClosedDown
<1>2. ASSUME NEW D \in F, D # Addresses
      PROVE  \E m \in Addresses \ D : D \union {m} \in F
  <2>1. PICK m \in Addresses \ D : \A i \in DOMAIN c[m] : c[m][i] \in D
    BY <1>2, NextDown
  <2>2. PICK f : Eq(f, D)
    OBVIOUS
  <2> DEFINE E == D \union {m}
             new == {m} \union UNION {f[kid] : kid \in Range(c[m])}
             g == [x \in E |-> IF x = m THEN new ELSE f[x]]
  <2>3. ClosedDown(c, D)
    OBVIOUS
  <2>4. \A x \in E : \A kid \in Range(c[x]) : kid \in D /\ g[kid] = f[kid]
    BY <2>1, <2>3 DEF ClosedDown, Range
  <2>5. ASSUME NEW x \in E
        PROVE  g[x] = {x} \union UNION {g[kid] : kid \in Range(c[x])}
    <3>1. {g[kid] : kid \in Range(c[x])} = {f[kid] : kid \in Range(c[x])}
      BY <2>4
    <3>2. CASE x = m
      <4>1. g[x] = new
        BY <3>2
      <4> QED
        BY <3>1, <3>2, <4>1
    <3>3. CASE x # m
      <4>1. x \in D /\ g[x] = f[x]
        BY <3>3
      <4>2. f[x] = {x} \union UNION {f[kid] : kid \in Range(c[x])}
        BY <2>2, <4>1
      <4> QED
        BY <3>1, <4>1, <4>2
    <3> QED
      BY <3>2, <3>3
  <2>6. Eq(g, E)
    <3> DEFINE val(x) == {x} \union UNION {g[kid] : kid \in Range(c[x])}
    <3>1. \A x \in E : g[x] = val(x)
      BY <2>5
    <3>2. g = [x \in E |-> g[x]]
      OBVIOUS
    <3> HIDE DEF g, val
    <3>3. [x \in E |-> g[x]] = [x \in E |-> val(x)]
      BY <3>1
    <3>4. g = [x \in E |-> val(x)]
      BY <3>2, <3>3
    <3> QED
      BY <3>4 DEF val
  <2>7. ClosedDown(c, E)
    BY <2>1, <2>3 DEF ClosedDown
  <2> HIDE DEF Eq, g
  <2>8. E \in F
    BY <2>6, <2>7
  <2> QED
    BY <2>8
<1>3. Addresses \in F
  <2> HIDE DEF F
  <2>1. F \in SUBSET (SUBSET Addresses)
    BY DEF F
  <2> QED
    BY <1>1, <1>2, <2>1, Exhaust
<1>4. PICK f0 : Eq(f0, Addresses)
  BY <1>3
<1> DEFINE f == CHOOSE f : Eq(f, Addresses)
<1>5. Eq(f, Addresses)
  <2> HIDE DEF Eq
  <2> QED
    BY <1>4
<1>6. \A m \in Addresses : Owned(h, m) = f[m]
  BY DEF Owned
<1>7. f[n] = {n} \union UNION {f[kid] : kid \in Range(c[n])}
  <2> HIDE DEF f
  <2> QED
    BY <1>5
<1>8. \A kid \in Range(c[n]) : kid \in Addresses
  <2>1. c[n] \in Seq(Addresses)
    OBVIOUS
  <2> QED
    BY <2>1, RangeOfSeq
<1>9. {f[kid] : kid \in Range(c[n])} = {Owned(h, kid) : kid \in Range(c[n])}
  <2> HIDE DEF f
  <2> QED
    BY <1>6, <1>8
<1> QED
  BY <1>6, <1>7, <1>9

(* The tree at a node is a function of the lists and the items. *)
LEMMA TreeUnfolds ==
  ASSUME NEW h, NEW p, h.children \in [Addresses -> Seq(Addresses)], Rooted(p),
         PointedUp(h.children, p), NEW n \in Addresses
  PROVE  TreeIn(h, n) =
           [tag |-> h.item[n].tag, value |-> h.item[n].value,
            kids |-> [i \in DOMAIN h.children[n] |-> TreeIn(h, h.children[n][i])]]
<1> DEFINE c == h.children
           node(f, m) == [tag |-> h.item[m].tag, value |-> h.item[m].value,
                          kids |-> [i \in DOMAIN c[m] |-> f[c[m][i]]]]
           Eq(f, D) == f = [m \in D |-> node(f, m)]
           F == {D \in SUBSET Addresses : ClosedDown(c, D) /\ \E f : Eq(f, D)}
<1>0. \A f, g, m : (\A i \in DOMAIN c[m] : f[c[m][i]] = g[c[m][i]])
                      => node(f, m) = node(g, m)
  <2> SUFFICES ASSUME NEW f, NEW g, NEW m,
                      \A i \in DOMAIN c[m] : f[c[m][i]] = g[c[m][i]]
               PROVE  node(f, m) = node(g, m)
    BY Zenon
  <2>1. [i \in DOMAIN c[m] |-> f[c[m][i]]] = [i \in DOMAIN c[m] |-> g[c[m][i]]]
    OBVIOUS
  <2> QED
    BY <2>1, Zenon
<1>1. {} \in F
  <2>1. Eq([m \in {} |-> {}], {})
    OBVIOUS
  <2> QED
    BY <2>1 DEF ClosedDown
<1>2. ASSUME NEW D \in F, D # Addresses
      PROVE  \E m \in Addresses \ D : D \union {m} \in F
  <2>1. PICK m \in Addresses \ D : \A i \in DOMAIN c[m] : c[m][i] \in D
    BY <1>2, NextDown
  <2>2. PICK f : Eq(f, D)
    OBVIOUS
  <2> DEFINE E == D \union {m}
             g == [x \in E |-> IF x = m THEN node(f, m) ELSE f[x]]
  <2>3. ClosedDown(c, D)
    OBVIOUS
  <2>4. \A x \in E : \A i \in DOMAIN c[x] : c[x][i] \in D /\ c[x][i] # m
    BY <2>1, <2>3 DEF ClosedDown
  <2>5. ASSUME NEW x \in E
        PROVE  g[x] = node(f, x) /\ node(g, x) = node(f, x)
    <3>1. \A i \in DOMAIN c[x] : g[c[x][i]] = f[c[x][i]]
      <4> HIDE DEF node
      <4> QED
        BY <2>4
    <3>2. g[x] = node(f, x)
      <4> HIDE DEF node
      <4>1. \A y \in D : f[y] = node(f, y)
        BY <2>2
      <4> QED
        BY <4>1
    <3> HIDE DEF node, g
    <3> QED
      BY <1>0, <3>1, <3>2
  <2>6. Eq(g, E)
    <3> HIDE DEF node
    <3>1. \A x \in E : g[x] = node(g, x)
      BY <2>5
    <3>2. g = [x \in E |-> g[x]]
      OBVIOUS
    <3> HIDE DEF g
    <3>3. [x \in E |-> g[x]] = [x \in E |-> node(g, x)]
      BY <3>1
    <3> QED
      BY <3>2, <3>3
  <2>7. ClosedDown(c, E)
    BY <2>1, <2>3 DEF ClosedDown
  <2> HIDE DEF Eq, g
  <2>8. E \in F
    BY <2>6, <2>7
  <2> QED
    BY <2>8
<1>3. Addresses \in F
  <2> HIDE DEF F
  <2>1. F \in SUBSET (SUBSET Addresses)
    BY DEF F
  <2> QED
    BY <1>1, <1>2, <2>1, Exhaust
<1>4. PICK f0 : Eq(f0, Addresses)
  BY <1>3
<1> DEFINE f == CHOOSE f : Eq(f, Addresses)
<1>5. Eq(f, Addresses)
  <2> HIDE DEF Eq
  <2> QED
    BY <1>4
<1>6. \A m \in Addresses : TreeIn(h, m) = f[m]
  BY DEF TreeIn
<1>7. f[n] = node(f, n)
  <2> HIDE DEF f, node
  <2> QED
    BY <1>5
<1>8. \A i \in DOMAIN c[n] : c[n][i] \in Addresses
  <2>1. c[n] \in Seq(Addresses)
    OBVIOUS
  <2> QED
    BY <2>1, ElementOfSeq, LenProperties
<1>9. [i \in DOMAIN c[n] |-> f[c[n][i]]]
        = [i \in DOMAIN c[n] |-> TreeIn(h, c[n][i])]
  <2> HIDE DEF f
  <2> QED
    BY <1>6, <1>8
<1> QED
  BY <1>6, <1>7, <1>9

(* What is above a node is a function of the pointers. *)
LEMMA AncestorsUnfold ==
  ASSUME NEW h, h.parent \in [Addresses -> Above], Rooted(h.parent),
         NEW n \in Addresses
  PROVE  AncestorsIn(h, n) =
           IF h.parent[n] = Null THEN {}
           ELSE {h.parent[n]} \union AncestorsIn(h, h.parent[n])
<1> DEFINE p == h.parent
           Eq(f, D) == f = [m \in D |-> IF p[m] = Null THEN {}
                                        ELSE {p[m]} \union f[p[m]]]
           Closed(D) == \A m \in D : p[m] # Null => p[m] \in D
           F == {D \in SUBSET Addresses : Closed(D) /\ \E f : Eq(f, D)}
<1>1. {} \in F
  <2>1. Eq([m \in {} |-> {}], {})
    OBVIOUS
  <2> QED
    BY <2>1
<1>2. ASSUME NEW D \in F, D # Addresses
      PROVE  \E m \in Addresses \ D : D \union {m} \in F
  <2>1. PICK m \in Addresses \ D : p[m] \notin Addresses \ D
    BY <1>2 DEF Rooted
  <2>2. p[m] = Null \/ p[m] \in D
    BY <2>1 DEF Above
  <2>3. PICK f : Eq(f, D)
    OBVIOUS
  <2> DEFINE E == D \union {m}
             g == [x \in E |-> IF x = m THEN IF p[m] = Null THEN {}
                                             ELSE {p[m]} \union f[p[m]]
                               ELSE f[x]]
  <2>4. \A x \in E : p[x] = Null \/ (p[x] \in D /\ p[x] # m)
    <3>1. Closed(D)
      OBVIOUS
    <3> QED
      BY <2>2, <3>1
  <2>5. \A x \in E : g[x] = IF p[x] = Null THEN {} ELSE {p[x]} \union g[p[x]]
    BY <2>3, <2>4
  <2>6. Eq(g, E)
    BY <2>5
  <2>7. Closed(E)
    BY <2>4
  <2> HIDE DEF Eq, g
  <2>8. E \in F
    BY <2>6, <2>7
  <2> QED
    BY <2>8
<1>3. Addresses \in F
  <2> HIDE DEF F
  <2>1. F \in SUBSET (SUBSET Addresses)
    BY DEF F
  <2> QED
    BY <1>1, <1>2, <2>1, Exhaust
<1>4. PICK f0 : Eq(f0, Addresses)
  BY <1>3
<1> DEFINE f == CHOOSE f : Eq(f, Addresses)
<1>5. Eq(f, Addresses)
  <2> HIDE DEF Eq
  <2> QED
    BY <1>4
<1>6. \A m \in Addresses : AncestorsIn(h, m) = f[m]
  BY DEF AncestorsIn
<1>7. f[n] = IF p[n] = Null THEN {} ELSE {p[n]} \union f[p[n]]
  <2> HIDE DEF f
  <2> QED
    BY <1>5
<1>8. p[n] = Null \/ p[n] \in Addresses
  BY DEF Above
<1> QED
  BY <1>6, <1>7, <1>8
-----------------------------------------------------------------------------
(* A node owns itself, and with a node its children.  Whatever set holds   *)
(* the node and the children of its members holds all that it owns.        *)
LEMMA OwnedFacts ==
  ASSUME NEW h, NEW p, h.children \in [Addresses -> Seq(Addresses)], Rooted(p),
         PointedUp(h.children, p), NEW n \in Addresses
  PROVE  /\ n \in Owned(h, n) /\ Owned(h, n) \subseteq Addresses
         /\ \A m \in Owned(h, n) : \A i \in DOMAIN h.children[m] :
              h.children[m][i] \in Owned(h, n)
         /\ \A S : n \in S /\ ClosedDown(h.children, S) => Owned(h, n) \subseteq S
         /\ \A m \in Owned(h, n) : m = n \/ p[m] \in Owned(h, n)
<1> DEFINE c == h.children
<1> DEFINE O == [m \in Addresses |-> Owned(h, m)]
<1>1. \A m \in Addresses :
        /\ O[m] = {m} \union UNION {O[kid] : kid \in Range(c[m])}
        /\ \A i \in DOMAIN c[m] : c[m][i] \in Addresses
  <2> SUFFICES ASSUME NEW m \in Addresses
               PROVE  /\ O[m] = {m} \union UNION {O[kid] : kid \in Range(c[m])}
                      /\ \A i \in DOMAIN c[m] : c[m][i] \in Addresses
    OBVIOUS
  <2>1. c[m] \in Seq(Addresses)
    OBVIOUS
  <2>2. \A i \in DOMAIN c[m] : c[m][i] \in Addresses
    BY <2>1, ElementOfSeq, LenProperties
  <2>3. Owned(h, m) =
          {m} \union UNION {Owned(h, kid) : kid \in Range(c[m])}
    BY OwnedUnfolds
  <2>4. {Owned(h, kid) : kid \in Range(c[m])} = {O[kid] : kid \in Range(c[m])}
    BY <2>2 DEF Range
  <2> QED
    BY <2>2, <2>3, <2>4
<1>2. O[n] = Owned(h, n)
  OBVIOUS
<1> HIDE DEF O
<1>3. \A m \in Addresses : \A x :
        x \in O[m] <=> x = m \/ \E i \in DOMAIN c[m] : x \in O[c[m][i]]
  <2> SUFFICES ASSUME NEW m \in Addresses, NEW x
               PROVE  x \in O[m] <=>
                        x = m \/ \E i \in DOMAIN c[m] : x \in O[c[m][i]]
    OBVIOUS
  <2>1. x \in O[m] <=> x = m \/ \E kid \in Range(c[m]) : x \in O[kid]
    BY <1>1
  <2> QED
    BY <2>1 DEF Range
<1>4. \A m \in Addresses : O[m] \subseteq Addresses
  <2> DEFINE P == {m \in Addresses : O[m] \subseteq Addresses}
  <2>1. ASSUME NEW m \in Addresses, \A i \in DOMAIN c[m] : c[m][i] \in P
        PROVE  m \in P
    <3>1. ASSUME NEW x \in O[m] PROVE x \in Addresses
      <4>1. x = m \/ \E i \in DOMAIN c[m] : x \in O[c[m][i]]
        BY <1>3
      <4> QED
        BY <2>1, <4>1
    <3> QED
      BY <3>1
  <2> HIDE DEF P
  <2>2. Addresses \subseteq P
    BY <2>1, FromLeaves
  <2> QED
    BY <2>2 DEF P
<1>5. \A m \in Addresses : m \in O[m]
  BY <1>3
<1>6. \A m \in Addresses : \A x \in O[m] : \A i \in DOMAIN c[x] : c[x][i] \in O[m]
  <2> DEFINE Good(m) == \A x \in O[m] : \A i \in DOMAIN c[x] : c[x][i] \in O[m]
             P == {m \in Addresses : Good(m)}
  <2>1. ASSUME NEW m \in Addresses, \A i \in DOMAIN c[m] : c[m][i] \in P
        PROVE  m \in P
    <3>1. ASSUME NEW x \in O[m], NEW i \in DOMAIN c[x] PROVE c[x][i] \in O[m]
      <4>1. CASE x = m
        BY <1>1, <1>3, <1>5, <4>1
      <4>2. CASE x # m
        <5>1. PICK j \in DOMAIN c[m] : x \in O[c[m][j]]
          BY <1>3, <4>2
        <5>2. c[x][i] \in O[c[m][j]]
          BY <2>1, <5>1
        <5> QED
          BY <1>3, <5>1, <5>2
      <4> QED
        BY <4>1, <4>2
    <3> QED
      BY <3>1
  <2> HIDE DEF P
  <2>2. Addresses \subseteq P
    BY <2>1, FromLeaves
  <2> QED
    BY <2>2 DEF P
<1>7. ASSUME NEW S, ClosedDown(c, S)
      PROVE  \A m \in Addresses : m \in S => O[m] \subseteq S
  <2> DEFINE P == {m \in Addresses : m \in S => O[m] \subseteq S}
  <2>1. ASSUME NEW m \in Addresses, \A i \in DOMAIN c[m] : c[m][i] \in P
        PROVE  m \in P
    BY <1>3, <1>4, <1>7, <2>1 DEF ClosedDown
  <2> HIDE DEF P
  <2>2. Addresses \subseteq P
    BY <2>1, FromLeaves
  <2> QED
    BY <2>2 DEF P
<1>8. \A m \in O[n] : m = n \/ p[m] \in O[n]
  <2> DEFINE S == {m \in O[n] : m = n \/ p[m] \in O[n]}
  <2>1. n \in S
    BY <1>5
  <2>2. ClosedDown(c, S)
    BY <1>4, <1>6 DEF ClosedDown, PointedUp
  <2>3. O[n] \subseteq S
    BY <1>7, <2>1, <2>2
  <2> QED
    BY <2>3
<1> QED
  BY <1>2, <1>4, <1>5, <1>6, <1>7, <1>8

(* What is above a node: its parent, and what is above that.               *)
LEMMA AncestorFacts ==
  ASSUME NEW h, h.parent \in [Addresses -> Above], Rooted(h.parent),
         NEW n \in Addresses
  PROVE  /\ AncestorsIn(h, n) \subseteq Addresses
         /\ h.parent[n] = Null => AncestorsIn(h, n) = {}
         /\ h.parent[n] # Null =>
              AncestorsIn(h, n) = {h.parent[n]} \union AncestorsIn(h, h.parent[n])
         /\ n \notin AncestorsIn(h, n)
         /\ \A x \in AncestorsIn(h, n) :
              h.parent[x] # Null => h.parent[x] \in AncestorsIn(h, n)
<1> DEFINE p == h.parent
           A == [m \in Addresses |-> AncestorsIn(h, m)]
<1>1. \A m \in Addresses :
        /\ A[m] = IF p[m] = Null THEN {} ELSE {p[m]} \union A[p[m]]
        /\ p[m] # Null => p[m] \in Addresses
  BY AncestorsUnfold DEF Above
<1>2. /\ A[n] = AncestorsIn(h, n)
      /\ p[n] # Null => A[p[n]] = AncestorsIn(h, p[n])
  BY <1>1
<1> HIDE DEF A
<1>3. \A m \in Addresses : A[m] \subseteq Addresses
  <2> DEFINE S == {m \in Addresses : ~ A[m] \subseteq Addresses}
  <2>1. ASSUME S # {} PROVE FALSE
    <3>1. PICK x \in S : p[x] \notin S
      BY <2>1 DEF Rooted
    <3> QED
      BY <1>1, <3>1
  <2> QED
    BY <2>1
<1>4. \A a, x \in Addresses : x \in A[a] /\ p[x] # Null => p[x] \in A[a]
  <2> DEFINE Bad == {a \in Addresses :
                       \E x \in Addresses :
                         x \in A[a] /\ p[x] # Null /\ p[x] \notin A[a]}
  <2>1. ASSUME Bad # {} PROVE FALSE
    <3>1. PICK a \in Bad : p[a] \notin Bad
      BY <2>1 DEF Rooted
    <3>2. PICK x \in Addresses : x \in A[a] /\ p[x] # Null /\ p[x] \notin A[a]
      BY <3>1
    <3>3. p[a] # Null /\ A[a] = {p[a]} \union A[p[a]] /\ p[a] \in Addresses
      BY <1>1, <3>2
    <3>4. x \notin A[p[a]]
      BY <3>1, <3>2, <3>3
    <3>5. x = p[a]
      BY <3>2, <3>3, <3>4
    <3>6. p[x] \in A[x]
      BY <1>1, <3>2
    <3> QED
      BY <3>2, <3>3, <3>5, <3>6
  <2> QED
    BY <2>1
<1>5. \A m \in Addresses : m \notin A[m]
  <2> SUFFICES ASSUME NEW m \in Addresses, m \in A[m] PROVE FALSE
    OBVIOUS
  <2> DEFINE S == {x \in Addresses : m \in A[x] /\ (x = m \/ x \in A[m])}
  <2>1. ASSUME NEW x \in S PROVE p[x] \in S
    <3>1. p[x] # Null /\ p[x] \in Addresses /\ (m = p[x] \/ m \in A[p[x]])
      BY <1>1
    <3>2. p[x] \in A[m]
      <4>1. CASE x = m
        BY <1>1, <3>1, <4>1
      <4>2. CASE x \in A[m]
        BY <1>4, <3>1, <4>2
      <4> QED
        BY <4>1, <4>2
    <3> QED
      BY <3>1, <3>2
  <2>2. m \in S
    OBVIOUS
  <2> HIDE DEF S
  <2>3. S \subseteq Addresses
    BY DEF S
  <2> QED
    BY <2>1, <2>2, <2>3 DEF Rooted
<1>6. /\ A[n] = IF p[n] = Null THEN {} ELSE {p[n]} \union A[p[n]]
      /\ A[n] \subseteq Addresses /\ n \notin A[n]
  BY <1>1, <1>3, <1>5
<1>7. \A x \in A[n] : p[x] # Null => p[x] \in A[n]
  BY <1>3, <1>4
<1> QED
  BY <1>2, <1>6, <1>7
-----------------------------------------------------------------------------
(* What the heap consists of *)
AllItems == Items \union {NoItem}
Heaps == [alive : SUBSET Addresses, parent : [Addresses -> Above],
          item : [Addresses -> AllItems],
          children : [Addresses -> Seq(Addresses)]]

(* The parts of the invariant.  R are nodes that hang in no list any more  *)
(* and are about to be destroyed.                                          *)
Bare(h) ==
  \A m \in Addresses \ h.alive :
    h.parent[m] = Null /\ h.item[m] = NoItem /\ h.children[m] = <<>>
VariablesFree(h) == \A m \in Locals : h.parent[m] = Null
Attached(h, R) == (h.alive \intersect Cells) \ R
Listed(h, R) ==
  \A m \in Addresses : \A i \in DOMAIN h.children[m] :
    h.children[m][i] \in Attached(h, R)
Distinct(h) ==
  \A m \in Addresses : \A i, j \in DOMAIN h.children[m] :
    h.children[m][i] = h.children[m][j] => i = j
Hanging(h, R) ==
  \A k \in Attached(h, R) :
    /\ h.parent[k] \in h.alive
    /\ \E i \in DOMAIN h.children[h.parent[k]] : h.children[h.parent[k]][i] = k

ForestBut(h, R) ==
  /\ h \in Heaps /\ Bare(h) /\ VariablesFree(h)
  /\ Listed(h, R) /\ PointedUp(h.children, h.parent) /\ Distinct(h)
  /\ Hanging(h, R) /\ Rooted(h.parent)
Forest(h) == ForestBut(h, {})

(* What Listed and the rest say of one node and one list *)
LEMMA ForestFacts ==
  ASSUME NEW h, NEW R, ForestBut(h, R)
  PROVE  /\ h.alive \subseteq Addresses
         /\ h.parent \in [Addresses -> Above] /\ h.item \in [Addresses -> AllItems]
         /\ h.children \in [Addresses -> Seq(Addresses)]
         /\ Rooted(h.parent) /\ PointedUp(h.children, h.parent)
         /\ \A m \in Addresses :
              /\ h.children[m] \in Seq(Addresses)
              /\ DOMAIN h.children[m] = 1..Len(h.children[m])
              /\ Len(h.children[m]) \in Nat
              /\ m \notin h.alive =>
                   h.parent[m] = Null /\ h.item[m] = NoItem /\ h.children[m] = <<>>
              /\ \A i \in DOMAIN h.children[m] :
                   /\ h.children[m][i] \in Addresses
                   /\ h.children[m][i] \in h.alive /\ h.children[m][i] \in Cells
                   /\ h.children[m][i] \notin R
                   /\ h.parent[h.children[m][i]] = m
<1>1. ASSUME NEW m \in Addresses
      PROVE  /\ h.children[m] \in Seq(Addresses)
             /\ DOMAIN h.children[m] = 1..Len(h.children[m])
             /\ Len(h.children[m]) \in Nat
  <2>1. h.children[m] \in Seq(Addresses)
    BY DEF ForestBut, Heaps
  <2> QED
    BY <2>1, LenProperties
<1>2. ASSUME NEW m \in Addresses, NEW i \in DOMAIN h.children[m]
      PROVE  /\ h.children[m][i] \in Addresses
             /\ h.children[m][i] \in h.alive /\ h.children[m][i] \in Cells
             /\ h.children[m][i] \notin R /\ h.parent[h.children[m][i]] = m
  BY DEF ForestBut, Heaps, Listed, Attached, PointedUp, Addresses
<1>3. \A m \in Addresses : m \notin h.alive =>
        h.parent[m] = Null /\ h.item[m] = NoItem /\ h.children[m] = <<>>
  BY DEF ForestBut, Bare
<1>4. /\ h.alive \subseteq Addresses
      /\ h.parent \in [Addresses -> Above] /\ h.item \in [Addresses -> AllItems]
      /\ h.children \in [Addresses -> Seq(Addresses)]
      /\ Rooted(h.parent) /\ PointedUp(h.children, h.parent)
  BY DEF ForestBut, Heaps
<1> QED
  BY <1>1, <1>2, <1>3, <1>4

(* What a node of a forest owns *)
LEMMA ForestOwned ==
  ASSUME NEW h, NEW R, ForestBut(h, R), NEW n \in Addresses
  PROVE  /\ n \in Owned(h, n) /\ Owned(h, n) \subseteq Addresses
         /\ \A m \in Owned(h, n) : \A i \in DOMAIN h.children[m] :
              h.children[m][i] \in Owned(h, n)
         /\ \A S : n \in S /\ ClosedDown(h.children, S) => Owned(h, n) \subseteq S
         /\ \A m \in Owned(h, n) : m = n \/ h.parent[m] \in Owned(h, n)
<1> DEFINE p == h.parent
<1>1. /\ h.children \in [Addresses -> Seq(Addresses)] /\ Rooted(p)
      /\ PointedUp(h.children, p)
  BY ForestFacts
<1> HIDE DEF p
<1>2. /\ n \in Owned(h, n) /\ Owned(h, n) \subseteq Addresses
      /\ \A m \in Owned(h, n) : \A i \in DOMAIN h.children[m] :
           h.children[m][i] \in Owned(h, n)
      /\ \A S : n \in S /\ ClosedDown(h.children, S) => Owned(h, n) \subseteq S
      /\ \A m \in Owned(h, n) : m = n \/ p[m] \in Owned(h, n)
  BY <1>1, OwnedFacts
<1> QED
  BY <1>2 DEF p

(* In a forest every element has one owner. *)
LEMMA ForestOneOwner ==
  ASSUME Forest(heap)
  PROVE  OneOwner
<1> DEFINE h == heap
<1>0. ForestBut(h, {})
  BY DEF Forest
<1>1. ASSUME NEW n \in h.alive \intersect Cells
      PROVE  /\ h.parent[n] \in h.alive
             /\ \A m \in Addresses : n \in Range(h.children[m]) => m = h.parent[n]
             /\ Cardinality({i \in DOMAIN h.children[h.parent[n]] :
                               h.children[h.parent[n]][i] = n}) = 1
  <2>1. /\ h.parent[n] \in h.alive
        /\ \E i \in DOMAIN h.children[h.parent[n]] : h.children[h.parent[n]][i] = n
    BY <1>0 DEF ForestBut, Hanging, Attached
  <2>2. h.parent[n] \in Addresses
    BY <1>0, <2>1, ForestFacts
  <2>3. \A m \in Addresses : n \in Range(h.children[m]) => m = h.parent[n]
    BY <1>0 DEF ForestBut, PointedUp, Range
  <2>4. PICK i \in DOMAIN h.children[h.parent[n]] : h.children[h.parent[n]][i] = n
    BY <2>1
  <2>5. {j \in DOMAIN h.children[h.parent[n]] : h.children[h.parent[n]][j] = n} = {i}
    BY <1>0, <2>2, <2>4 DEF ForestBut, Distinct
  <2> QED
    BY <2>1, <2>3, <2>5, FS_Singleton
<1>2. ASSUME NEW n \in h.alive
      PROVE  \E l \in Locals \intersect h.alive : n \in Owned(h, l)
  <2> DEFINE U == {x \in h.alive :
                     \A l \in Locals \intersect h.alive : x \notin Owned(h, l)}
  <2>1. ASSUME n \in U PROVE FALSE
    <3>1. U \in SUBSET Addresses
      BY <1>0, ForestFacts
    <3>2. PICK x \in U : h.parent[x] \notin U
      <4>1. Rooted(h.parent)
        BY <1>0 DEF ForestBut
      <4>2. U # {}
        BY <2>1
      <4> HIDE DEF U
      <4> QED
        BY <3>1, <4>1, <4>2 DEF Rooted
    <3>3. \A y \in Addresses :
            /\ y \in Owned(h, y)
            /\ \A m \in Owned(h, y) : \A i \in DOMAIN h.children[m] :
                 h.children[m][i] \in Owned(h, y)
      BY <1>0, ForestOwned
    <3>4. x \notin Locals /\ x \in Addresses
      BY <3>1, <3>3
    <3>5. /\ h.parent[x] \in h.alive
          /\ \E i \in DOMAIN h.children[h.parent[x]] :
               h.children[h.parent[x]][i] = x
      BY <1>0, <3>4 DEF ForestBut, Hanging, Attached, Addresses
    <3>6. PICK l \in Locals \intersect h.alive : h.parent[x] \in Owned(h, l)
      BY <3>2, <3>5
    <3>7. x \in Owned(h, l)
      BY <3>3, <3>5, <3>6 DEF Addresses
    <3> QED
      BY <3>6, <3>7
  <2> QED
    BY <2>1
<1>3. \A n \in Addresses \ h.alive :
        h.parent[n] = Null /\ h.item[n] = NoItem /\ h.children[n] = <<>>
  BY <1>0, ForestFacts
<1>4. \A n \in Locals : h.parent[n] = Null
  BY <1>0 DEF ForestBut, VariablesFree
<1> QED
  BY <1>1, <1>2, <1>3, <1>4, Zenon DEF OneOwner, Addresses
-----------------------------------------------------------------------------
(* Without elements there is a forest. *)
LEMMA InitForest ==
  ASSUME Init
  PROVE  Forest(heap)
<1>1. /\ heap.alive = {} /\ heap.parent = [n \in Addresses |-> Null]
      /\ heap.item = [n \in Addresses |-> NoItem]
      /\ heap.children = [n \in Addresses |-> <<>>]
  BY DEF Init
<1>2. heap \in Heaps
  <2>1. <<>> \in Seq(Addresses)
    OBVIOUS
  <2> QED
    BY <2>1 DEF Init, Heaps, AllItems, Above
<1>3. \A m \in Addresses : DOMAIN heap.children[m] = {}
  BY <1>1
<1>4. Rooted(heap.parent)
  BY <1>1, AddressFacts DEF Rooted
<1> QED
  BY <1>1, <1>2, <1>3, <1>4
     DEF Forest, ForestBut, Bare, VariablesFree, Listed, PointedUp, Distinct,
         Hanging, Attached, Addresses

(* What is destroyed with some nodes *)
Gone(h, R) == UNION {Owned(h, n) : n \in R}

(* All of what is owned goes, and nothing else: a node that stays lists    *)
(* nothing that goes.                                                      *)
LEMMA GoneFacts ==
  ASSUME NEW h, NEW R, ForestBut(h, R), R \subseteq Addresses
  PROVE  /\ R \subseteq Gone(h, R) /\ Gone(h, R) \subseteq Addresses
         /\ \A m \in Gone(h, R) : \A i \in DOMAIN h.children[m] :
              h.children[m][i] \in Gone(h, R)
         /\ \A m \in Gone(h, R) : m \in R \/ h.parent[m] \in Gone(h, R)
         /\ \A m \in Addresses : \A i \in DOMAIN h.children[m] :
              h.children[m][i] \in Gone(h, R) => m \in Gone(h, R)
<1>1. \A n \in R : /\ n \in Owned(h, n) /\ Owned(h, n) \subseteq Addresses
                   /\ \A m \in Owned(h, n) : \A i \in DOMAIN h.children[m] :
                        h.children[m][i] \in Owned(h, n)
                   /\ \A m \in Owned(h, n) : m = n \/ h.parent[m] \in Owned(h, n)
  BY ForestOwned
<1>2. \A m : m \in Gone(h, R) <=> \E n \in R : m \in Owned(h, n)
  BY DEF Gone
<1>3. \A m \in Gone(h, R) : m \in R \/ h.parent[m] \in Gone(h, R)
  BY <1>1, <1>2
<1>4. \A m \in Addresses : \A i \in DOMAIN h.children[m] :
        h.children[m][i] \in Gone(h, R) => m \in Gone(h, R)
  <2> SUFFICES ASSUME NEW m \in Addresses, NEW i \in DOMAIN h.children[m],
                      h.children[m][i] \in Gone(h, R)
               PROVE  m \in Gone(h, R)
    OBVIOUS
  <2>1. h.children[m][i] \notin R /\ h.parent[h.children[m][i]] = m
    BY ForestFacts
  <2> QED
    BY <1>3, <2>1
<1> QED
  BY <1>1, <1>2, <1>3, <1>4

(* Destroying nodes that hang in no list leaves a forest. *)
LEMMA DestroyKeeps ==
  ASSUME NEW h, NEW R, ForestBut(h, R), R \subseteq h.alive
  PROVE  Forest(Destroy(h, R))
<1> DEFINE G == Gone(h, R)
           g == Destroy(h, R)
<1>1. /\ g.alive = h.alive \ G
      /\ g.parent = [n \in Addresses |-> IF n \in G THEN Null ELSE h.parent[n]]
      /\ g.item = [n \in Addresses |-> IF n \in G THEN NoItem ELSE h.item[n]]
      /\ g.children = [n \in Addresses |-> IF n \in G THEN <<>> ELSE h.children[n]]
      /\ g \in [alive : {g.alive}, parent : {g.parent}, item : {g.item},
                children : {g.children}]
  BY DEF Destroy, Gone
<1>2. /\ h.alive \subseteq Addresses /\ h.parent \in [Addresses -> Above]
      /\ h.item \in [Addresses -> AllItems]
      /\ h.children \in [Addresses -> Seq(Addresses)]
  BY ForestFacts
<1>3. /\ R \subseteq G /\ G \subseteq Addresses
      /\ \A m \in G : \A i \in DOMAIN h.children[m] : h.children[m][i] \in G
      /\ \A m \in Addresses : \A i \in DOMAIN h.children[m] :
           h.children[m][i] \in G => m \in G
  BY <1>2, GoneFacts
<1> HIDE DEF g, G
<1>4. g \in Heaps
  <2>1. g.alive \in SUBSET Addresses
    BY <1>1, <1>2
  <2>2. g.parent \in [Addresses -> Above]
    BY <1>1, <1>2 DEF Above
  <2>3. g.item \in [Addresses -> AllItems]
    BY <1>1, <1>2 DEF AllItems
  <2>4. g.children \in [Addresses -> Seq(Addresses)]
    <3>1. <<>> \in Seq(Addresses)
      OBVIOUS
    <3> QED
      BY <1>1, <1>2, <3>1
  <2> QED
    BY <1>1, <2>1, <2>2, <2>3, <2>4 DEF Heaps
<1>5. \A m \in Addresses :
        /\ m \in G => g.parent[m] = Null /\ g.item[m] = NoItem /\ g.children[m] = <<>>
        /\ m \notin G => /\ g.parent[m] = h.parent[m] /\ g.item[m] = h.item[m]
                         /\ g.children[m] = h.children[m]
  BY <1>1
<1>6. Bare(g)
  BY <1>1, <1>5 DEF Bare, ForestBut
<1>7. VariablesFree(g)
  BY <1>5 DEF VariablesFree, ForestBut, Addresses
<1>8. \A m \in Addresses : \A i \in DOMAIN g.children[m] :
        /\ m \notin G /\ g.children[m] = h.children[m] /\ i \in DOMAIN h.children[m]
        /\ h.children[m][i] \notin G
  <2>1. DOMAIN <<>> = {}
    OBVIOUS
  <2> QED
    BY <1>3, <1>5, <2>1
<1>9. Listed(g, {}) /\ PointedUp(g.children, g.parent)
  <2> SUFFICES ASSUME NEW m \in Addresses, NEW i \in DOMAIN g.children[m]
               PROVE  /\ g.children[m][i] \in Attached(g, {})
                      /\ g.parent[g.children[m][i]] = m
    BY DEF Listed, PointedUp
  <2>1. /\ m \notin G /\ g.children[m] = h.children[m] /\ i \in DOMAIN h.children[m]
        /\ h.children[m][i] \notin G
    BY <1>8
  <2>2. /\ h.children[m][i] \in h.alive /\ h.children[m][i] \in Cells
        /\ h.parent[h.children[m][i]] = m /\ h.children[m][i] \in Addresses
    BY <2>1, ForestFacts
  <2> QED
    BY <1>1, <1>5, <2>1, <2>2 DEF Attached
<1>10. Distinct(g)
  BY <1>8 DEF Distinct, ForestBut
<1>11. Hanging(g, {})
  <2> SUFFICES ASSUME NEW k \in Attached(g, {})
               PROVE  /\ g.parent[k] \in g.alive
                      /\ \E i \in DOMAIN g.children[g.parent[k]] :
                           g.children[g.parent[k]][i] = k
    BY DEF Hanging
  <2>1. k \in Attached(h, R) /\ k \notin G /\ k \in Addresses
    BY <1>1, <1>3 DEF Attached, Addresses
  <2>2. /\ h.parent[k] \in h.alive
        /\ \E i \in DOMAIN h.children[h.parent[k]] : h.children[h.parent[k]][i] = k
    BY <2>1 DEF ForestBut, Hanging
  <2>3. h.parent[k] \in Addresses /\ h.parent[k] \notin G
    BY <1>2, <1>3, <2>1, <2>2
  <2> QED
    BY <1>1, <1>5, <2>1, <2>2, <2>3
<1>12. Rooted(g.parent)
  <2> SUFFICES ASSUME NEW S \in SUBSET Addresses, S # {}
               PROVE  \E x \in S : g.parent[x] \notin S
    BY DEF Rooted
  <2>1. PICK x \in S : h.parent[x] \notin S
    BY ForestFacts DEF Rooted
  <2> QED
    BY <1>5, <2>1, AddressFacts
<1> QED
  BY <1>4, <1>6, <1>7, <1>9, <1>10, <1>11, <1>12 DEF Forest, ForestBut, g
-----------------------------------------------------------------------------
(* What add_child makes of h with the element m *)
AddedAs(g, h, n, item, m) ==
  /\ m \in Cells \ h.alive
  /\ g.alive = h.alive \union {m}
  /\ g.parent = [h.parent EXCEPT ![m] = n]
  /\ g.item = [h.item EXCEPT ![m] = item]
  /\ g.children = [h.children EXCEPT ![n] = Append(h.children[n], m)]

(* What add_child does to the fields, with an element that was free        *)
LEMMA AddChildFields ==
  ASSUME NEW h, h \in Heaps, NEW n \in Addresses, NEW item \in AllItems,
         Unused(h) # {}
  PROVE  /\ \E m : AddedAs(add_child(h, n, item), h, n, item, m)
         /\ add_child(h, n, item) \in Heaps
<1> DEFINE m == CHOOSE m \in Unused(h) : TRUE
<1>1. m \in Cells \ h.alive
  BY DEF Unused
<1> DEFINE alive == h.alive \union {m}
           parent == [h.parent EXCEPT ![m] = n]
           itm == [h.item EXCEPT ![m] = item]
           children == [h.children EXCEPT ![n] = Append(h.children[n], m)]
           g == add_child(h, n, item)
<1>2. /\ g.alive = alive /\ g.parent = parent /\ g.item = itm
      /\ g.children = children
      /\ g \in [alive : {g.alive}, parent : {g.parent}, item : {g.item},
                children : {g.children}]
  BY DEF add_child, Heaps
<1>3. /\ h.alive \subseteq Addresses /\ h.parent \in [Addresses -> Above]
      /\ h.item \in [Addresses -> AllItems]
      /\ h.children \in [Addresses -> Seq(Addresses)]
  BY DEF Heaps
<1> HIDE DEF m, g
<1>4. g \in Heaps
  <2>1. m \in Addresses /\ m \in Cells
    BY <1>1 DEF Addresses
  <2>2. alive \in SUBSET Addresses
    BY <1>3, <2>1
  <2>3. parent \in [Addresses -> Above]
    BY <1>3 DEF Above
  <2>4. itm \in [Addresses -> AllItems]
    BY <1>3
  <2>5. children \in [Addresses -> Seq(Addresses)]
    <3>1. Append(h.children[n], m) \in Seq(Addresses)
      BY <1>3, <2>1, AppendProperties
    <3> QED
      BY <1>3, <3>1
  <2> HIDE DEF alive, parent, itm, children
  <2> QED
    BY <1>2, <2>2, <2>3, <2>4, <2>5 DEF Heaps
<1>5. AddedAs(g, h, n, item, m)
  BY <1>1, <1>2 DEF AddedAs
<1> QED
  BY <1>4, <1>5 DEF g

(* A new child keeps the forest. *)
LEMMA AddChildKeeps ==
  ASSUME NEW h, Forest(h), NEW n \in h.alive, NEW item \in AllItems,
         Unused(h) # {}
  PROVE  Forest(add_child(h, n, item))
<1> DEFINE g == add_child(h, n, item)
<1>0. ForestBut(h, {}) /\ h \in Heaps
  BY DEF Forest, ForestBut
<1>1. /\ h.alive \subseteq Addresses /\ h.parent \in [Addresses -> Above]
      /\ h.item \in [Addresses -> AllItems]
      /\ h.children \in [Addresses -> Seq(Addresses)]
      /\ n \in Addresses
  BY <1>0, ForestFacts
<1>14. PICK m : AddedAs(g, h, n, item, m) /\ g \in Heaps
  BY <1>0, <1>1, AddChildFields
<1> HIDE DEF g
<1>2. /\ m \in Cells \ h.alive
      /\ g.alive = h.alive \union {m}
      /\ g.parent = [h.parent EXCEPT ![m] = n]
      /\ g.item = [h.item EXCEPT ![m] = item]
      /\ g.children = [h.children EXCEPT ![n] = Append(h.children[n], m)]
      /\ g \in Heaps
  BY <1>14 DEF AddedAs
<1>3. m \in Addresses /\ m # n /\ m \notin Locals /\ m \in Cells /\ m \notin h.alive
  BY <1>2, AddressFacts DEF Addresses
<1>4. /\ h.children[m] = <<>> /\ h.parent[m] = Null
      /\ \A x \in Addresses : \A i \in DOMAIN h.children[x] : h.children[x][i] # m
  BY <1>0, <1>3, ForestFacts
<1> DEFINE len == Len(h.children[n])
<1>5. /\ len \in Nat /\ DOMAIN h.children[n] = 1..len
      /\ DOMAIN g.children[n] = 1..len + 1
      /\ \A i \in 1..len : g.children[n][i] = h.children[n][i]
      /\ g.children[n][len + 1] = m
  <2>1. h.children[n] \in Seq(Addresses)
    BY <1>1
  <2>2. g.children[n] = Append(h.children[n], m)
    BY <1>1, <1>2
  <2> QED
    BY <1>3, <2>1, <2>2, AppendProperties, LenProperties
<1>6. /\ \A x \in Addresses : x # n => g.children[x] = h.children[x]
      /\ \A x \in Addresses : x # m => /\ g.parent[x] = h.parent[x]
                                       /\ g.item[x] = h.item[x]
      /\ g.parent[m] = n /\ g.item[m] = item
  BY <1>1, <1>2, <1>3
<1> HIDE DEF len
<1>7. \A x \in Addresses : \A i \in DOMAIN g.children[x] :
        \/ x = n /\ i = len + 1 /\ g.children[x][i] = m
        \/ /\ i \in DOMAIN h.children[x] /\ g.children[x][i] = h.children[x][i]
           /\ x = n => i # len + 1
           /\ g.children[x][i] # m
  <2> SUFFICES ASSUME NEW x \in Addresses, NEW i \in DOMAIN g.children[x]
               PROVE
        \/ x = n /\ i = len + 1 /\ g.children[x][i] = m
        \/ /\ i \in DOMAIN h.children[x] /\ g.children[x][i] = h.children[x][i]
           /\ x = n => i # len + 1
           /\ g.children[x][i] # m
    OBVIOUS
  <2>1. CASE x = n
    BY <1>4, <1>5, <2>1
  <2>2. CASE x # n
    BY <1>4, <1>6, <2>2
  <2> QED
    BY <2>1, <2>2
<1>8. Bare(g)
  <2> SUFFICES ASSUME NEW x \in Addresses \ g.alive
               PROVE  g.parent[x] = Null /\ g.item[x] = NoItem /\ g.children[x] = <<>>
    BY DEF Bare
  <2>1. x # m /\ x \notin h.alive /\ x # n
    BY <1>2
  <2> QED
    BY <1>0, <1>6, <2>1, ForestFacts
<1>9. VariablesFree(g)
  BY <1>0, <1>3, <1>6 DEF VariablesFree, ForestBut, Addresses
<1>10. Listed(g, {}) /\ PointedUp(g.children, g.parent)
  <2> SUFFICES ASSUME NEW x \in Addresses, NEW i \in DOMAIN g.children[x]
               PROVE  /\ g.children[x][i] \in Attached(g, {})
                      /\ g.parent[g.children[x][i]] = x
    BY DEF Listed, PointedUp
  <2>1. CASE x = n /\ i = len + 1 /\ g.children[x][i] = m
    BY <1>2, <1>6, <2>1 DEF Attached
  <2>2. CASE /\ i \in DOMAIN h.children[x] /\ g.children[x][i] = h.children[x][i]
             /\ g.children[x][i] # m
    <3>1. /\ h.children[x][i] \in h.alive /\ h.children[x][i] \in Cells
          /\ h.parent[h.children[x][i]] = x /\ h.children[x][i] \in Addresses
      BY <1>0, <2>2, ForestFacts
    <3> QED
      BY <1>2, <1>6, <2>2, <3>1 DEF Attached
  <2> QED
    BY <1>7, <2>1, <2>2
<1>11. Distinct(g)
  <2> SUFFICES ASSUME NEW x \in Addresses, NEW i \in DOMAIN g.children[x],
                      NEW j \in DOMAIN g.children[x],
                      g.children[x][i] = g.children[x][j]
               PROVE  i = j
    BY DEF Distinct
  <2>1. CASE g.children[x][i] = m
    BY <1>7, <2>1
  <2>2. CASE g.children[x][i] # m
    BY <1>0, <1>7, <2>2 DEF ForestBut, Distinct
  <2> QED
    BY <2>1, <2>2
<1>12. Hanging(g, {})
  <2> SUFFICES ASSUME NEW k \in Attached(g, {})
               PROVE  /\ g.parent[k] \in g.alive
                      /\ \E i \in DOMAIN g.children[g.parent[k]] :
                           g.children[g.parent[k]][i] = k
    BY DEF Hanging
  <2>1. CASE k = m
    <3>1. len + 1 \in DOMAIN g.children[n] /\ g.children[n][len + 1] = m
      BY <1>5
    <3> QED
      BY <1>2, <1>6, <2>1, <3>1
  <2>2. CASE k # m
    <3>1. k \in Attached(h, {}) /\ k \in Addresses
      BY <1>2, <2>2 DEF Attached, Addresses
    <3>2. /\ h.parent[k] \in h.alive
          /\ \E i \in DOMAIN h.children[h.parent[k]] : h.children[h.parent[k]][i] = k
      BY <1>0, <3>1 DEF ForestBut, Hanging
    <3>3. g.parent[k] = h.parent[k] /\ h.parent[k] \in Addresses
      BY <1>1, <1>6, <2>2, <3>1, <3>2
    <3>4. \A i \in DOMAIN h.children[h.parent[k]] :
            /\ i \in DOMAIN g.children[h.parent[k]]
            /\ g.children[h.parent[k]][i] = h.children[h.parent[k]][i]
      BY <1>5, <1>6, <3>3
    <3> QED
      BY <1>2, <3>2, <3>3, <3>4
  <2> QED
    BY <2>1, <2>2
<1>13. Rooted(g.parent)
  <2> SUFFICES ASSUME NEW S \in SUBSET Addresses, S # {}
               PROVE  \E x \in S : g.parent[x] \notin S
    BY DEF Rooted
  <2>1. Rooted(h.parent)
    BY <1>0, ForestFacts
  <2>2. CASE m \notin S
    <3>1. PICK x \in S : h.parent[x] \notin S
      BY <2>1 DEF Rooted
    <3> QED
      BY <1>6, <2>2, <3>1
  <2>3. CASE S \ {m} # {}
    <3> DEFINE T == S \ {m}
    <3>1. T \in SUBSET Addresses /\ T # {}
      BY <2>3
    <3> HIDE DEF T
    <3>2. PICK x \in T : h.parent[x] \notin T
      BY <2>1, <3>1 DEF Rooted
    <3>3. x \in Addresses /\ x \in S /\ x # m
      BY <3>2 DEF T
    <3>4. h.parent[x] # m
      <4>1. x \in h.alive => x \in Locals \/ h.parent[x] \in h.alive
        BY <1>0, <3>3 DEF ForestBut, Hanging, Attached, Addresses
      <4>2. x \in Locals \/ x \notin h.alive => h.parent[x] = Null
        BY <1>0, <3>3, ForestFacts DEF ForestBut, VariablesFree
      <4> QED
        BY <1>3, <4>1, <4>2, AddressFacts
    <3> QED
      BY <1>6, <3>2, <3>3, <3>4 DEF T
  <2>4. CASE S = {m}
    BY <1>3, <1>6, <2>4
  <2> QED
    BY <2>2, <2>3, <2>4
<1> QED
  BY <1>2, <1>8, <1>9, <1>10, <1>11, <1>12, <1>13 DEF Forest, ForestBut, g

(* A new variable keeps the forest and has nothing above or below it. *)
LEMMA CreatedKeeps ==
  ASSUME NEW h, Forest(h), NEW l \in Locals, l \notin h.alive,
         NEW item \in AllItems
  PROVE  /\ Forest(Created(h, l, item))
         /\ Created(h, l, item).alive = h.alive \union {l}
         /\ Created(h, l, item).parent = h.parent
         /\ Created(h, l, item).children = h.children
<1> DEFINE g == Created(h, l, item)
<1>0. ForestBut(h, {}) /\ h \in Heaps /\ l \in Addresses
  BY DEF Forest, ForestBut, Addresses
<1>1. /\ g.alive = h.alive \union {l} /\ g.parent = h.parent
      /\ g.item = [h.item EXCEPT ![l] = item] /\ g.children = h.children
      /\ g \in [alive : {g.alive}, parent : {g.parent}, item : {g.item},
                children : {g.children}]
  BY <1>0 DEF Created, Heaps
<1>2. /\ h.alive \subseteq Addresses /\ h.parent \in [Addresses -> Above]
      /\ h.item \in [Addresses -> AllItems]
      /\ h.children \in [Addresses -> Seq(Addresses)]
  BY <1>0, ForestFacts
<1> HIDE DEF g
<1>3. g \in Heaps
  <2>1. g.alive \in SUBSET Addresses
    BY <1>0, <1>1, <1>2
  <2>2. g.item \in [Addresses -> AllItems]
    BY <1>1, <1>2
  <2> QED
    BY <1>1, <1>2, <2>1, <2>2 DEF Heaps
<1>4. Bare(g)
  BY <1>0, <1>1, <1>2 DEF ForestBut, Bare
<1>5. Attached(g, {}) = Attached(h, {})
  BY <1>1, AddressFacts DEF Attached
<1>6. Hanging(g, {})
  BY <1>0, <1>1, <1>5 DEF ForestBut, Hanging
<1>7. Listed(g, {})
  BY <1>0, <1>1, <1>5 DEF ForestBut, Listed
<1>8. VariablesFree(g) /\ PointedUp(g.children, g.parent) /\ Distinct(g)
  BY <1>0, <1>1 DEF ForestBut, VariablesFree, Distinct
<1>9. Rooted(g.parent)
  BY <1>0, <1>1 DEF ForestBut
<1> QED
  BY <1>1, <1>3, <1>4, <1>6, <1>7, <1>8, <1>9 DEF Forest, ForestBut, g

(* A variable hangs in no list: its end leaves a forest. *)
LEMMA EndKeeps ==
  ASSUME NEW h, Forest(h), NEW l \in Locals, l \in h.alive
  PROVE  Forest(Destroy(h, {l}))
<1>1. Attached(h, {l}) = Attached(h, {})
  BY AddressFacts DEF Attached
<1>2. ForestBut(h, {l})
  BY <1>1 DEF Forest, ForestBut, Listed, Hanging
<1> QED
  BY <1>2, DestroyKeeps

(* A sequence without one of its places *)
LEMMA RemoveAtFacts ==
  ASSUME NEW S, NEW s \in Seq(S), NEW i \in 1..Len(s)
  PROVE  /\ RemoveAt(s, i) \in Seq(S)
         /\ Len(RemoveAt(s, i)) = Len(s) - 1
         /\ \A j \in 1..Len(s) - 1 :
              RemoveAt(s, i)[j] = IF j < i THEN s[j] ELSE s[j + 1]
<1> DEFINE a == SubSeq(s, 1, i - 1)
           b == SubSeq(s, i + 1, Len(s))
<1>0. Len(s) \in Nat /\ \A j \in 1..Len(s) : s[j] \in S
  BY ElementOfSeq, LenProperties
<1>1. a \in Seq(S) /\ Len(a) = i - 1 /\ \A j \in 1..i - 1 : a[j] = s[j]
  <2>1. \A j \in 1..i - 1 : s[j] \in S
    BY <1>0
  <2>2. /\ a \in Seq(S) /\ Len(a) = IF 1 <= i - 1 THEN i - 1 - 1 + 1 ELSE 0
        /\ \A j \in 1..i - 1 - 1 + 1 : a[j] = s[1 + j - 1]
    BY <1>0, <2>1, SubSeqProperties
  <2> QED
    BY <1>0, <2>2
<1>2. /\ b \in Seq(S) /\ Len(b) = Len(s) - i
      /\ \A j \in 1..Len(s) - i : b[j] = s[i + j]
  <2>1. \A j \in i + 1..Len(s) : s[j] \in S
    BY <1>0
  <2>2. /\ b \in Seq(S)
        /\ Len(b) = IF i + 1 <= Len(s) THEN Len(s) - (i + 1) + 1 ELSE 0
        /\ \A j \in 1..Len(s) - (i + 1) + 1 : b[j] = s[i + 1 + j - 1]
    BY <1>0, <2>1, SubSeqProperties
  <2> QED
    BY <1>0, <2>2
<1>3. RemoveAt(s, i) = a \o b
  BY DEF RemoveAt
<1> HIDE DEF a, b
<1>4. /\ a \o b \in Seq(S) /\ Len(a \o b) = Len(a) + Len(b)
      /\ \A j \in 1..Len(a) + Len(b) :
           (a \o b)[j] = IF j <= Len(a) THEN a[j] ELSE b[j - Len(a)]
  BY <1>1, <1>2, ConcatProperties
<1>5. Len(a) + Len(b) = Len(s) - 1
  BY <1>0, <1>1, <1>2
<1>6. ASSUME NEW j \in 1..Len(s) - 1
      PROVE  (a \o b)[j] = IF j < i THEN s[j] ELSE s[j + 1]
  <2>1. CASE j < i
    BY <1>0, <1>1, <1>4, <1>5, <2>1
  <2>2. CASE j >= i
    <3>1. (a \o b)[j] = b[j - (i - 1)] /\ j - (i - 1) \in 1..Len(s) - i
      BY <1>0, <1>1, <1>4, <1>5, <2>2
    <3>2. b[j - (i - 1)] = s[i + (j - (i - 1))]
      BY <1>2, <3>1
    <3>3. i + (j - (i - 1)) = j + 1
      BY <1>0
    <3> QED
      BY <2>2, <3>1, <3>2, <3>3
  <2>3. j < i \/ j >= i
    BY <1>0
  <2> QED
    BY <2>1, <2>2, <2>3, Zenon
<1> QED
  BY <1>3, <1>4, <1>5, <1>6
-----------------------------------------------------------------------------
(* A heap in which n does not list the node any more, which still exists   *)
Unhooked(h, n, node) ==
  LET i == CHOOSE i \in DOMAIN h.children[n] : h.children[n][i] = node
  IN  [h EXCEPT !.children[n] = RemoveAt(@, i)]

(* prune takes the node out of the list and destroys it. *)
LEMMA PruneSteps ==
  ASSUME NEW h, NEW n, NEW node
  PROVE  /\ node \notin Range(h.children[n]) => prune(h, n, node) = h
         /\ node \in Range(h.children[n]) =>
              prune(h, n, node) = Destroy(Unhooked(h, n, node), {node})
BY DEF prune, Unhooked

(* The list without the node: its other members in their order, no other   *)
(* list and nothing else is changed.                                       *)
LEMMA UnhookedFields ==
  ASSUME NEW h, h \in Heaps, Distinct(h), NEW n \in Addresses, NEW node,
         node \in Range(h.children[n])
  PROVE  /\ Unhooked(h, n, node) \in Heaps
         /\ Unhooked(h, n, node).alive = h.alive
         /\ Unhooked(h, n, node).parent = h.parent
         /\ Unhooked(h, n, node).item = h.item
         /\ \A m \in Addresses :
              m # n => Unhooked(h, n, node).children[m] = h.children[m]
         /\ \A m \in Addresses : \A i \in DOMAIN Unhooked(h, n, node).children[m] :
              \E j \in DOMAIN h.children[m] :
                /\ Unhooked(h, n, node).children[m][i] = h.children[m][j]
                /\ m = n => h.children[m][j] # node
         /\ \A m \in Addresses : \A j \in DOMAIN h.children[m] :
              h.children[m][j] # node =>
                \E i \in DOMAIN Unhooked(h, n, node).children[m] :
                  Unhooked(h, n, node).children[m][i] = h.children[m][j]
         /\ Distinct(Unhooked(h, n, node))
<1> DEFINE s == h.children[n]
           i0 == CHOOSE i \in DOMAIN h.children[n] : h.children[n][i] = node
           t == RemoveAt(s, i0)
           u == Unhooked(h, n, node)
<1>1. i0 \in DOMAIN s /\ s[i0] = node
  BY DEF Range
<1>2. s \in Seq(Addresses) /\ h.children \in [Addresses -> Seq(Addresses)]
  BY DEF Heaps
<1>3. /\ u.alive = h.alive /\ u.parent = h.parent /\ u.item = h.item
      /\ u.children = [h.children EXCEPT ![n] = t]
      /\ u \in [alive : {u.alive}, parent : {u.parent}, item : {u.item},
                children : {u.children}]
  BY DEF Unhooked, Heaps
<1> HIDE DEF u, i0
<1>4. Len(s) \in Nat /\ DOMAIN s = 1..Len(s) /\ i0 \in 1..Len(s)
  BY <1>1, <1>2, LenProperties
<1>5. /\ t \in Seq(Addresses) /\ Len(t) = Len(s) - 1
      /\ \A j \in 1..Len(s) - 1 : t[j] = IF j < i0 THEN s[j] ELSE s[j + 1]
  BY <1>2, <1>4, RemoveAtFacts
<1>6. DOMAIN t = 1..Len(s) - 1
  BY <1>5, LenProperties
<1>7. \A i, j \in 1..Len(s) : s[i] = s[j] => i = j
  BY <1>4 DEF Distinct
<1>8. \A m \in Addresses : u.children[m] = IF m = n THEN t ELSE h.children[m]
  BY <1>2, <1>3
<1> HIDE DEF t
<1>9. u \in Heaps
  <2>1. u.children \in [Addresses -> Seq(Addresses)]
    BY <1>2, <1>3, <1>5
  <2> QED
    BY <1>3, <2>1 DEF Heaps
<1> HIDE DEF s
<1>10. \A i \in DOMAIN t : \E j \in DOMAIN s : t[i] = s[j] /\ s[j] # node
  <2> SUFFICES ASSUME NEW i \in DOMAIN t
               PROVE  \E j \in DOMAIN s : t[i] = s[j] /\ s[j] # node
    OBVIOUS
  <2>1. CASE i < i0
    <3>1. i \in DOMAIN s /\ t[i] = s[i] /\ s[i] # node
      BY <1>1, <1>4, <1>5, <1>6, <1>7, <2>1
    <3> QED
      BY <3>1
  <2>2. CASE ~ i < i0
    <3>1. i + 1 \in DOMAIN s /\ t[i] = s[i + 1] /\ s[i + 1] # node
      BY <1>1, <1>4, <1>5, <1>6, <1>7, <2>2
    <3> QED
      BY <3>1
  <2> QED
    BY <2>1, <2>2
<1>11. \A j \in DOMAIN s : s[j] # node => \E i \in DOMAIN t : t[i] = s[j]
  <2> SUFFICES ASSUME NEW j \in DOMAIN s, s[j] # node
               PROVE  \E i \in DOMAIN t : t[i] = s[j]
    OBVIOUS
  <2>1. j # i0
    BY <1>1
  <2>2. CASE j < i0
    <3>1. j \in DOMAIN t /\ t[j] = s[j]
      BY <1>4, <1>5, <1>6, <2>2
    <3> QED
      BY <3>1
  <2>3. CASE i0 < j
    <3>1. j - 1 \in DOMAIN t /\ t[j - 1] = s[j]
      BY <1>4, <1>5, <1>6, <2>3
    <3> QED
      BY <3>1
  <2> QED
    BY <1>4, <2>1, <2>2, <2>3
<1>12. \A i, j \in DOMAIN t : t[i] = t[j] => i = j
  BY <1>4, <1>5, <1>6, <1>7
<1>13. Distinct(u)
  BY <1>8, <1>12 DEF Distinct
<1>14. \A m \in Addresses : \A i \in DOMAIN u.children[m] :
         \E j \in DOMAIN h.children[m] :
           /\ u.children[m][i] = h.children[m][j]
           /\ m = n => h.children[m][j] # node
  <2> SUFFICES ASSUME NEW m \in Addresses, NEW i \in DOMAIN u.children[m]
               PROVE  \E j \in DOMAIN h.children[m] :
                        /\ u.children[m][i] = h.children[m][j]
                        /\ m = n => h.children[m][j] # node
    OBVIOUS
  <2>1. CASE m = n
    BY <1>8, <1>10, <2>1 DEF s
  <2>2. CASE m # n
    BY <1>8, <2>2
  <2> QED
    BY <2>1, <2>2
<1>15. \A m \in Addresses : \A j \in DOMAIN h.children[m] :
         h.children[m][j] # node =>
           \E i \in DOMAIN u.children[m] : u.children[m][i] = h.children[m][j]
  <2> SUFFICES ASSUME NEW m \in Addresses, NEW j \in DOMAIN h.children[m],
                      h.children[m][j] # node
               PROVE  \E i \in DOMAIN u.children[m] :
                        u.children[m][i] = h.children[m][j]
    OBVIOUS
  <2>1. CASE m = n
    BY <1>8, <1>11, <2>1 DEF s
  <2>2. CASE m # n
    BY <1>8, <2>2
  <2> QED
    BY <2>1, <2>2
<1>16. \A m \in Addresses : m # n => u.children[m] = h.children[m]
  BY <1>8
<1> QED
  BY <1>3, <1>9, <1>13, <1>14, <1>15, <1>16 DEF u

(* A node that was taken out of its list hangs nowhere. *)
LEMMA UnhookedForest ==
  ASSUME NEW h, Forest(h), NEW n \in Addresses, NEW node,
         node \in Range(h.children[n])
  PROVE  /\ ForestBut(Unhooked(h, n, node), {node})
         /\ node \in h.alive /\ node \in Cells
<1> DEFINE u == Unhooked(h, n, node)
<1>0. ForestBut(h, {}) /\ h \in Heaps /\ Distinct(h)
  BY DEF Forest, ForestBut
<1>1. /\ u \in Heaps /\ u.alive = h.alive /\ u.parent = h.parent /\ u.item = h.item
      /\ Distinct(u)
  BY <1>0, UnhookedFields
<1>2. /\ \A m \in Addresses : m # n => u.children[m] = h.children[m]
      /\ \A m \in Addresses : \A i \in DOMAIN u.children[m] :
           \E j \in DOMAIN h.children[m] :
             /\ u.children[m][i] = h.children[m][j]
             /\ m = n => h.children[m][j] # node
      /\ \A m \in Addresses : \A j \in DOMAIN h.children[m] :
           h.children[m][j] # node =>
             \E i \in DOMAIN u.children[m] : u.children[m][i] = h.children[m][j]
  BY <1>0, UnhookedFields
<1> HIDE DEF u
<1>3. node \in h.alive /\ node \in Cells /\ node \in Addresses /\ h.parent[node] = n
  BY <1>0, ForestFacts DEF Range
<1>4. n \in h.alive
  BY <1>0, <1>3 DEF ForestBut, Hanging, Attached
<1>5. Bare(u)
  BY <1>0, <1>1, <1>2, <1>4 DEF ForestBut, Bare
<1>6. Listed(u, {node}) /\ PointedUp(u.children, u.parent)
  <2> SUFFICES ASSUME NEW m \in Addresses, NEW i \in DOMAIN u.children[m]
               PROVE  /\ u.children[m][i] \in Attached(u, {node})
                      /\ u.parent[u.children[m][i]] = m
    BY DEF Listed, PointedUp
  <2>1. PICK j \in DOMAIN h.children[m] :
          /\ u.children[m][i] = h.children[m][j]
          /\ m = n => h.children[m][j] # node
    BY <1>2
  <2>2. /\ h.children[m][j] \in h.alive /\ h.children[m][j] \in Cells
        /\ h.parent[h.children[m][j]] = m
    BY <1>0, ForestFacts
  <2> QED
    BY <1>1, <1>3, <2>1, <2>2 DEF Attached
<1>7. Hanging(u, {node})
  <2> SUFFICES ASSUME NEW k \in Attached(u, {node})
               PROVE  /\ u.parent[k] \in u.alive
                      /\ \E i \in DOMAIN u.children[u.parent[k]] :
                           u.children[u.parent[k]][i] = k
    BY DEF Hanging
  <2>1. k \in Attached(h, {}) /\ k # node
    BY <1>1 DEF Attached
  <2>2. /\ h.parent[k] \in h.alive
        /\ \E i \in DOMAIN h.children[h.parent[k]] : h.children[h.parent[k]][i] = k
    BY <1>0, <2>1 DEF ForestBut, Hanging
  <2>3. h.parent[k] \in Addresses
    BY <1>0, <2>2, ForestFacts
  <2> QED
    BY <1>1, <1>2, <2>1, <2>2, <2>3
<1>8. VariablesFree(u) /\ Rooted(u.parent)
  BY <1>0, <1>1 DEF ForestBut, VariablesFree
<1> QED
  BY <1>1, <1>3, <1>5, <1>6, <1>7, <1>8 DEF ForestBut, u

(* Pruning leaves a forest. *)
LEMMA PruneKeeps ==
  ASSUME NEW h, Forest(h), NEW n \in Addresses, NEW node
  PROVE  Forest(prune(h, n, node))
<1>1. CASE node \notin Range(h.children[n])
  <2>1. prune(h, n, node) = h
    BY <1>1, PruneSteps
  <2> QED
    BY <2>1
<1>2. CASE node \in Range(h.children[n])
  <2> DEFINE u == Unhooked(h, n, node)
  <2>1. ForestBut(u, {node}) /\ node \in h.alive
    BY <1>2, UnhookedForest
  <2>2. u.alive = h.alive
    BY <1>2, UnhookedFields DEF Forest, ForestBut
  <2>3. prune(h, n, node) = Destroy(u, {node})
    BY <1>2, PruneSteps
  <2> HIDE DEF u
  <2> QED
    BY <2>1, <2>2, <2>3, DestroyKeeps
<1> QED
  BY <1>1, <1>2
-----------------------------------------------------------------------------
(* What a node owns has it for an ancestor. *)
LEMMA OwnedAbove ==
  ASSUME NEW h, NEW R, ForestBut(h, R), NEW o \in Addresses
  PROVE  \A x \in Owned(h, o) : x = o \/ o \in AncestorsIn(h, x)
<1> DEFINE S == {x \in Addresses : x = o \/ o \in AncestorsIn(h, x)}
<1>1. ASSUME NEW m \in S, NEW i \in DOMAIN h.children[m]
      PROVE  h.children[m][i] \in S
  <2> DEFINE k == h.children[m][i]
  <2>1. k \in Addresses /\ h.parent[k] = m
    BY ForestFacts
  <2>2. h.parent \in [Addresses -> Above] /\ Rooted(h.parent)
    BY ForestFacts
  <2> HIDE DEF k
  <2>3. h.parent[k] # Null
    BY <2>1, AddressFacts
  <2>4. AncestorsIn(h, k) = {m} \union AncestorsIn(h, m)
    BY <2>1, <2>2, <2>3, AncestorFacts
  <2>5. k \in S
    BY <2>1, <2>4
  <2> QED
    BY <2>5 DEF k
<1>2. ClosedDown(h.children, S) /\ o \in S
  BY <1>1 DEF ClosedDown
<1> HIDE DEF S
<1>3. Owned(h, o) \subseteq S
  BY <1>2, ForestOwned
<1> QED
  BY <1>3 DEF S

(* The nodes of a move: both exist, and the source is not above the target *)
Movable(h, n, o) ==
  /\ n \in h.alive /\ o \in h.alive /\ n # o /\ o \notin AncestorsIn(h, n)

(* What is above the target of a move is no child of the source. *)
LEMMA AboveTarget ==
  ASSUME NEW h, Forest(h), NEW n, NEW o, Movable(h, n, o)
  PROVE  LET Up == {n} \union AncestorsIn(h, n) IN
         /\ n \in Addresses /\ o \in Addresses
         /\ o \notin Up /\ Up \subseteq Addresses
         /\ \A x \in Up : h.parent[x] # o /\ h.parent[x] # n
         /\ \A x \in Up : h.parent[x] # Null => h.parent[x] \in Up
<1>1. /\ h.parent \in [Addresses -> Above] /\ Rooted(h.parent)
      /\ h.alive \subseteq Addresses
  BY ForestFacts DEF Forest
<1>2. n \in Addresses /\ o \in Addresses /\ o \notin AncestorsIn(h, n) /\ n # o
  BY <1>1 DEF Movable
<1>3. /\ AncestorsIn(h, n) \subseteq Addresses
      /\ h.parent[n] = Null => AncestorsIn(h, n) = {}
      /\ h.parent[n] # Null => h.parent[n] \in AncestorsIn(h, n)
      /\ n \notin AncestorsIn(h, n)
      /\ \A x \in AncestorsIn(h, n) :
           h.parent[x] # Null => h.parent[x] \in AncestorsIn(h, n)
  BY <1>1, <1>2, AncestorFacts
<1> QED
  BY <1>2, <1>3, AddressFacts

(* The heap with the children of o given to n, the old children of n in no *)
(* list, and the pointers right already                                    *)
Given(h, n, o) ==
  [alive |-> h.alive,
   parent |-> [m \in Addresses |->
                 IF m \in Range(h.children[o]) THEN n ELSE h.parent[m]],
   item |-> TakeAll(h, n, o).item,
   children |-> TakeAll(h, n, o).children]

(* A function that is changed at two places keeps its range. *)
LEMMA ChangedTwice ==
  ASSUME NEW A, NEW B, NEW f \in [A -> B], NEW a, NEW b, NEW x \in B, NEW y \in B
  PROVE  [f EXCEPT ![a] = x, ![b] = y] \in [A -> B]
OBVIOUS

(* Its fields *)
LEMMA GivenFields ==
  ASSUME NEW h, Forest(h), NEW n, NEW o, Movable(h, n, o)
  PROVE  /\ Given(h, n, o).alive = h.alive
         /\ Given(h, n, o) \in Heaps
         /\ \A m \in Addresses :
              /\ Given(h, n, o).parent[m] =
                   IF h.parent[m] = o THEN n ELSE h.parent[m]
              /\ Given(h, n, o).item[m] =
                   IF m = n THEN h.item[o] ELSE IF m = o THEN NoItem ELSE h.item[m]
              /\ Given(h, n, o).children[m] =
                   IF m = n THEN h.children[o]
                   ELSE IF m = o THEN <<>> ELSE h.children[m]
<1> DEFINE g == Given(h, n, o)
           t == TakeAll(h, n, o)
<1>0. ForestBut(h, {}) /\ h \in Heaps
  BY DEF Forest, ForestBut
<1>1. /\ h.parent \in [Addresses -> Above] /\ h.item \in [Addresses -> AllItems]
      /\ h.children \in [Addresses -> Seq(Addresses)]
      /\ h.alive \subseteq Addresses
  BY <1>0, ForestFacts
<1>2. n \in Addresses /\ o \in Addresses /\ n # o /\ o \in h.alive
  BY <1>1 DEF Movable
<1>3. /\ t.item = [h.item EXCEPT ![n] = h.item[o], ![o] = NoItem]
      /\ t.children = [h.children EXCEPT ![n] = h.children[o], ![o] = <<>>]
  BY <1>0 DEF TakeAll, Heaps
<1>4. \A m \in Addresses : m \in Range(h.children[o]) <=> h.parent[m] = o
  <2> SUFFICES ASSUME NEW m \in Addresses
               PROVE  m \in Range(h.children[o]) <=> h.parent[m] = o
    OBVIOUS
  <2>1. ASSUME m \in Range(h.children[o]) PROVE h.parent[m] = o
    BY <1>0, <1>2, <2>1, ForestFacts DEF Range
  <2>2. ASSUME h.parent[m] = o PROVE m \in Range(h.children[o])
    <3>1. h.parent[m] # Null
      BY <1>2, <2>2, AddressFacts
    <3>2. m \in h.alive /\ m \notin Locals
      BY <1>0, <3>1, ForestFacts DEF ForestBut, VariablesFree
    <3> QED
      BY <1>0, <2>2, <3>2 DEF ForestBut, Hanging, Attached, Addresses, Range
  <2> QED
    BY <2>1, <2>2
<1>5. /\ g.alive = h.alive /\ g.item = t.item /\ g.children = t.children
      /\ g.parent = [m \in Addresses |->
                       IF m \in Range(h.children[o]) THEN n ELSE h.parent[m]]
      /\ g \in [alive : {g.alive}, parent : {g.parent}, item : {g.item},
                children : {g.children}]
  BY DEF Given
<1> HIDE DEF g, t
<1>6. \A m \in Addresses :
        /\ g.parent[m] = IF h.parent[m] = o THEN n ELSE h.parent[m]
        /\ g.item[m] =
             IF m = n THEN h.item[o] ELSE IF m = o THEN NoItem ELSE h.item[m]
        /\ g.children[m] =
             IF m = n THEN h.children[o]
             ELSE IF m = o THEN <<>> ELSE h.children[m]
  BY <1>1, <1>2, <1>3, <1>4, <1>5
<1>7. g \in Heaps
  <2>1. g.parent \in [Addresses -> Above]
    BY <1>1, <1>2, <1>5 DEF Above
  <2>2. g.item \in [Addresses -> AllItems]
    <3>1. NoItem \in AllItems /\ h.item[o] \in AllItems
      BY <1>1, <1>2 DEF AllItems
    <3>2. [h.item EXCEPT ![n] = h.item[o], ![o] = NoItem] \in [Addresses -> AllItems]
      BY <1>1, <3>1, ChangedTwice, Zenon
    <3> QED
      BY <1>3, <1>5, <3>2
  <2>3. g.children \in [Addresses -> Seq(Addresses)]
    <3>1. <<>> \in Seq(Addresses) /\ h.children[o] \in Seq(Addresses)
      BY <1>1, <1>2
    <3> QED
      BY <1>1, <1>3, <1>5, <3>1, ChangedTwice
  <2> QED
    BY <1>1, <1>5, <2>1, <2>2, <2>3 DEF Heaps
<1> QED
  BY <1>5, <1>6, <1>7 DEF g

(* It is a forest but for the old children of n. *)
LEMMA GivenForest ==
  ASSUME NEW h, Forest(h), NEW n, NEW o, Movable(h, n, o)
  PROVE  ForestBut(Given(h, n, o), Range(h.children[n]))
<1> DEFINE g == Given(h, n, o)
           R == Range(h.children[n])
           Up == {n} \union AncestorsIn(h, n)
<1>0. ForestBut(h, {}) /\ h \in Heaps
  BY DEF Forest, ForestBut
<1>1. /\ n \in Addresses /\ o \in Addresses /\ n # o /\ n \in h.alive
      /\ o \in h.alive /\ Null \notin Addresses
  BY AboveTarget, AddressFacts DEF Movable
<1>2. /\ g.alive = h.alive /\ g \in Heaps
      /\ \A m \in Addresses :
           /\ g.parent[m] = IF h.parent[m] = o THEN n ELSE h.parent[m]
           /\ g.item[m] =
                IF m = n THEN h.item[o] ELSE IF m = o THEN NoItem ELSE h.item[m]
           /\ g.children[m] =
                IF m = n THEN h.children[o]
                ELSE IF m = o THEN <<>> ELSE h.children[m]
  BY GivenFields
<1>3. \A m \in Addresses : \A i \in DOMAIN h.children[m] :
        /\ h.children[m][i] \in Addresses
        /\ h.children[m][i] \in h.alive /\ h.children[m][i] \in Cells
        /\ h.parent[h.children[m][i]] = m
  BY <1>0, ForestFacts
<1>4. \A m \in Addresses : m \in h.alive /\ m \in Cells =>
        /\ h.parent[m] \in h.alive /\ h.parent[m] \in Addresses
        /\ \E i \in DOMAIN h.children[h.parent[m]] : h.children[h.parent[m]][i] = m
  BY <1>0, ForestFacts DEF ForestBut, Hanging, Attached
<1>5. \A m \in Addresses : m \in R <=> h.parent[m] = n
  <2> SUFFICES ASSUME NEW m \in Addresses
               PROVE  m \in R <=> h.parent[m] = n
    OBVIOUS
  <2>1. ASSUME m \in R PROVE h.parent[m] = n
    BY <1>1, <1>3, <2>1 DEF Range
  <2>2. ASSUME h.parent[m] = n PROVE m \in R
    <3>1. h.parent[m] # Null
      BY <1>1, <2>2
    <3>2. m \in h.alive /\ m \notin Locals
      BY <1>0, <3>1, ForestFacts DEF ForestBut, VariablesFree
    <3> QED
      BY <1>4, <2>2, <3>2 DEF Addresses, Range
  <2> QED
    BY <2>1, <2>2
<1> HIDE DEF g, R
<1>6. Bare(g)
  <2> SUFFICES ASSUME NEW m \in Addresses \ g.alive
               PROVE  g.parent[m] = Null /\ g.item[m] = NoItem /\ g.children[m] = <<>>
    BY DEF Bare
  <2>1. m \in Addresses /\ m \notin h.alive /\ m # n /\ m # o
    BY <1>1, <1>2
  <2>2. h.parent[m] = Null /\ h.item[m] = NoItem /\ h.children[m] = <<>>
    BY <1>0, <2>1, ForestFacts
  <2> QED
    BY <1>1, <1>2, <2>1, <2>2
<1>7. VariablesFree(g)
  BY <1>0, <1>1, <1>2 DEF ForestBut, VariablesFree, Addresses
<1>8. \A m \in Addresses : \A i \in DOMAIN g.children[m] :
        \/ m = n /\ i \in DOMAIN h.children[o] /\ g.children[m][i] = h.children[o][i]
        \/ /\ m # n /\ m # o
           /\ i \in DOMAIN h.children[m] /\ g.children[m][i] = h.children[m][i]
  <2>1. DOMAIN <<>> = {}
    OBVIOUS
  <2> QED
    BY <1>1, <1>2, <2>1
<1>9. Listed(g, R) /\ PointedUp(g.children, g.parent)
  <2> SUFFICES ASSUME NEW m \in Addresses, NEW i \in DOMAIN g.children[m]
               PROVE  /\ g.children[m][i] \in Attached(g, R)
                      /\ g.parent[g.children[m][i]] = m
    BY DEF Listed, PointedUp
  <2>1. CASE /\ m = n /\ i \in DOMAIN h.children[o]
             /\ g.children[m][i] = h.children[o][i]
    BY <1>1, <1>2, <1>3, <1>5, <2>1 DEF Attached
  <2>2. CASE /\ m # n /\ m # o
             /\ i \in DOMAIN h.children[m] /\ g.children[m][i] = h.children[m][i]
    BY <1>1, <1>2, <1>3, <1>5, <2>2 DEF Attached
  <2> QED
    BY <1>8, <2>1, <2>2
<1>10. Distinct(g)
  BY <1>0, <1>1, <1>8 DEF ForestBut, Distinct
<1>11. Hanging(g, R)
  <2> SUFFICES ASSUME NEW k \in Attached(g, R)
               PROVE  /\ g.parent[k] \in g.alive
                      /\ \E i \in DOMAIN g.children[g.parent[k]] :
                           g.children[g.parent[k]][i] = k
    BY DEF Hanging
  <2>1. k \in h.alive /\ k \in Cells /\ k \in Addresses /\ h.parent[k] # n
    BY <1>2, <1>5 DEF Attached, Addresses
  <2>2. /\ h.parent[k] \in h.alive /\ h.parent[k] \in Addresses
        /\ \E i \in DOMAIN h.children[h.parent[k]] : h.children[h.parent[k]][i] = k
    BY <1>4, <2>1
  <2>3. CASE h.parent[k] = o
    BY <1>1, <1>2, <2>1, <2>2, <2>3
  <2>4. CASE h.parent[k] # o
    BY <1>1, <1>2, <2>1, <2>2, <2>4
  <2> QED
    BY <2>3, <2>4
<1>12. Rooted(g.parent)
  <2> SUFFICES ASSUME NEW S \in SUBSET Addresses, S # {},
                      \A x \in S : g.parent[x] \in S
               PROVE  FALSE
    BY DEF Rooted
  <2>1. Rooted(h.parent)
    BY <1>0, ForestFacts
  <2>2. CASE n \notin S
    BY <1>2, <2>1, <2>2 DEF Rooted
  <2>3. CASE n \in S
    <3> DEFINE T == S \intersect Up
    <3>1. T \in SUBSET Addresses /\ T # {}
      BY <2>3
    <3>2. \A x \in Up : h.parent[x] # o /\ (h.parent[x] # Null => h.parent[x] \in Up)
      BY AboveTarget
    <3>3. \A x \in T : h.parent[x] \in T
      BY <1>1, <1>2, <3>2
    <3> HIDE DEF T
    <3> QED
      BY <2>1, <3>1, <3>3 DEF Rooted
  <2> QED
    BY <2>2, <2>3
<1> QED
  BY <1>2, <1>6, <1>7, <1>9, <1>10, <1>11, <1>12 DEF ForestBut, g, R
-----------------------------------------------------------------------------
(* Heaps that differ in pointers only own and destroy the same nodes. *)
LEMMA SameListsOwn ==
  ASSUME NEW a, NEW b, a.children = b.children
  PROVE  \A n : Owned(a, n) = Owned(b, n)
BY DEF Owned

(* Heaps that differ at most in pointers to the node o *)
AlikeBut(a, b, n, o) ==
  /\ a.alive = b.alive /\ a.item = b.item /\ a.children = b.children
  /\ a.parent \in [Addresses -> Above] /\ b.parent \in [Addresses -> Above]
  /\ \A m \in Addresses :
       a.parent[m] = b.parent[m] \/ (a.parent[m] = o /\ b.parent[m] = n)

(* Destruction keeps such heaps alike. *)
LEMMA DestroyAlike ==
  ASSUME NEW a, NEW b, NEW n, NEW o, NEW R, AlikeBut(a, b, n, o)
  PROVE  AlikeBut(Destroy(a, R), Destroy(b, R), n, o)
<1>1. a.alive = b.alive /\ a.item = b.item /\ a.children = b.children
  BY DEF AlikeBut
<1>2. UNION {Owned(a, x) : x \in R} = UNION {Owned(b, x) : x \in R}
  BY <1>1, SameListsOwn
<1> DEFINE G == UNION {Owned(b, x) : x \in R}
           p(c) == [x \in Addresses |-> IF x \in G THEN Null ELSE c.parent[x]]
<1>3. /\ Destroy(a, R).alive = a.alive \ G
      /\ Destroy(a, R).item =
           [x \in Addresses |-> IF x \in G THEN NoItem ELSE a.item[x]]
      /\ Destroy(a, R).children =
           [x \in Addresses |-> IF x \in G THEN <<>> ELSE a.children[x]]
      /\ Destroy(a, R).parent = p(a)
  BY <1>2 DEF Destroy
<1>4. /\ Destroy(b, R).alive = b.alive \ G
      /\ Destroy(b, R).item =
           [x \in Addresses |-> IF x \in G THEN NoItem ELSE b.item[x]]
      /\ Destroy(b, R).children =
           [x \in Addresses |-> IF x \in G THEN <<>> ELSE b.children[x]]
      /\ Destroy(b, R).parent = p(b)
  BY DEF Destroy
<1> HIDE DEF G
<1>5. /\ p(a) \in [Addresses -> Above] /\ p(b) \in [Addresses -> Above]
      /\ \A m \in Addresses : p(a)[m] = p(b)[m] \/ (p(a)[m] = o /\ p(b)[m] = n)
  BY DEF AlikeBut, Above
<1> HIDE DEF p
<1> QED
  BY <1>1, <1>3, <1>4, <1>5 DEF AlikeBut

(* And so does pruning. *)
LEMMA PruneAlike ==
  ASSUME NEW a, a \in Heaps, NEW b, b \in Heaps, NEW n, NEW o,
         AlikeBut(a, b, n, o), NEW m, NEW node
  PROVE  AlikeBut(prune(a, m, node), prune(b, m, node), n, o)
<1>1. a.children = b.children
  BY DEF AlikeBut
<1>2. CASE node \notin Range(a.children[m])
  <2>1. prune(a, m, node) = a /\ prune(b, m, node) = b
    BY <1>1, <1>2, PruneSteps
  <2> QED
    BY <2>1
<1>3. CASE node \in Range(a.children[m])
  <2> DEFINE ua == Unhooked(a, m, node)
             ub == Unhooked(b, m, node)
  <2>1. /\ prune(a, m, node) = Destroy(ua, {node})
        /\ prune(b, m, node) = Destroy(ub, {node})
    BY <1>1, <1>3, PruneSteps
  <2>2. /\ ua.alive = a.alive /\ ua.parent = a.parent /\ ua.item = a.item
        /\ ub.alive = b.alive /\ ub.parent = b.parent /\ ub.item = b.item
    BY DEF Unhooked, Heaps
  <2>3. ua.children = ub.children
    <3> DEFINE i0(c) == CHOOSE i \in DOMAIN c[m] : c[m][i] = node
    <3>1. /\ ua.children = [a.children EXCEPT ![m] = RemoveAt(@, i0(a.children))]
          /\ ub.children = [b.children EXCEPT ![m] = RemoveAt(@, i0(b.children))]
      BY DEF Unhooked, Heaps
    <3> HIDE DEF i0
    <3> QED
      BY <1>1, <3>1
  <2> HIDE DEF ua, ub
  <2>4. AlikeBut(ua, ub, n, o)
    BY <2>2, <2>3 DEF AlikeBut
  <2> QED
    BY <2>1, <2>4, DestroyAlike
<1> QED
  BY <1>2, <1>3

(* A record of the fields of a heap *)
LEMMA HeapEqual ==
  ASSUME NEW a, a \in Heaps, NEW b, b \in Heaps, a.alive = b.alive,
         a.parent = b.parent, a.item = b.item, a.children = b.children
  PROVE  a = b
BY DEF Heaps

(* The move, with the pointers set first: the same heap *)
MovedSteps(h, n, o) ==
  LET q == Destroy(Given(h, n, o), Range(h.children[n]))
  IN  IF o \in q.alive /\ h.parent[o] # Null THEN prune(q, h.parent[o], o) ELSE q

(* A move leaves a forest, and its steps may be taken in this order.       *)
LEMMA MovedKeeps ==
  ASSUME NEW h, Forest(h), NEW n, NEW o, Movable(h, n, o)
  PROVE  /\ Moved(h, n, o) = MovedSteps(h, n, o)
         /\ Forest(MovedSteps(h, n, o))
<1> DEFINE R == Range(h.children[n])
           t == TakeAll(h, n, o)
           g == Given(h, n, o)
           dt == Destroy(t, R)
           dg == Destroy(g, R)
           pt == IF o \in dt.alive /\ h.parent[o] # Null
                 THEN prune(dt, h.parent[o], o) ELSE dt
           pg == IF o \in dg.alive /\ h.parent[o] # Null
                 THEN prune(dg, h.parent[o], o) ELSE dg
           a == Adopt(pt, n)
<1>0. ForestBut(h, {}) /\ h \in Heaps
  BY DEF Forest, ForestBut
<1>1. /\ n \in Addresses /\ o \in Addresses /\ n # o /\ o \in h.alive
      /\ h.alive \subseteq Addresses /\ n \in h.alive
      /\ h.parent \in [Addresses -> Above]
  BY <1>0, ForestFacts DEF Movable
<1>2. Moved(h, n, o) = a /\ MovedSteps(h, n, o) = pg
  BY DEF Moved, MovedSteps
<1>3. t \in Heaps /\ AlikeBut(t, g, n, o)
  <2>1. /\ t.alive = h.alive /\ t.parent = h.parent
        /\ t \in [alive : {t.alive}, parent : {t.parent}, item : {t.item},
                  children : {t.children}]
    BY <1>0 DEF TakeAll, Heaps
  <2>2. /\ g.alive = h.alive /\ g.item = t.item /\ g.children = t.children
    BY DEF Given
  <2>3. /\ g \in Heaps
        /\ \A m \in Addresses :
             g.parent[m] = IF h.parent[m] = o THEN n ELSE h.parent[m]
    BY GivenFields
  <2>4. g.parent \in [Addresses -> Above] /\ g.item \in [Addresses -> AllItems]
        /\ g.children \in [Addresses -> Seq(Addresses)]
    BY <2>3 DEF Heaps
  <2> HIDE DEF t, g
  <2>5. t \in Heaps
    BY <1>1, <2>1, <2>2, <2>4 DEF Heaps
  <2>6. AlikeBut(t, g, n, o)
    BY <1>1, <2>1, <2>2, <2>3, <2>4 DEF AlikeBut
  <2> QED
    BY <2>5, <2>6
<1>4. Forest(dg)
  <2>1. ForestBut(g, R)
    BY GivenForest
  <2>2. R \subseteq g.alive
    <3>1. g.alive = h.alive
      BY GivenFields
    <3> QED
      BY <1>0, <1>1, <3>1, ForestFacts DEF Range
  <2> HIDE DEF g, R
  <2> QED
    BY <2>1, <2>2, DestroyKeeps
<1>5. Forest(pg)
  <2>1. CASE o \in dg.alive /\ h.parent[o] # Null
    <3>1. h.parent[o] \in Addresses
      BY <1>1, <2>1 DEF Above
    <3>2. pg = prune(dg, h.parent[o], o)
      BY <2>1
    <3> HIDE DEF dg
    <3>3. Forest(prune(dg, h.parent[o], o))
      BY <1>4, <3>1, PruneKeeps
    <3> QED
      BY <3>2, <3>3
  <2>2. CASE ~(o \in dg.alive /\ h.parent[o] # Null)
    BY <1>4, <2>2
  <2> QED
    BY <2>1, <2>2
<1>6. dt \in Heaps /\ AlikeBut(dt, dg, n, o)
  <2>1. AlikeBut(dt, dg, n, o)
    <3> HIDE DEF t, g, R
    <3> QED
      BY <1>3, DestroyAlike
  <2>2. dg \in Heaps
    BY <1>4 DEF Forest, ForestBut
  <2>3. dt \in [alive : {dt.alive}, parent : {dt.parent}, item : {dt.item},
                children : {dt.children}]
    <3> HIDE DEF t, R
    <3> QED
      BY DEF Destroy
  <2> HIDE DEF dt, dg
  <2> QED
    BY <2>1, <2>2, <2>3 DEF AlikeBut, Heaps
<1>7. pt \in Heaps /\ AlikeBut(pt, pg, n, o)
  <2>0. dg \in Heaps /\ dt.alive = dg.alive
    BY <1>4, <1>6 DEF Forest, ForestBut, AlikeBut
  <2>1. AlikeBut(pt, pg, n, o)
    <3>1. CASE o \in dg.alive /\ h.parent[o] # Null
      <4>1. /\ pt = prune(dt, h.parent[o], o)
            /\ pg = prune(dg, h.parent[o], o)
        BY <2>0, <3>1
      <4> HIDE DEF dt, dg, pt, pg
      <4> QED
        BY <1>6, <2>0, <4>1, PruneAlike
    <3>2. CASE ~(o \in dg.alive /\ h.parent[o] # Null)
      <4>1. pt = dt /\ pg = dg
        BY <2>0, <3>2
      <4> HIDE DEF dt, dg, pt, pg
      <4> QED
        BY <1>6, <4>1
    <3> QED
      BY <3>1, <3>2
  <2>2. pg \in Heaps
    BY <1>5 DEF Forest, ForestBut
  <2>3. pt \in [alive : {pt.alive}, parent : {pt.parent}, item : {pt.item},
                children : {pt.children}]
    <3>1. dt \in [alive : {dt.alive}, parent : {dt.parent}, item : {dt.item},
                  children : {dt.children}]
      BY <1>6 DEF Heaps
    <3> HIDE DEF dt
    <3>2. ASSUME NEW m, NEW x
          PROVE  LET c == prune(dt, m, x) IN
                 c \in [alive : {c.alive}, parent : {c.parent}, item : {c.item},
                        children : {c.children}]
      <4>1. CASE x \in Range(dt.children[m])
        <5> DEFINE u == Unhooked(dt, m, x)
        <5>1. prune(dt, m, x) = Destroy(u, {x})
          BY <4>1, PruneSteps
        <5> HIDE DEF u
        <5> QED
          BY <5>1 DEF Destroy
      <4>2. CASE x \notin Range(dt.children[m])
        <5>1. prune(dt, m, x) = dt
          BY <4>2, PruneSteps
        <5> QED
          BY <3>1, <5>1
      <4> QED
        BY <4>1, <4>2
    <3> QED
      BY <3>1, <3>2
  <2> HIDE DEF pt, pg
  <2> QED
    BY <2>1, <2>2, <2>3 DEF AlikeBut, Heaps
<1> HIDE DEF pt, pg
<1>8. a = pg
  <2>1. ForestBut(pg, {}) /\ pg \in Heaps
    BY <1>5 DEF Forest, ForestBut
  <2>2. /\ a.alive = pt.alive /\ a.item = pt.item /\ a.children = pt.children
        /\ a.parent = [m \in Addresses |->
                         IF m \in Range(pt.children[n]) THEN n ELSE pt.parent[m]]
        /\ a \in [alive : {a.alive}, parent : {a.parent}, item : {a.item},
                  children : {a.children}]
    BY <1>7 DEF Adopt, Heaps
  <2>3. /\ pt.alive = pg.alive /\ pt.item = pg.item /\ pt.children = pg.children
        /\ \A m \in Addresses : \/ pt.parent[m] = pg.parent[m]
                                \/ pt.parent[m] = o /\ pg.parent[m] = n
        /\ pg.parent \in [Addresses -> Above]
    BY <1>7 DEF AlikeBut
  <2> HIDE DEF a
  <2>4. \A m \in Addresses : m \in Range(pg.children[n]) <=> pg.parent[m] = n
    <3> SUFFICES ASSUME NEW m \in Addresses
                 PROVE  m \in Range(pg.children[n]) <=> pg.parent[m] = n
      OBVIOUS
    <3>1. ASSUME m \in Range(pg.children[n]) PROVE pg.parent[m] = n
      BY <1>1, <2>1, <3>1, ForestFacts DEF Range
    <3>2. ASSUME pg.parent[m] = n PROVE m \in Range(pg.children[n])
      <4>1. pg.parent[m] # Null
        BY <1>1, <3>2, AddressFacts
      <4>2. m \in pg.alive /\ m \notin Locals
        BY <2>1, <4>1, ForestFacts DEF ForestBut, VariablesFree
      <4> QED
        BY <2>1, <3>2, <4>2 DEF ForestBut, Hanging, Attached, Addresses, Range
    <3> QED
      BY <3>1, <3>2
  <2>5. a.parent = pg.parent
    BY <2>2, <2>3, <2>4
  <2>6. a \in Heaps
    BY <2>1, <2>2, <2>3, <2>5 DEF Heaps
  <2> QED
    BY <2>1, <2>2, <2>3, <2>5, <2>6, HeapEqual
<1> QED
  BY <1>2, <1>5, <1>8
-----------------------------------------------------------------------------
(* Where a copy may be put: not into its own source *)
CopyPlace(h, n, o) ==
  Forest(h) /\ n \in h.alive /\ o \in h.alive /\ n \notin Owned(h, o)

(* The source of a copy is a tree of its own, in which o is the root.      *)
LEMMA SourceFacts ==
  ASSUME NEW h, NEW n, NEW o, CopyPlace(h, n, o)
  PROVE  /\ Owned(h, o) \subseteq h.alive /\ h.alive \subseteq Addresses
         /\ o \in Owned(h, o) /\ n \notin Owned(h, o)
         /\ \A x \in Owned(h, o) : \A i \in DOMAIN h.children[x] :
              /\ h.children[x][i] \in Owned(h, o) /\ h.children[x][i] # o
              /\ h.parent[h.children[x][i]] = x
<1> DEFINE O == Owned(h, o)
<1>0. ForestBut(h, {}) /\ n \in h.alive /\ o \in h.alive /\ n \notin O
  BY DEF CopyPlace, Forest
<1>1. /\ h.alive \subseteq Addresses
      /\ h.parent \in [Addresses -> Above] /\ Rooted(h.parent)
  BY <1>0, ForestFacts
<1>2. ClosedDown(h.children, h.alive)
  BY <1>0, <1>1, ForestFacts DEF ClosedDown
<1>3. /\ o \in O /\ O \subseteq h.alive
      /\ \A x \in O : \A i \in DOMAIN h.children[x] : h.children[x][i] \in O
  BY <1>0, <1>1, <1>2, ForestOwned
<1>4. ASSUME NEW x \in O, NEW i \in DOMAIN h.children[x]
      PROVE  h.children[x][i] # o /\ h.parent[h.children[x][i]] = x
  <2>1. h.parent[h.children[x][i]] = x /\ x \in Addresses /\ o \in Addresses
    BY <1>0, <1>1, <1>3, ForestFacts
  <2>2. ASSUME h.children[x][i] = o PROVE FALSE
    <3>1. h.parent[o] = x /\ x # Null
      BY <2>1, <2>2, AddressFacts
    <3>2. AncestorsIn(h, o) = {x} \union AncestorsIn(h, x)
      BY <1>1, <2>1, <3>1, AncestorFacts
    <3>3. o \notin AncestorsIn(h, o)
      BY <1>1, <2>1, AncestorFacts
    <3>4. x = o \/ o \in AncestorsIn(h, x)
      BY <1>0, <2>1, OwnedAbove
    <3> QED
      BY <3>2, <3>3, <3>4
  <2> QED
    BY <2>1, <2>2
<1> QED
  BY <1>0, <1>1, <1>3, <1>4

Frames == [to : Addresses, from : Addresses, next : Nat]
States == [heap : Heaps, calls : Seq(Frames)]

(* The invariant of a copy of what is below o, to n, that began with h0:   *)
(* cp maps n to o and every new element to the one it is a copy of.        *)
Copies(h0, n, h) == (h.alive \ h0.alive) \union {n}
OldKept(h0, n, h) ==
  /\ h0.alive \subseteq h.alive /\ h.alive \ h0.alive \subseteq Cells
  /\ \A x \in h0.alive : h.parent[x] = h0.parent[x] /\ h.item[x] = h0.item[x]
  /\ \A x \in h0.alive \ {n} : h.children[x] = h0.children[x]
CopyOf(h0, n, o, h, cp) ==
  /\ cp \in [Copies(h0, n, h) -> Owned(h0, o)] /\ cp[n] = o
  /\ \A p, q \in Copies(h0, n, h) : cp[p] = cp[q] => p = q
  /\ \A c \in h.alive \ h0.alive :
       h.parent[c] \in Copies(h0, n, h) /\ h.item[c] = h0.item[cp[c]]
CopyLists(h0, n, h, cp) ==
  \A p \in Copies(h0, n, h) :
    /\ \A i \in DOMAIN h0.children[p] :
         i \in DOMAIN h.children[p] /\ h.children[p][i] = h0.children[p][i]
    /\ \A i \in DOMAIN h.children[p] : i > Len(h0.children[p]) =>
         /\ h.children[p][i] \in h.alive \ h0.alive
         /\ i - Len(h0.children[p]) \in DOMAIN h0.children[cp[p]]
         /\ cp[h.children[p][i]] = h0.children[cp[p]][i - Len(h0.children[p])]
CallsFit(h0, n, s, cp) ==
  /\ s.calls \in Seq(Frames)
  /\ \A j \in 1..Len(s.calls) :
       /\ s.calls[j].to \in Copies(h0, n, s.heap)
       /\ s.calls[j].from = cp[s.calls[j].to]
       /\ Len(s.heap.children[s.calls[j].to]) + 1
            = Len(h0.children[s.calls[j].to]) + s.calls[j].next
  /\ \A i, j \in 1..Len(s.calls) : s.calls[i].to = s.calls[j].to => i = j
ListsDone(h0, n, s, cp) ==
  \A p \in Copies(h0, n, s.heap) :
    (\A j \in 1..Len(s.calls) : s.calls[j].to # p) =>
      Len(s.heap.children[p]) = Len(h0.children[p]) + Len(h0.children[cp[p]])

GraftInv(h0, n, o, s, cp) ==
  /\ s \in States /\ Forest(s.heap) /\ OldKept(h0, n, s.heap)
  /\ CopyOf(h0, n, o, s.heap, cp) /\ CopyLists(h0, n, s.heap, cp)
  /\ CallsFit(h0, n, s, cp) /\ ListsDone(h0, n, s, cp)

(* The state in which a copy begins *)
Begin(h, n, o) == [heap |-> h, calls |-> <<Call(n, o)>>]

(* What holds after k steps: every element that was made took two steps,   *)
(* but the calls that are under way have one to go                         *)
CopyingAt(h0, n, o, s, k) ==
  \E cp :
    /\ GraftInv(h0, n, o, s, cp)
    /\ \/ s.calls = <<>>
       \/ k + Len(s.calls) = 2 * Cardinality(s.heap.alive \ h0.alive) + 1

(* The loop begins: nothing is copied yet. *)
LEMMA GraftBegins ==
  ASSUME NEW h, NEW n, NEW o, CopyPlace(h, n, o)
  PROVE  CopyingAt(h, n, o, Begin(h, n, o), 0)
<1> DEFINE s == [heap |-> h, calls |-> <<Call(n, o)>>]
           cp == [x \in {n} |-> o]
<1>1. /\ o \in Owned(h, o) /\ n \in Addresses /\ o \in Addresses /\ n \in h.alive
      /\ ForestBut(h, {}) /\ Forest(h)
  BY SourceFacts DEF CopyPlace, Forest
<1>2. Copies(h, n, h) = {n}
  BY DEF Copies
<1>3. /\ h.children[n] \in Seq(Addresses) /\ Len(h.children[n]) \in Nat
      /\ DOMAIN h.children[n] = 1..Len(h.children[n])
  BY <1>1, ForestFacts
<1>4. OldKept(h, n, h) /\ CopyOf(h, n, o, h, cp)
  BY <1>1, <1>2 DEF OldKept, CopyOf
<1>5. CopyLists(h, n, h, cp)
  BY <1>2, <1>3 DEF CopyLists
<1>6. s.heap = h /\ Len(s.calls) = 1 /\ s.calls[1] = Call(n, o)
  OBVIOUS
<1>7. s.calls \in Seq(Frames)
  BY <1>1 DEF Frames, Call
<1>12. s \in States
  BY <1>1, <1>7 DEF States, ForestBut
<1> HIDE DEF s
<1>8. Call(n, o).to = n /\ Call(n, o).from = o /\ Call(n, o).next = 1
  BY DEF Call
<1>9. CallsFit(h, n, s, cp)
  BY <1>2, <1>3, <1>6, <1>7, <1>8 DEF CallsFit
<1>10. ListsDone(h, n, s, cp)
  BY <1>2, <1>6, <1>8 DEF ListsDone
<1>11. GraftInv(h, n, o, s, cp)
  BY <1>1, <1>4, <1>5, <1>6, <1>9, <1>10, <1>12 DEF GraftInv
<1>13. s.heap.alive \ h.alive = {}
  BY <1>6
<1> HIDE DEF cp
<1>14. 0 + Len(s.calls) = 2 * Cardinality(s.heap.alive \ h.alive) + 1
  BY <1>6, <1>13, FS_EmptySet
<1>15. CopyingAt(h, n, o, s, 0)
  BY <1>11, <1>14 DEF CopyingAt
<1> QED
  BY <1>15 DEF s, Begin

(* The call that is on top, and the child it comes to *)
LEMMA TopCall ==
  ASSUME NEW h0, NEW n, NEW o, CopyPlace(h0, n, o), NEW s, NEW cp,
         GraftInv(h0, n, o, s, cp), s.calls # <<>>
  PROVE  LET call == Last(s.calls) IN
         /\ Len(s.calls) \in Nat \ {0} /\ call = s.calls[Len(s.calls)]
         /\ call \in Frames /\ call.to \in Copies(h0, n, s.heap)
         /\ call.from = cp[call.to] /\ call.from \in Owned(h0, o)
         /\ s.heap.children[call.from] = h0.children[call.from]
         /\ s.heap.item[call.from] = h0.item[call.from]
         /\ Len(s.heap.children[call.to]) + 1
              = Len(h0.children[call.to]) + call.next
<1> DEFINE call == Last(s.calls)
<1>1. s.calls \in Seq(Frames)
  BY DEF GraftInv, CallsFit
<1>2. Len(s.calls) \in Nat \ {0}
  BY <1>1, EmptySeq
<1>3. call = s.calls[Len(s.calls)] /\ call \in Frames
  BY <1>1, <1>2, ElementOfSeq DEF Last
<1>4. /\ call.to \in Copies(h0, n, s.heap) /\ call.from = cp[call.to]
      /\ Len(s.heap.children[call.to]) + 1 = Len(h0.children[call.to]) + call.next
  BY <1>2, <1>3 DEF GraftInv, CallsFit
<1>5. call.from \in Owned(h0, o)
  BY <1>4 DEF GraftInv, CopyOf
<1>6. call.from \in h0.alive \ {n}
  BY <1>5, SourceFacts
<1> HIDE DEF call
<1>7. /\ s.heap.children[call.from] = h0.children[call.from]
      /\ s.heap.item[call.from] = h0.item[call.from]
  BY <1>6 DEF GraftInv, OldKept
<1> QED
  BY <1>2, <1>3, <1>4, <1>5, <1>7 DEF call

(* One list of a forest *)
LEMMA ListFacts ==
  ASSUME NEW h, ForestBut(h, {}), NEW m \in Addresses
  PROVE  /\ h.children[m] \in Seq(Addresses) /\ Len(h.children[m]) \in Nat
         /\ DOMAIN h.children[m] = 1..Len(h.children[m])
BY ForestFacts

(* The call that returns has copied as many children as there are. *)
LEMMA NoneLeft ==
  ASSUME NEW a \in Nat, NEW b \in Nat, NEW k \in Nat, NEW nx \in Nat,
         a + 1 = b + nx, nx > k, a > b => a - b \in 1..k
  PROVE  a = b + k
OBVIOUS

(* A call that has copied all children returns. *)
LEMMA GraftReturns ==
  ASSUME NEW h0, NEW n, NEW o, CopyPlace(h0, n, o), NEW s, NEW cp,
         GraftInv(h0, n, o, s, cp), s.calls # <<>>,
         Last(s.calls).next > Len(s.heap.children[Last(s.calls).from])
  PROVE  /\ GraftStep(s).heap = s.heap
         /\ Len(GraftStep(s).calls) = Len(s.calls) - 1
         /\ GraftInv(h0, n, o, GraftStep(s), cp)
<1> DEFINE call == Last(s.calls)
           h == s.heap
           to == call.to
           kids == h0.children[call.from]
           t == GraftStep(s)
           calls == Front(s.calls)
           len == Len(s.calls)
<1>0. s.calls \in Seq(Frames) /\ ForestBut(h, {}) /\ ForestBut(h0, {})
  BY DEF GraftInv, CallsFit, CopyPlace, Forest
<1>1. /\ len \in Nat \ {0} /\ call = s.calls[len] /\ call.next \in Nat
      /\ to \in Copies(h0, n, h) /\ to \in Addresses
      /\ call.from = cp[to] /\ call.from \in Owned(h0, o) /\ call.from \in Addresses
      /\ h.children[call.from] = kids
      /\ Len(h.children[to]) + 1 = Len(h0.children[to]) + call.next
  <2>1. /\ len \in Nat \ {0} /\ call = s.calls[len] /\ call \in Frames
        /\ to \in Copies(h0, n, h)
        /\ call.from = cp[to] /\ call.from \in Owned(h0, o)
        /\ h.children[call.from] = kids
        /\ Len(h.children[to]) + 1 = Len(h0.children[to]) + call.next
    BY TopCall
  <2> HIDE DEF call
  <2> QED
    BY <2>1 DEF Frames
<1>2. t = [s EXCEPT !.calls = calls]
  BY DEF GraftStep
<1>3. t.heap = h /\ t.calls = calls /\ s \in States
  BY <1>2 DEF GraftInv, States
<1>4. /\ calls \in Seq(Frames) /\ Len(calls) = len - 1
      /\ \A j \in 1..len - 1 : calls[j] = s.calls[j]
  <2>1. \A j \in 1..len - 1 : s.calls[j] \in Frames
    BY <1>0, <1>1, ElementOfSeq
  <2>2. /\ SubSeq(s.calls, 1, len - 1) \in Seq(Frames)
        /\ Len(SubSeq(s.calls, 1, len - 1)) = IF 1 <= len - 1 THEN len - 1 - 1 + 1
                                                              ELSE 0
        /\ \A j \in 1..len - 1 - 1 + 1 :
             SubSeq(s.calls, 1, len - 1)[j] = s.calls[1 + j - 1]
    BY <1>1, <2>1, SubSeqProperties
  <2> QED
    BY <1>1, <2>2 DEF Front
<1>5. t \in States
  BY <1>2, <1>3, <1>4 DEF States
<1> HIDE DEF t, calls
<1>6. CallsFit(h0, n, t, cp)
  <2>1. \A j \in 1..Len(t.calls) : j \in 1..Len(s.calls) /\ t.calls[j] = s.calls[j]
    BY <1>1, <1>3, <1>4
  <2>2. t.calls \in Seq(Frames)
    BY <1>3, <1>4
  <2>3. ASSUME NEW j \in 1..Len(t.calls)
        PROVE  /\ t.calls[j].to \in Copies(h0, n, t.heap)
               /\ t.calls[j].from = cp[t.calls[j].to]
               /\ Len(t.heap.children[t.calls[j].to]) + 1
                    = Len(h0.children[t.calls[j].to]) + t.calls[j].next
    <3>1. j \in 1..Len(s.calls) /\ t.calls[j] = s.calls[j]
      BY <2>1
    <3> QED
      BY <1>3, <3>1 DEF GraftInv, CallsFit
  <2>4. ASSUME NEW i \in 1..Len(t.calls), NEW j \in 1..Len(t.calls),
               t.calls[i].to = t.calls[j].to
        PROVE  i = j
    <3>1. /\ i \in 1..Len(s.calls) /\ t.calls[i] = s.calls[i]
          /\ j \in 1..Len(s.calls) /\ t.calls[j] = s.calls[j]
      BY <2>1
    <3> QED
      BY <2>4, <3>1 DEF GraftInv, CallsFit
  <2> QED
    BY <2>2, <2>3, <2>4 DEF CallsFit
<1>7. Len(h.children[to]) = Len(h0.children[to]) + Len(kids)
  <2> DEFINE c == h.children[to]
             c0 == h0.children[to]
  <2>1. /\ Len(c) \in Nat /\ DOMAIN c = 1..Len(c) /\ Len(c0) \in Nat
        /\ Len(kids) \in Nat /\ DOMAIN kids = 1..Len(kids)
    <3> DEFINE from == call.from
    <3>1. to \in Addresses /\ from \in Addresses
      BY <1>1
    <3> HIDE DEF to, call, h, from
    <3>2. /\ Len(h.children[to]) \in Nat /\ Len(h0.children[to]) \in Nat
          /\ DOMAIN h.children[to] = 1..Len(h.children[to])
          /\ Len(h0.children[from]) \in Nat
          /\ DOMAIN h0.children[from] = 1..Len(h0.children[from])
      BY <1>0, <3>1, ListFacts
    <3> QED
      BY <3>2 DEF from
  <2>2. call.next > Len(kids)
    BY <1>1
  <2>3. \A i \in DOMAIN c : i > Len(c0) => i - Len(c0) \in DOMAIN kids
    BY <1>1 DEF GraftInv, CopyLists
  <2> DEFINE nx == call.next
  <2>4. Len(c) + 1 = Len(c0) + nx /\ nx \in Nat /\ nx > Len(kids)
    BY <1>1, <2>2
  <2> HIDE DEF c, c0, kids, nx
  <2>5. Len(c) = Len(c0) + Len(kids)
    <3>1. ASSUME Len(c) > Len(c0)
          PROVE  Len(c) - Len(c0) \in 1..Len(kids)
      <4>1. Len(c) \in DOMAIN c
        BY <2>1, <3>1
      <4> QED
        BY <2>1, <2>3, <3>1, <4>1
    <3> DEFINE a == Len(c)
               b == Len(c0)
               k == Len(kids)
    <3>2. /\ a \in Nat /\ b \in Nat /\ k \in Nat /\ nx \in Nat
          /\ a + 1 = b + nx /\ nx > k /\ (a > b => a - b \in 1..k)
      BY <2>1, <2>4, <3>1
    <3> HIDE DEF a, b, k
    <3>3. a = b + k
      BY <3>2, NoneLeft
    <3> QED
      BY <3>3 DEF a, b, k
  <2> QED
    BY <2>5 DEF c, c0
<1>8. ListsDone(h0, n, t, cp)
  <2> SUFFICES ASSUME NEW p \in Copies(h0, n, h),
                      \A j \in 1..Len(t.calls) : t.calls[j].to # p
               PROVE  Len(h.children[p])
                        = Len(h0.children[p]) + Len(h0.children[cp[p]])
    BY <1>3 DEF ListsDone
  <2>1. CASE p = to
    BY <1>1, <1>7, <2>1
  <2>2. CASE p # to
    <3>1. \A j \in 1..len : s.calls[j].to # p
      <4> SUFFICES ASSUME NEW j \in 1..len PROVE s.calls[j].to # p
        OBVIOUS
      <4>1. CASE j = len
        BY <1>1, <2>2, <4>1
      <4>2. CASE j # len
        <5>1. j \in 1..len - 1
          BY <1>1, <4>2
        <5> QED
          BY <1>3, <1>4, <5>1
      <4> QED
        BY <4>1, <4>2
    <3> QED
      BY <3>1 DEF GraftInv, ListsDone
  <2> QED
    BY <2>1, <2>2
<1> QED
  BY <1>3, <1>4, <1>5, <1>6, <1>8 DEF GraftInv, t

(* The call on top: it copies what is below from, to below to, and comes   *)
(* to the child with the number next.                                      *)
Comes(h0, n, o, s, cp, to, from, next) ==
  /\ s.calls # <<>> /\ Len(s.calls) \in Nat \ {0}
  /\ Last(s.calls) = s.calls[Len(s.calls)]
  /\ Last(s.calls).to = to /\ Last(s.calls).from = from
  /\ Last(s.calls).next = next
  /\ to \in Copies(h0, n, s.heap) /\ to \in s.heap.alive /\ to \in Addresses
  /\ from = cp[to] /\ from \in Owned(h0, o) /\ from \in Addresses
  /\ from \in h0.alive /\ next \in Nat
  /\ s.heap.children[from] = h0.children[from]
  /\ Len(s.heap.children[to]) + 1 = Len(h0.children[to]) + next

(* There is such a call as long as any is under way. *)
LEMMA TopFrame ==
  ASSUME NEW h0, NEW n, NEW o, CopyPlace(h0, n, o), NEW s, NEW cp,
         GraftInv(h0, n, o, s, cp), s.calls # <<>>
  PROVE  \E to, from, next : Comes(h0, n, o, s, cp, to, from, next)
<1> DEFINE call == Last(s.calls)
<1>1. /\ Len(s.calls) \in Nat \ {0} /\ call = s.calls[Len(s.calls)]
      /\ call \in Frames /\ call.to \in Copies(h0, n, s.heap)
      /\ call.from = cp[call.to] /\ call.from \in Owned(h0, o)
      /\ s.heap.children[call.from] = h0.children[call.from]
      /\ Len(s.heap.children[call.to]) + 1
           = Len(h0.children[call.to]) + call.next
  BY TopCall
<1>2. /\ Copies(h0, n, s.heap) \subseteq s.heap.alive
      /\ s.heap.alive \subseteq Addresses
  BY ForestFacts DEF GraftInv, Forest, OldKept, Copies, CopyPlace
<1>3. Owned(h0, o) \subseteq h0.alive /\ h0.alive \subseteq Addresses
  BY SourceFacts
<1> HIDE DEF call
<1>4. call.next \in Nat
  BY <1>1 DEF Frames
<1>5. Comes(h0, n, o, s, cp, call.to, call.from, call.next)
  BY <1>1, <1>2, <1>3, <1>4 DEF Comes, call
<1> QED
  BY <1>5

(* The child that it comes to has no copy yet. *)
LEMMA GraftFinds ==
  ASSUME NEW h0, NEW n, NEW o, CopyPlace(h0, n, o), NEW s, NEW cp,
         GraftInv(h0, n, o, s, cp), NEW to, NEW from, NEW next,
         Comes(h0, n, o, s, cp, to, from, next),
         ~ (next > Len(h0.children[from]))
  PROVE  /\ next \in 1..Len(h0.children[from])
         /\ h0.children[from][next] \in Owned(h0, o) \ {o}
         /\ h0.children[from][next] \in h0.alive \ {n}
         /\ h0.children[from][next] \in Addresses
         /\ \A q \in Copies(h0, n, s.heap) : cp[q] # h0.children[from][next]
<1> DEFINE h == s.heap
           kid == h0.children[from][next]
           New == h.alive \ h0.alive
<1>0. ForestBut(h, {}) /\ ForestBut(h0, {})
  BY DEF GraftInv, CopyPlace, Forest
<1>1. /\ to \in Addresses /\ from \in Addresses /\ next \in Nat
      /\ to \in Copies(h0, n, h) /\ from = cp[to] /\ from \in Owned(h0, o)
      /\ Len(h.children[to]) + 1 = Len(h0.children[to]) + next
  BY DEF Comes
<1> HIDE DEF h
<1>2. /\ Len(h.children[to]) \in Nat /\ DOMAIN h.children[to] = 1..Len(h.children[to])
      /\ Len(h0.children[to]) \in Nat
      /\ DOMAIN h0.children[to] = 1..Len(h0.children[to])
      /\ Len(h0.children[from]) \in Nat
      /\ DOMAIN h0.children[from] = 1..Len(h0.children[from])
  BY <1>0, <1>1, ListFacts
<1>3. \A i \in DOMAIN h0.children[to] : i \in DOMAIN h.children[to]
  BY <1>1 DEF GraftInv, CopyLists, h
<1>4. Len(h0.children[to]) <= Len(h.children[to])
  BY <1>2, <1>3
<1>5. next \in 1..Len(h0.children[from]) /\ next \in DOMAIN h0.children[from]
  BY <1>1, <1>2, <1>4
<1>6. kid \in Owned(h0, o) \ {o} /\ h0.parent[kid] = from
  BY <1>1, <1>5, SourceFacts
<1>7. kid \in h0.alive \ {n} /\ kid \in Addresses
  BY <1>6, SourceFacts
<1>8. ASSUME NEW q \in Copies(h0, n, h), cp[q] = kid
      PROVE  FALSE
  <2>1. cp[n] = o /\ q # n
    BY <1>6, <1>8 DEF GraftInv, CopyOf
  <2>2. q \in New /\ q \in h.alive /\ q \in Cells /\ q \notin h0.alive
    BY <2>1 DEF Copies, GraftInv, OldKept, h
  <2>3. h.parent[q] \in Copies(h0, n, h)
    BY <2>2 DEF GraftInv, CopyOf, h
  <2>4. PICK p : p = h.parent[q] /\ p \in Copies(h0, n, h)
    BY <2>3
  <2>5. p \in Addresses
    BY <1>0, <2>4, SourceFacts, ForestFacts DEF Copies, CopyPlace
  <2>6. PICK i \in DOMAIN h.children[p] : h.children[p][i] = q
    BY <1>0, <2>2, <2>4 DEF ForestBut, Hanging, Attached
  <2>7. /\ DOMAIN h.children[p] = 1..Len(h.children[p])
        /\ Len(h.children[p]) \in Nat /\ Len(h0.children[p]) \in Nat
        /\ DOMAIN h0.children[p] = 1..Len(h0.children[p])
    BY <1>0, <2>5, ListFacts
  <2>8. i > Len(h0.children[p])
    <3> SUFFICES ASSUME ~ (i > Len(h0.children[p])) PROVE FALSE
      OBVIOUS
    <3>1. i \in DOMAIN h0.children[p]
      BY <2>6, <2>7
    <3>2. h.children[p][i] = h0.children[p][i]
      BY <2>4, <3>1 DEF GraftInv, CopyLists, h
    <3>3. h0.children[p][i] \in h0.alive
      BY <1>0, <2>5, <3>1, ForestFacts
    <3> QED
      BY <2>2, <2>6, <3>2, <3>3
  <2> DEFINE j == i - Len(h0.children[p])
  <2>9. j \in DOMAIN h0.children[cp[p]] /\ cp[q] = h0.children[cp[p]][j]
    BY <2>4, <2>6, <2>8 DEF GraftInv, CopyLists, h
  <2>10. cp[p] \in Owned(h0, o)
    BY <2>4 DEF GraftInv, CopyOf, h
  <2>11. h0.parent[kid] = cp[p]
    BY <1>8, <2>9, <2>10, SourceFacts
  <2>12. p = to
    BY <1>1, <1>6, <2>4, <2>11 DEF GraftInv, CopyOf, h
  <2>13. j = next
    BY <1>0, <1>1, <1>5, <1>8, <2>9, <2>11, <1>6 DEF ForestBut, Distinct
  <2>14. i <= Len(h.children[to])
    BY <2>6, <2>7, <2>12
  <2> QED
    BY <1>1, <1>2, <2>6, <2>7, <2>12, <2>13, <2>14
<1> QED
  BY <1>5, <1>6, <1>7, <1>8 DEF h

(* What a copy needs: elements for all that is below its source            *)
Enough(h, o) ==
  Cardinality(Owned(h, o)) - 1 + Cardinality(h.alive \intersect Cells)
    <= Cardinality(Cells)

(* While a child has no copy there is an element for it. *)
LEMMA GraftRoom ==
  ASSUME NEW h0, NEW n, NEW o, CopyPlace(h0, n, o), Enough(h0, o), NEW s, NEW cp,
         GraftInv(h0, n, o, s, cp), NEW kid \in Owned(h0, o) \ {o},
         \A q \in Copies(h0, n, s.heap) : cp[q] # kid
  PROVE  Unused(s.heap) # {}
<1> DEFINE h == s.heap
           New == h.alive \ h0.alive
           O == Owned(h0, o)
           Old == h0.alive \intersect Cells
           copied == [q \in New |-> cp[q]]
           rest == (O \ {o}) \ {kid}
<1>1. /\ O \subseteq Addresses /\ o \in O /\ New \subseteq Cells
      /\ n \in h0.alive
  BY SourceFacts DEF GraftInv, OldKept, CopyPlace
<1>2. /\ IsFiniteSet(O) /\ Cardinality(O) \in Nat
      /\ IsFiniteSet(O \ {o}) /\ Cardinality(O \ {o}) = Cardinality(O) - 1
      /\ IsFiniteSet(rest) /\ Cardinality(rest) = Cardinality(O) - 2
  <2>1. IsFiniteSet(O)
    BY <1>1, AddressFacts, FS_Subset
  <2> HIDE DEF O
  <2> DEFINE B == O \ {o}
  <2>2. IsFiniteSet(B) /\ Cardinality(B) = Cardinality(O) - 1
    BY <1>1, <2>1, FS_RemoveElement
  <2>3. kid \in B
    BY DEF O
  <2> HIDE DEF B
  <2>4. IsFiniteSet(B \ {kid}) /\ Cardinality(B \ {kid}) = Cardinality(B) - 1
    BY <2>2, <2>3, FS_RemoveElement
  <2>5. Cardinality(O) \in Nat
    BY <2>1, FS_CardinalityType
  <2> QED
    BY <2>1, <2>2, <2>4, <2>5 DEF B
<1>3. /\ IsFiniteSet(New) /\ Cardinality(New) \in Nat
      /\ IsFiniteSet(Old) /\ Cardinality(Old) \in Nat
  BY <1>1, AddressFacts, FS_Subset, FS_CardinalityType
<1>4. /\ cp \in [Copies(h0, n, h) -> O] /\ cp[n] = o
      /\ \A p, q \in Copies(h0, n, h) : cp[p] = cp[q] => p = q
  BY DEF GraftInv, CopyOf
<1>5. New \subseteq Copies(h0, n, h) /\ n \in Copies(h0, n, h) /\ n \notin New
  BY <1>1 DEF Copies
<1>6. copied \in Injection(New, rest)
  <2>1. \A q \in New : cp[q] \in rest
    BY <1>4, <1>5
  <2> HIDE DEF rest, New
  <2>2. copied \in [New -> rest]
    BY <2>1
  <2>3. \A p, q \in New : copied[p] = copied[q] => p = q
    BY <1>4, <1>5
  <2> HIDE DEF copied
  <2> QED
    BY <2>2, <2>3 DEF Injection, IsInjective
<1> HIDE DEF copied, rest, New, O, Old
<1>7. Cardinality(New) <= Cardinality(O) - 2
  BY <1>2, <1>6, FS_Injection
<1> SUFFICES ASSUME Unused(h) = {} PROVE FALSE
  BY DEF h
<1>8. Cells \subseteq Old \union New
  BY DEF Unused, Old, New
<1>9. /\ IsFiniteSet(Old \union New)
      /\ Cardinality(Old \union New)
           = Cardinality(Old) + Cardinality(New) - Cardinality(Old \intersect New)
  BY <1>3, FS_Union
<1>10. Old \intersect New = {}
  BY DEF Old, New
<1>11. Cardinality(Cells) <= Cardinality(Old) + Cardinality(New)
  <2>1. Cardinality(Cells) <= Cardinality(Old \union New)
    <3> DEFINE U == Old \union New
    <3> HIDE DEF U
    <3> QED
      BY <1>8, <1>9, FS_Subset DEF U
  <2>2. Cardinality(Old \intersect New) = 0
    BY <1>10, FS_EmptySet
  <2> QED
    BY <1>3, <1>9, <2>1, <2>2
<1>12. Cardinality(O) - 1 + Cardinality(Old) <= Cardinality(Cells)
  BY DEF Enough, O, Old
<1> QED
  BY <1>2, <1>3, <1>7, <1>11, <1>12, AddressFacts

(* The same of every node and every child                                  *)
AddedNode(g, h, n, item, m) ==
  /\ m \in Cells \ h.alive /\ g.alive = h.alive \union {m}
  /\ m \in Addresses /\ n \in Addresses /\ m # n
  /\ \A x \in Addresses : x # m => g.parent[x] = h.parent[x] /\ g.item[x] = h.item[x]
  /\ \A x \in Addresses : x # n => g.children[x] = h.children[x]
  /\ g.parent[m] = n /\ g.item[m] = item
  /\ Len(h.children[n]) \in Nat /\ Len(g.children[n]) = Len(h.children[n]) + 1
  /\ DOMAIN h.children[n] = 1..Len(h.children[n])
  /\ DOMAIN g.children[n] = 1..Len(h.children[n]) + 1
  /\ \A i \in DOMAIN h.children[n] : g.children[n][i] = h.children[n][i]
  /\ g.children[n][Len(h.children[n]) + 1] = m /\ Last(g.children[n]) = m
  /\ h.children[m] = <<>>

(* What AddedAs says of them *)
LEMMA AddedSeen ==
  ASSUME NEW h, Forest(h), NEW n \in h.alive, NEW item, NEW g, NEW m,
         AddedAs(g, h, n, item, m)
  PROVE  AddedNode(g, h, n, item, m)
<1> DEFINE c == h.children[n]
<1>1. /\ ForestBut(h, {}) /\ n \in Addresses
      /\ h.alive \subseteq Addresses /\ h.parent \in [Addresses -> Above]
      /\ h.item \in [Addresses -> AllItems]
      /\ h.children \in [Addresses -> Seq(Addresses)]
      /\ c \in Seq(Addresses) /\ Len(c) \in Nat /\ DOMAIN c = 1..Len(c)
  BY ForestFacts DEF Forest
<1>2. m \in Cells \ h.alive /\ m \in Addresses /\ m # n
  BY DEF AddedAs, Addresses
<1>3. /\ g.alive = h.alive \union {m} /\ g.parent[m] = n /\ g.item[m] = item
      /\ \A x \in Addresses : x # m => /\ g.parent[x] = h.parent[x]
                                       /\ g.item[x] = h.item[x]
      /\ \A x \in Addresses : x # n => g.children[x] = h.children[x]
      /\ g.children[n] = Append(c, m)
  BY <1>1, <1>2 DEF AddedAs
<1>4. h.children[m] = <<>>
  BY <1>1, <1>2, ForestFacts
<1> HIDE DEF c
<1> DEFINE d == Append(c, m)
<1>5. /\ d \in Seq(Addresses) /\ Len(d) = Len(c) + 1
      /\ \A i \in 1..Len(c) : d[i] = c[i]
      /\ d[Len(c) + 1] = m
  BY <1>1, <1>2, AppendProperties
<1> HIDE DEF d
<1>6. DOMAIN d = 1..Len(c) + 1
  BY <1>5, LenProperties
<1>7. Last(d) = m
  BY <1>5 DEF Last
<1>8. g.children[n] = d
  BY <1>3 DEF d
<1> QED
  BY <1>1, <1>2, <1>3, <1>4, <1>5, <1>6, <1>7, <1>8 DEF AddedNode, c

(* A call that calls: the calls below it stay, it goes on to its next      *)
(* child, and the new call is on top.                                      *)
Called(c, q, f) ==
  /\ c \in Seq(Frames) /\ Len(c) = Len(q) + 1 /\ Len(q) \in Nat \ {0}
  /\ \A j \in 1..Len(q) :
       /\ c[j].to = q[j].to /\ c[j].from = q[j].from
       /\ c[j].next = IF j = Len(q) THEN q[j].next + 1 ELSE q[j].next
  /\ c[Len(q) + 1] = f

(* That is what the step does to them. *)
LEMMA CallsGrow ==
  ASSUME NEW q \in Seq(Frames), q # <<>>, NEW f \in Frames,
         NEW c, c = Append([q EXCEPT ![Len(q)].next = @ + 1], f)
  PROVE  Called(c, q, f)
<1> DEFINE len == Len(q)
           top == q[len]
           e == [top EXCEPT !.next = @ + 1]
           b == [q EXCEPT ![len] = e]
<1>1. len \in Nat \ {0} /\ len \in 1..Len(q)
  BY EmptySeq
<1>2. top \in Frames
  BY <1>1, ElementOfSeq
<1> HIDE DEF top
<1>3. /\ e \in Frames /\ e.to = top.to /\ e.from = top.from
      /\ e.next = top.next + 1
  <2>1. /\ top.to \in Addresses /\ top.from \in Addresses /\ top.next \in Nat
        /\ top = [to |-> top.to, from |-> top.from, next |-> top.next]
    BY <1>2 DEF Frames
  <2>2. e = [to |-> top.to, from |-> top.from, next |-> top.next + 1]
    BY <2>1
  <2> HIDE DEF e
  <2> QED
    BY <2>1, <2>2 DEF Frames
<1>4. c = Append(b, f)
  BY DEF top
<1> HIDE DEF e
<1>5. /\ b \in Seq(Frames) /\ Len(b) = Len(q)
      /\ \A j \in 1..Len(q) : b[j] = IF j = len THEN e ELSE q[j]
  BY <1>1, <1>3, ExceptSeq
<1> HIDE DEF b
<1>6. /\ c \in Seq(Frames) /\ Len(c) = Len(b) + 1
      /\ \A j \in 1..Len(b) : c[j] = b[j]
      /\ c[Len(b) + 1] = f
  <2>1. b \in Seq(Frames)
    BY <1>5
  <2>2. /\ Append(b, f) \in Seq(Frames) /\ Len(Append(b, f)) = Len(b) + 1
        /\ \A j \in 1..Len(b) : Append(b, f)[j] = b[j]
        /\ Append(b, f)[Len(b) + 1] = f
    BY <2>1, AppendProperties
  <2> QED
    BY <1>4, <2>2
<1>7. ASSUME NEW j \in 1..Len(q)
      PROVE  /\ c[j].to = q[j].to /\ c[j].from = q[j].from
             /\ c[j].next = IF j = Len(q) THEN q[j].next + 1 ELSE q[j].next
  <2>1. c[j] = IF j = len THEN e ELSE q[j]
    BY <1>5, <1>6
  <2>2. CASE j = len
    BY <1>3, <2>1, <2>2 DEF top
  <2>3. CASE j # len
    BY <2>1, <2>3
  <2> QED
    BY <2>2, <2>3
<1> QED
  BY <1>1, <1>5, <1>6, <1>7 DEF Called

(* The copy of one more child: m is made for kid, below to.                *)
Copied1(h0, n, o, s, cp, t, cpn, to, from, next, kid, m) ==
  /\ Comes(h0, n, o, s, cp, to, from, next)
  /\ next \in 1..Len(h0.children[from]) /\ kid = h0.children[from][next]
  /\ kid \in Owned(h0, o) /\ kid \in h0.alive \ {n} /\ kid \in Addresses
  /\ \A q \in Copies(h0, n, s.heap) : cp[q] # kid
  /\ AddedNode(t.heap, s.heap, to, h0.item[kid], m)
  /\ t \in States /\ Forest(t.heap)
  /\ t.calls = Append([s.calls EXCEPT ![Len(s.calls)].next = @ + 1], Call(m, kid))
  /\ cpn = [x \in Copies(h0, n, t.heap) |-> IF x = m THEN kid ELSE cp[x]]

(* The step of a call that is not done *)
LEMMA GraftAdds ==
  ASSUME NEW h0, NEW n, NEW o, CopyPlace(h0, n, o), Enough(h0, o), NEW s, NEW cp,
         GraftInv(h0, n, o, s, cp), NEW to, NEW from, NEW next,
         Comes(h0, n, o, s, cp, to, from, next),
         ~ (next > Len(h0.children[from]))
  PROVE  \E t, cpn, kid, m :
           /\ t = GraftStep(s)
           /\ Copied1(h0, n, o, s, cp, t, cpn, to, from, next, kid, m)
<1> DEFINE h == s.heap
           g == add_child(h, to, h0.item[h0.children[from][next]])
           t == GraftStep(s)
<1>1. /\ next \in 1..Len(h0.children[from])
      /\ h0.children[from][next] \in Owned(h0, o) \ {o}
      /\ h0.children[from][next] \in h0.alive \ {n}
      /\ h0.children[from][next] \in Addresses
      /\ \A q \in Copies(h0, n, s.heap) : cp[q] # h0.children[from][next]
  BY GraftFinds
<1>2. PICK kid : kid = h0.children[from][next]
  OBVIOUS
<1>3. Unused(h) # {}
  BY <1>1, <1>2, GraftRoom
<1>4. Forest(h) /\ h \in Heaps /\ to \in h.alive /\ to \in Addresses
  BY DEF GraftInv, Forest, ForestBut, Comes
<1>5. h0.item[kid] \in AllItems
  BY <1>1, <1>2, ForestFacts DEF CopyPlace, Forest
<1>6. h.item[kid] = h0.item[kid]
  BY <1>1, <1>2 DEF GraftInv, OldKept
<1>7. g = add_child(h, to, h0.item[kid])
  BY <1>2
<1>8. t = [heap |-> g,
           calls |-> Append([s.calls EXCEPT ![Len(s.calls)].next = @ + 1],
                            Call(Last(g.children[to]), kid))]
  <2>1. h.children[from] = h0.children[from] /\ s.calls # <<>>
        /\ ~ (next > Len(h.children[from]))
    BY DEF Comes
  <2>2. /\ Last(s.calls).to = to /\ Last(s.calls).from = from
        /\ Last(s.calls).next = next
    BY DEF Comes
  <2> QED
    BY <1>2, <1>6, <2>1, <2>2 DEF GraftStep
<1> HIDE DEF g, h, t
<1>9. PICK m : AddedAs(g, h, to, h0.item[kid], m) /\ g \in Heaps
  BY <1>3, <1>4, <1>5, <1>7, AddChildFields
<1>10. Forest(g)
  BY <1>3, <1>4, <1>5, <1>7, AddChildKeeps
<1>11. AddedNode(g, h, to, h0.item[kid], m)
  BY <1>4, <1>9, AddedSeen
<1>12. Last(g.children[to]) = m /\ m \in Addresses
  BY <1>11 DEF AddedNode
<1> DEFINE calls == Append([s.calls EXCEPT ![Len(s.calls)].next = @ + 1],
                           Call(m, kid))
           cpn == [x \in Copies(h0, n, g) |-> IF x = m THEN kid ELSE cp[x]]
<1>13. t = [heap |-> g, calls |-> calls]
  BY <1>8, <1>12
<1>14. calls \in Seq(Frames)
  <2>1. Call(m, kid) \in Frames
    BY <1>1, <1>2, <1>12 DEF Call, Frames
  <2>2. s.calls \in Seq(Frames) /\ s.calls # <<>>
    BY DEF GraftInv, CallsFit, Comes
  <2> DEFINE f == Call(m, kid)
             q == s.calls
  <2> HIDE DEF f, q
  <2>3. calls = Append([q EXCEPT ![Len(q)].next = @ + 1], f)
    BY DEF f, q
  <2> HIDE DEF calls
  <2> QED
    BY <2>1, <2>2, <2>3, CallsGrow DEF f, q, Called
<1> HIDE DEF calls
<1>15. t \in States /\ t.heap = g /\ t.calls = calls
  BY <1>9, <1>13, <1>14 DEF States
<1>16. Copied1(h0, n, o, s, cp, t, cpn, to, from, next, kid, m)
  BY <1>1, <1>2, <1>10, <1>11, <1>15 DEF Copied1, h, calls
<1> QED
  BY <1>16 DEF t

(* The copy of one more child keeps the invariant. *)
LEMMA GraftCalls ==
  ASSUME NEW h0, NEW n, NEW o, CopyPlace(h0, n, o), NEW s, NEW cp,
         GraftInv(h0, n, o, s, cp), NEW t, NEW cpn, NEW to, NEW from, NEW next,
         NEW kid, NEW m, Copied1(h0, n, o, s, cp, t, cpn, to, from, next, kid, m)
  PROVE  /\ GraftInv(h0, n, o, t, cpn)
         /\ t.heap.alive \ h0.alive = (s.heap.alive \ h0.alive) \union {m}
         /\ m \notin s.heap.alive \ h0.alive
         /\ Len(t.calls) = Len(s.calls) + 1
<1> DEFINE h == s.heap
           g == t.heap
           C == Copies(h0, n, h)
           D == Copies(h0, n, g)
           q == s.calls
           c == t.calls
           len == Len(q)
<1>0. ForestBut(h, {}) /\ ForestBut(h0, {})
  BY DEF GraftInv, CopyPlace, Forest
<1>1. /\ to \in C /\ from = cp[to] /\ from \in Owned(h0, o) /\ next \in Nat
      /\ Len(h.children[to]) + 1 = Len(h0.children[to]) + next
      /\ q # <<>> /\ q[len].to = to /\ q[len].from = from /\ q[len].next = next
      /\ to \in Addresses /\ from \in Addresses
  BY DEF Copied1, Comes
<1>2. /\ next \in 1..Len(h0.children[from]) /\ kid = h0.children[from][next]
      /\ kid \in Owned(h0, o) /\ kid \in Addresses
      /\ \A x \in C : cp[x] # kid
      /\ cpn = [x \in D |-> IF x = m THEN kid ELSE cp[x]]
      /\ t \in States /\ Forest(g)
  BY DEF Copied1
<1>3. /\ m \in Cells \ h.alive /\ g.alive = h.alive \union {m}
      /\ m \in Addresses /\ m # to
      /\ \A x \in Addresses : x # m => /\ g.parent[x] = h.parent[x]
                                       /\ g.item[x] = h.item[x]
      /\ \A x \in Addresses : x # to => g.children[x] = h.children[x]
      /\ g.parent[m] = to /\ g.item[m] = h0.item[kid]
      /\ Len(h.children[to]) \in Nat
      /\ Len(g.children[to]) = Len(h.children[to]) + 1
      /\ DOMAIN h.children[to] = 1..Len(h.children[to])
      /\ DOMAIN g.children[to] = 1..Len(h.children[to]) + 1
      /\ \A i \in DOMAIN h.children[to] : g.children[to][i] = h.children[to][i]
      /\ g.children[to][Len(h.children[to]) + 1] = m
      /\ h.children[m] = <<>>
  BY DEF Copied1, AddedNode
<1>4. /\ OldKept(h0, n, h) /\ CopyOf(h0, n, o, h, cp) /\ CopyLists(h0, n, h, cp)
      /\ CallsFit(h0, n, s, cp) /\ ListsDone(h0, n, s, cp)
      /\ q \in Seq(Frames)
  BY DEF GraftInv, CallsFit
<1>5. /\ c \in Seq(Frames) /\ Len(c) = len + 1 /\ len \in Nat \ {0}
      /\ \A j \in 1..len :
           /\ c[j].to = q[j].to /\ c[j].from = q[j].from
           /\ c[j].next = IF j = len THEN q[j].next + 1 ELSE q[j].next
      /\ c[len + 1] = Call(m, kid)
  <2> DEFINE f == Call(m, kid)
  <2>1. f \in Frames
    BY <1>2, <1>3 DEF Call, Frames
  <2>2. c = Append([q EXCEPT ![Len(q)].next = @ + 1], f)
    BY DEF Copied1
  <2> HIDE DEF f, c, q, len, h, g
  <2>4. q \in Seq(Frames) /\ q # <<>>
    BY <1>1, <1>4
  <2>3. Called(c, q, f)
    BY <2>1, <2>2, <2>4, CallsGrow
  <2> HIDE DEF q
  <2> QED
    BY <2>3 DEF Called, f, len
<1> HIDE DEF h, g, q, c
<1>6. /\ Call(m, kid).to = m /\ Call(m, kid).from = kid /\ Call(m, kid).next = 1
  BY DEF Call
<1>7. /\ n \in h0.alive /\ h0.alive \subseteq h.alive /\ h.alive \subseteq Addresses
      /\ C \subseteq h.alive /\ D = C \union {m} /\ m \notin C
      /\ m \notin h0.alive /\ m # n /\ n \in C /\ to \notin h0.alive \ {n}
      /\ h.alive \ h0.alive \subseteq C
  <2>1. n \in h0.alive /\ h0.alive \subseteq h.alive /\ h.alive \subseteq Addresses
    BY <1>0, <1>4, ForestFacts DEF CopyPlace, OldKept
  <2>2. /\ \A x : x \in C <=> (x \in h.alive /\ x \notin h0.alive) \/ x = n
        /\ \A x : x \in D <=> (x \in g.alive /\ x \notin h0.alive) \/ x = n
    BY DEF Copies
  <2> HIDE DEF C, D
  <2>3. m \notin h0.alive /\ m # n /\ m \notin C
    BY <1>3, <2>1, <2>2
  <2>4. D = C \union {m}
    BY <1>3, <2>1, <2>2, <2>3
  <2> QED
    BY <1>1, <2>1, <2>2, <2>3, <2>4
<1>8. h0.children[m] = <<>> /\ g.children[m] = <<>>
  BY <1>0, <1>3, <1>7, ForestFacts
<1> HIDE DEF C, D
<1>9. cpn[m] = kid /\ \A x \in C : cpn[x] = cp[x]
  BY <1>2, <1>7
<1>10. OldKept(h0, n, g)
  <2>1. g.alive \ h0.alive \subseteq Cells /\ h0.alive \subseteq g.alive
    BY <1>3, <1>4, <1>7 DEF OldKept
  <2>2. ASSUME NEW x \in h0.alive
        PROVE  g.parent[x] = h0.parent[x] /\ g.item[x] = h0.item[x]
    BY <1>3, <1>4, <1>7 DEF OldKept
  <2>3. ASSUME NEW x \in h0.alive \ {n} PROVE g.children[x] = h0.children[x]
    BY <1>3, <1>4, <1>7 DEF OldKept
  <2> QED
    BY <2>1, <2>2, <2>3 DEF OldKept
<1>11. CopyOf(h0, n, o, g, cpn)
  <2>1. /\ cp \in [C -> Owned(h0, o)] /\ cp[n] = o
        /\ \A x, y \in C : cp[x] = cp[y] => x = y
        /\ \A x \in h.alive \ h0.alive :
             h.parent[x] \in C /\ h.item[x] = h0.item[cp[x]]
    BY <1>4 DEF CopyOf, C
  <2>2. cpn \in [D -> Owned(h0, o)]
    BY <1>2, <1>7, <2>1
  <2>3. ASSUME NEW x \in D, NEW y \in D, cpn[x] = cpn[y] PROVE x = y
    BY <1>2, <1>7, <1>9, <2>1, <2>3
  <2>4. ASSUME NEW x \in g.alive \ h0.alive
        PROVE  g.parent[x] \in D /\ g.item[x] = h0.item[cpn[x]]
    <3>1. CASE x = m
      BY <1>1, <1>3, <1>7, <1>9, <3>1
    <3>2. CASE x # m
      <4>1. x \in h.alive \ h0.alive /\ x \in C /\ x \in Addresses
        BY <1>3, <1>7, <3>2
      <4> QED
        BY <1>3, <1>7, <1>9, <2>1, <3>2, <4>1
    <3> QED
      BY <3>1, <3>2
  <2>5. cpn[n] = o
    BY <1>7, <1>9, <2>1
  <2> QED
    BY <2>2, <2>3, <2>4, <2>5 DEF CopyOf, D
<1>12. CopyLists(h0, n, g, cpn)
  <2> SUFFICES ASSUME NEW p \in D
               PROVE
        /\ \A i \in DOMAIN h0.children[p] :
             i \in DOMAIN g.children[p] /\ g.children[p][i] = h0.children[p][i]
        /\ \A i \in DOMAIN g.children[p] : i > Len(h0.children[p]) =>
             /\ g.children[p][i] \in g.alive \ h0.alive
             /\ i - Len(h0.children[p]) \in DOMAIN h0.children[cpn[p]]
             /\ cpn[g.children[p][i]] = h0.children[cpn[p]][i - Len(h0.children[p])]
    BY DEF CopyLists, D
  <2>1. CASE p = m
    BY <1>8, <2>1
  <2>2. CASE p # m
    <3>1. p \in C /\ p \in Addresses /\ cpn[p] = cp[p]
      BY <1>7, <1>9, <2>2
    <3>2. /\ \A i \in DOMAIN h0.children[p] :
               i \in DOMAIN h.children[p] /\ h.children[p][i] = h0.children[p][i]
          /\ \A i \in DOMAIN h.children[p] : i > Len(h0.children[p]) =>
               /\ h.children[p][i] \in h.alive \ h0.alive
               /\ i - Len(h0.children[p]) \in DOMAIN h0.children[cp[p]]
               /\ cp[h.children[p][i]] = h0.children[cp[p]][i - Len(h0.children[p])]
      BY <1>4, <3>1 DEF CopyLists, C
    <3>3. ASSUME NEW i \in DOMAIN h.children[p], i > Len(h0.children[p])
          PROVE  /\ h.children[p][i] \in g.alive \ h0.alive
                 /\ cpn[h.children[p][i]]
                      = h0.children[cp[p]][i - Len(h0.children[p])]
      BY <1>3, <1>7, <1>9, <3>2, <3>3
    <3>4. ASSUME NEW i \in DOMAIN h0.children[p]
          PROVE  i \in DOMAIN g.children[p] /\ g.children[p][i] = h0.children[p][i]
      <4>1. i \in DOMAIN h.children[p] /\ h.children[p][i] = h0.children[p][i]
        BY <3>2
      <4>2. CASE p = to
        BY <1>3, <4>1, <4>2
      <4>3. CASE p # to
        BY <1>3, <3>1, <4>1, <4>3
      <4> QED
        BY <4>2, <4>3
    <3>5. ASSUME NEW i \in DOMAIN g.children[p], i > Len(h0.children[p])
          PROVE  /\ g.children[p][i] \in g.alive \ h0.alive
                 /\ i - Len(h0.children[p]) \in DOMAIN h0.children[cp[p]]
                 /\ cpn[g.children[p][i]]
                      = h0.children[cp[p]][i - Len(h0.children[p])]
      <4>1. CASE p # to
        BY <1>3, <3>1, <3>2, <3>3, <3>5, <4>1
      <4>2. CASE p = to /\ i \in DOMAIN h.children[to]
        <5>1. i \in DOMAIN h.children[p] /\ g.children[p][i] = h.children[p][i]
          BY <1>3, <4>2
        <5> QED
          BY <3>2, <3>3, <3>5, <5>1
      <4>3. CASE p = to /\ i \notin DOMAIN h.children[to]
        <5>1. i = Len(h.children[to]) + 1
          BY <1>3, <4>3
        <5>2. /\ Len(h0.children[to]) \in Nat
              /\ DOMAIN h0.children[from] = 1..Len(h0.children[from])
          BY <1>0, <1>1, ListFacts
        <5>3. i - Len(h0.children[to]) = next
          BY <1>1, <1>3, <5>1, <5>2
        <5> QED
          BY <1>1, <1>2, <1>3, <1>7, <1>9, <4>3, <5>1, <5>2, <5>3
      <4> QED
        BY <4>1, <4>2, <4>3
    <3> QED
      BY <3>1, <3>4, <3>5
  <2> QED
    BY <2>1, <2>2
<1>13. \A j \in 1..len : q[j].to = to => j = len
  BY <1>1, <1>4, <1>5 DEF CallsFit, q
<1>14. ASSUME NEW j \in 1..len
       PROVE  /\ q[j].to \in C /\ q[j].from = cp[q[j].to]
              /\ Len(h.children[q[j].to]) + 1 = Len(h0.children[q[j].to]) + q[j].next
  BY <1>4 DEF CallsFit, q, h, C
<1>15. ASSUME NEW j \in 1..len + 1
       PROVE  /\ c[j].to \in D /\ c[j].from = cpn[c[j].to]
              /\ Len(g.children[c[j].to]) + 1 = Len(h0.children[c[j].to]) + c[j].next
  <2>1. CASE j = len + 1
    <3>1. c[j].to = m /\ c[j].from = kid /\ c[j].next = 1
      BY <1>5, <1>6, <2>1
    <3>2. Len(g.children[m]) = Len(h0.children[m])
      BY <1>8
    <3>3. Len(h0.children[m]) = 0
      BY <1>8
    <3> QED
      BY <1>7, <1>9, <3>1, <3>2, <3>3
  <2>2. CASE j = len
    <3>1. c[j].to = to /\ c[j].from = from /\ c[j].next = next + 1
      BY <1>1, <1>5, <2>2
    <3>2. Len(h0.children[to]) \in Nat
      BY <1>0, <1>1, ListFacts
    <3>3. Len(g.children[to]) + 1 = Len(h0.children[to]) + (next + 1)
      <4> DEFINE a == Len(g.children[to])
                 b == Len(h.children[to])
                 d == Len(h0.children[to])
      <4>1. a = b + 1 /\ b + 1 = d + next /\ b \in Nat /\ d \in Nat /\ next \in Nat
        BY <1>1, <1>3, <3>2
      <4> HIDE DEF a, b, d
      <4>2. a + 1 = d + (next + 1)
        BY <4>1
      <4> QED
        BY <4>2 DEF a, d
    <3>4. to \in D /\ from = cpn[to]
      BY <1>1, <1>7, <1>9
    <3> QED
      BY <3>1, <3>3, <3>4
  <2>3. CASE j # len + 1 /\ j # len
    <3>1. j \in 1..len /\ j # len
      BY <1>5, <2>3
    <3>2. PICK x : x = q[j].to
      OBVIOUS
    <3>3. c[j].to = x /\ c[j].from = q[j].from /\ c[j].next = q[j].next
      BY <1>5, <3>1, <3>2
    <3>4. /\ x \in C /\ q[j].from = cp[x]
          /\ Len(h.children[x]) + 1 = Len(h0.children[x]) + q[j].next
      BY <1>14, <3>1, <3>2
    <3>5. x # to /\ x \in Addresses
      BY <1>7, <1>13, <3>1, <3>2, <3>4
    <3> QED
      BY <1>3, <1>7, <1>9, <3>3, <3>4, <3>5
  <2> QED
    BY <2>1, <2>2, <2>3
<1>16. ASSUME NEW i \in 1..len + 1, NEW j \in 1..len + 1, c[i].to = c[j].to
       PROVE  i = j
  <2>1. \A k \in 1..len : c[k].to = q[k].to /\ q[k].to \in C
    BY <1>5, <1>14
  <2>2. c[len + 1].to = m
    BY <1>5, <1>6
  <2>3. \A x, y \in 1..len : q[x].to = q[y].to => x = y
    BY <1>4 DEF CallsFit, q
  <2>4. CASE i = len + 1
    BY <1>5, <1>7, <1>16, <2>1, <2>2, <2>4
  <2>5. CASE j = len + 1
    BY <1>5, <1>7, <1>16, <2>1, <2>2, <2>5
  <2>6. CASE i # len + 1 /\ j # len + 1
    <3>1. i \in 1..len /\ j \in 1..len
      BY <1>5, <2>6
    <3> QED
      BY <1>16, <2>1, <2>3, <3>1
  <2> QED
    BY <2>4, <2>5, <2>6
<1>17. CallsFit(h0, n, t, cpn)
  BY <1>5, <1>15, <1>16 DEF CallsFit, c, g, D
<1>18. ListsDone(h0, n, t, cpn)
  <2> SUFFICES ASSUME NEW p \in D, \A j \in 1..Len(c) : c[j].to # p
               PROVE  Len(g.children[p])
                        = Len(h0.children[p]) + Len(h0.children[cpn[p]])
    BY DEF ListsDone, D, c, g
  <2>1. len \in 1..Len(c) /\ len + 1 \in 1..Len(c)
    BY <1>5
  <2>2. p # m
    BY <1>5, <1>6, <2>1
  <2>3. c[len].to = to
    BY <1>1, <1>5
  <2>4. p # to
    BY <2>1, <2>3
  <2>5. p \in C /\ p \in Addresses /\ cpn[p] = cp[p]
    BY <1>7, <1>9, <2>2
  <2>6. \A j \in 1..len : q[j].to # p
    <3> SUFFICES ASSUME NEW j \in 1..len PROVE q[j].to # p
      OBVIOUS
    <3>1. j \in 1..Len(c) /\ c[j].to = q[j].to
      BY <1>5
    <3> QED
      BY <3>1
  <2>7. Len(h.children[p]) = Len(h0.children[p]) + Len(h0.children[cp[p]])
    BY <1>4, <2>5, <2>6 DEF ListsDone, C, q, h
  <2> QED
    BY <1>3, <2>4, <2>5, <2>7
<1>19. GraftInv(h0, n, o, t, cpn)
  BY <1>2, <1>10, <1>11, <1>12, <1>17, <1>18 DEF GraftInv, g
<1>20. /\ g.alive \ h0.alive = (h.alive \ h0.alive) \union {m}
       /\ m \notin h.alive \ h0.alive
  BY <1>3, <1>7
<1> QED
  BY <1>5, <1>19, <1>20 DEF g, h, c, q

(* The states of a copy, one after the other, up to the last one           *)
IsCopyRun(f, h, n, o) ==
  /\ f[0] = Begin(h, n, o)
  /\ \A k \in 1..2 * Cardinality(Addresses) : f[k] = GraftStep(f[k - 1])
  /\ GraftAll(h, n, o) = f[2 * Cardinality(Addresses)].heap

(* There is such a sequence of states. *)
LEMMA GraftRuns ==
  ASSUME NEW h, NEW n, NEW o
  PROVE  \E f : IsCopyRun(f, h, n, o)
<1> DEFINE Eq(f, k) ==
             f = [i \in 0..k |->
                    IF i = 0 THEN [heap |-> h, calls |-> <<Call(n, o)>>]
                    ELSE GraftStep(f[i - 1])]
           P == {k \in Nat : \E f : Eq(f, k)}
           last == 2 * Cardinality(Addresses)
<1>1. last \in Nat
  BY AddressFacts
<1>2. 0 \in P
  <2> DEFINE b == [heap |-> h, calls |-> <<Call(n, o)>>]
             g == [i \in 0..0 |-> b]
  <2>1. \A i \in 0..0 : i = 0
    OBVIOUS
  <2> HIDE DEF b
  <2>2. g = [i \in 0..0 |-> IF i = 0 THEN b ELSE GraftStep(g[i - 1])]
    BY <2>1
  <2>3. Eq(g, 0)
    BY <2>2 DEF b
  <2> QED
    BY <2>3
<1>3. \A k \in Nat : k \in P => k + 1 \in P
  <2> HIDE DEF Eq
  <2> SUFFICES ASSUME NEW k \in Nat, NEW f, Eq(f, k) PROVE \E g : Eq(g, k + 1)
    OBVIOUS
  <2> USE DEF Eq
  <2> DEFINE b == [heap |-> h, calls |-> <<Call(n, o)>>]
             new == GraftStep(f[k])
             g == [i \in 0..k + 1 |-> IF i = k + 1 THEN new ELSE f[i]]
             val(i) == IF i = 0 THEN b ELSE GraftStep(g[i - 1])
  <2> HIDE DEF b, new
  <2>1. f = [i \in 0..k |-> IF i = 0 THEN b ELSE GraftStep(f[i - 1])]
    BY DEF b
  <2>2. ASSUME NEW i \in 0..k + 1 PROVE g[i] = val(i)
    <3>1. CASE i = k + 1
      <4>1. i # 0 /\ i - 1 = k /\ k \in 0..k + 1 /\ k # k + 1
        BY <3>1
      <4>2. g[i] = new /\ g[k] = f[k]
        BY <3>1, <4>1
      <4> HIDE DEF g
      <4> QED
        BY <4>1, <4>2 DEF new
    <3>2. CASE i # k + 1
      <4>1. i \in 0..k /\ g[i] = f[i]
        BY <3>2
      <4>2. CASE i = 0
        BY <2>1, <4>1, <4>2
      <4>3. CASE i # 0
        <5>1. i - 1 \in 0..k + 1 /\ i - 1 # k + 1
          BY <4>1, <4>3
        <5>2. g[i - 1] = f[i - 1]
          BY <5>1
        <5>3. f[i] = GraftStep(f[i - 1])
          BY <2>1, <4>1, <4>3
        <5> HIDE DEF g
        <5> QED
          BY <4>1, <4>3, <5>2, <5>3
      <4> QED
        BY <4>2, <4>3
    <3> QED
      BY <3>1, <3>2
  <2>3. g = [i \in 0..k + 1 |-> g[i]]
    OBVIOUS
  <2> HIDE DEF g, val
  <2>4. g = [i \in 0..k + 1 |-> val(i)]
    BY <2>2, <2>3
  <2>5. Eq(g, k + 1)
    BY <2>4 DEF val, b
  <2> QED
    BY <2>5
<1> HIDE DEF P
<1>4. last \in P
  BY <1>1, <1>2, <1>3, Induction
<1>5. PICK f0 : Eq(f0, last)
  BY <1>4 DEF P
<1> DEFINE f == CHOOSE f : Eq(f, last)
<1>6. Eq(f, last)
  <2> HIDE DEF Eq, last
  <2> QED
    BY <1>5
<1>7. GraftAll(h, n, o) = f[last].heap
  BY DEF GraftAll
<1> HIDE DEF f
<1>8. 0 \in 0..last
  BY <1>1
<1>9. f[0] = Begin(h, n, o)
  BY <1>6, <1>8 DEF Begin
<1>10. ASSUME NEW k \in 1..last PROVE f[k] = GraftStep(f[k - 1])
  <2>1. k \in 0..last /\ k # 0
    BY <1>1
  <2> HIDE DEF last
  <2> QED
    BY <1>6, <2>1
<1> QED
  BY <1>7, <1>9, <1>10 DEF IsCopyRun

(* One step of a copy *)
LEMMA CopyingGoesOn ==
  ASSUME NEW h0, NEW n, NEW o, CopyPlace(h0, n, o), Enough(h0, o),
         NEW k \in Nat, NEW s, CopyingAt(h0, n, o, s, k)
  PROVE  CopyingAt(h0, n, o, GraftStep(s), k + 1)
<1>1. PICK cp :
        /\ GraftInv(h0, n, o, s, cp)
        /\ \/ s.calls = <<>>
           \/ k + Len(s.calls) = 2 * Cardinality(s.heap.alive \ h0.alive) + 1
  BY DEF CopyingAt
<1> DEFINE t == GraftStep(s)
           New == s.heap.alive \ h0.alive
<1>2. IsFiniteSet(New) /\ Cardinality(New) \in Nat
  <2>1. New \subseteq Cells
    BY <1>1 DEF GraftInv, OldKept
  <2> QED
    BY <2>1, AddressFacts, FS_Subset, FS_CardinalityType
<1>3. CASE s.calls = <<>>
  <2>1. t = s
    BY <1>3 DEF GraftStep
  <2> QED
    BY <1>1, <1>3, <2>1 DEF CopyingAt
<1>4. CASE s.calls # <<>>
  <2>1. PICK to, from, next : Comes(h0, n, o, s, cp, to, from, next)
    BY <1>1, <1>4, TopFrame
  <2>2. /\ Last(s.calls).from = from /\ Last(s.calls).next = next
        /\ s.heap.children[from] = h0.children[from]
        /\ Len(s.calls) \in Nat
    BY <2>1 DEF Comes
  <2>3. k + Len(s.calls) = 2 * Cardinality(New) + 1
    BY <1>1, <1>4
  <2>4. CASE next > Len(h0.children[from])
    <3>1. Last(s.calls).next > Len(s.heap.children[Last(s.calls).from])
      BY <2>2, <2>4
    <3>2. /\ t.heap = s.heap /\ Len(t.calls) = Len(s.calls) - 1
          /\ GraftInv(h0, n, o, t, cp)
      BY <1>1, <1>4, <3>1, GraftReturns
    <3> HIDE DEF t, New
    <3>3. k + 1 + Len(t.calls) = 2 * Cardinality(New) + 1
      BY <2>2, <2>3, <3>2
    <3> QED
      BY <3>2, <3>3 DEF CopyingAt, t, New
  <2>5. CASE ~ (next > Len(h0.children[from]))
    <3>1. PICK t1, cpn, kid, m :
            /\ t1 = t /\ Copied1(h0, n, o, s, cp, t1, cpn, to, from, next, kid, m)
      BY <1>1, <2>1, <2>5, GraftAdds
    <3>2. /\ GraftInv(h0, n, o, t1, cpn)
          /\ t1.heap.alive \ h0.alive = (s.heap.alive \ h0.alive) \union {m}
          /\ m \notin s.heap.alive \ h0.alive
          /\ Len(t1.calls) = Len(s.calls) + 1
      BY <1>1, <3>1, GraftCalls
    <3> HIDE DEF t
    <3> DEFINE More == t1.heap.alive \ h0.alive
    <3>3. More = New \union {m} /\ m \notin New
      BY <3>2
    <3> HIDE DEF New, More
    <3>4. Cardinality(More) = Cardinality(New) + 1
      BY <1>2, <3>3, FS_AddElement
    <3>5. k + 1 + Len(t1.calls) = 2 * Cardinality(More) + 1
      <4> DEFINE a == Len(s.calls)
                 b == Len(t1.calls)
                 u == Cardinality(New)
                 v == Cardinality(More)
      <4>1. /\ a \in Nat /\ u \in Nat /\ b = a + 1 /\ v = u + 1
            /\ k + a = 2 * u + 1
        BY <1>2, <2>2, <2>3, <3>2, <3>4
      <4> HIDE DEF a, b, u, v
      <4>2. k + 1 + b = 2 * v + 1
        BY <4>1
      <4> QED
        BY <4>2 DEF b, v
    <3> QED
      BY <3>1, <3>2, <3>5 DEF CopyingAt, t, More
  <2> QED
    BY <2>4, <2>5
<1> QED
  BY <1>3, <1>4

(* A copy that is done: all calls have returned. *)
LEMMA GraftEnds ==
  ASSUME NEW h, NEW n, NEW o, CopyPlace(h, n, o), Enough(h, o)
  PROVE  \E s, cp : /\ GraftInv(h, n, o, s, cp) /\ s.calls = <<>>
                    /\ GraftAll(h, n, o) = s.heap
<1> DEFINE last == 2 * Cardinality(Addresses)
<1>1. PICK f : IsCopyRun(f, h, n, o)
  BY GraftRuns
<1> DEFINE P == {k \in Nat : k <= last => CopyingAt(h, n, o, f[k], k)}
<1>2. last \in Nat
  BY AddressFacts
<1>3. 0 \in P
  <2>1. f[0] = Begin(h, n, o)
    BY <1>1 DEF IsCopyRun
  <2>2. CopyingAt(h, n, o, f[0], 0)
    BY <2>1, GraftBegins
  <2> QED
    BY <2>2
<1>4. \A k \in Nat : k \in P => k + 1 \in P
  <2> SUFFICES ASSUME NEW k \in Nat, k \in P, k + 1 <= last
               PROVE  CopyingAt(h, n, o, f[k + 1], k + 1)
    OBVIOUS
  <2>1. CopyingAt(h, n, o, f[k], k) /\ k + 1 \in 1..last /\ (k + 1) - 1 = k
    BY <1>2
  <2>2. f[k + 1] = GraftStep(f[k])
    BY <1>1, <2>1 DEF IsCopyRun
  <2> QED
    BY <2>1, <2>2, CopyingGoesOn
<1> HIDE DEF P
<1>5. last \in P
  BY <1>2, <1>3, <1>4, Induction
<1>6. CopyingAt(h, n, o, f[last], last)
  BY <1>2, <1>5 DEF P
<1>7. PICK s : s = f[last]
  OBVIOUS
<1>8. PICK cp :
        /\ GraftInv(h, n, o, s, cp)
        /\ \/ s.calls = <<>>
           \/ last + Len(s.calls) = 2 * Cardinality(s.heap.alive \ h.alive) + 1
  BY <1>6, <1>7 DEF CopyingAt
<1>9. GraftAll(h, n, o) = s.heap
  BY <1>1, <1>7 DEF IsCopyRun
<1>10. ASSUME s.calls # <<>> PROVE FALSE
  <2> DEFINE New == s.heap.alive \ h.alive
             Rest == Addresses \ {n}
  <2>1. s.calls \in Seq(Frames) /\ Len(s.calls) \in Nat \ {0}
    BY <1>8, <1>10, EmptySeq DEF GraftInv, CallsFit
  <2>2. n \in Addresses /\ New \subseteq Rest
    BY <1>8, ForestFacts DEF GraftInv, CopyPlace, Forest
  <2>3. IsFiniteSet(Rest) /\ Cardinality(Rest) = Cardinality(Addresses) - 1
    BY <2>2, AddressFacts, FS_RemoveElement
  <2>4. last + Len(s.calls) = 2 * Cardinality(New) + 1
    BY <1>8, <1>10
  <2> HIDE DEF New, Rest
  <2>5. /\ Cardinality(New) <= Cardinality(Rest)
        /\ Cardinality(New) \in Nat
    BY <2>2, <2>3, FS_Subset, FS_CardinalityType
  <2> QED
    BY <2>1, <2>3, <2>4, <2>5, AddressFacts
<1> QED
  BY <1>8, <1>9, <1>10

(* A copy leaves a forest. *)
LEMMA CopyKeeps ==
  ASSUME NEW h, NEW n, NEW o, CopyPlace(h, n, o), Enough(h, o)
  PROVE  Forest(GraftAll(h, n, o))
BY GraftEnds DEF GraftInv

(* The item is set before the children are copied: nothing else changes.   *)
Labelled(h, n, o) == [h EXCEPT !.item[n] = h.item[o]]
LabelledAs(g, h, n, o) ==
  /\ CopyPlace(g, n, o) /\ g.alive = h.alive /\ g.children = h.children
  /\ g.parent = h.parent
  /\ g.item = [h.item EXCEPT ![n] = h.item[o]]
  /\ \A x : Owned(g, x) = Owned(h, x)

(* To set the item of n keeps the place of the copy and all that is owned. *)
LEMMA LabelKeeps ==
  ASSUME NEW h, NEW n, NEW o, CopyPlace(h, n, o)
  PROVE  LabelledAs(Labelled(h, n, o), h, n, o)
<1>20. PICK g : g = Labelled(h, n, o)
  OBVIOUS
<1>0. ForestBut(h, {}) /\ h \in Heaps /\ n \in h.alive /\ o \in h.alive
  BY DEF CopyPlace, Forest, ForestBut
<1>1. /\ h.alive \subseteq Addresses
      /\ h.item \in [Addresses -> AllItems]
  BY <1>0, ForestFacts
<1>2. /\ g.alive = h.alive /\ g.parent = h.parent /\ g.children = h.children
      /\ g.item = [h.item EXCEPT ![n] = h.item[o]]
      /\ g \in [alive : {g.alive}, parent : {g.parent}, item : {g.item},
                children : {g.children}]
  BY <1>0, <1>20 DEF Labelled, Heaps
<1>3. g.item \in [Addresses -> AllItems]
  BY <1>0, <1>1, <1>2
<1>4. g \in Heaps
  BY <1>0, <1>2, <1>3 DEF Heaps
<1>5. Bare(g)
  BY <1>0, <1>1, <1>2 DEF ForestBut, Bare
<1>6. Attached(g, {}) = Attached(h, {})
  BY <1>2 DEF Attached
<1>7. Listed(g, {}) /\ Hanging(g, {}) /\ VariablesFree(g) /\ Distinct(g)
  BY <1>0, <1>2, <1>6 DEF ForestBut, Listed, Hanging, VariablesFree, Distinct
<1>8. PointedUp(g.children, g.parent) /\ Rooted(g.parent)
  BY <1>0, <1>2 DEF ForestBut
<1>9. Forest(g)
  BY <1>4, <1>5, <1>7, <1>8 DEF Forest, ForestBut
<1>10. \A x : Owned(g, x) = Owned(h, x)
  BY <1>2, SameListsOwn
<1>11. CopyPlace(g, n, o)
  BY <1>0, <1>2, <1>9, <1>10 DEF CopyPlace
<1> QED
  BY <1>2, <1>10, <1>11, <1>20 DEF LabelledAs

(* The copy assignment leaves a forest. *)
LEMMA CopiedKeeps ==
  ASSUME NEW h, NEW n, NEW o, CopyPlace(h, n, o), Enough(h, o)
  PROVE  Forest(Copied(h, n, o))
<1>0. PICK g : g = Labelled(h, n, o)
  OBVIOUS
<1>3. LabelledAs(g, h, n, o)
  BY <1>0, LabelKeeps
<1>1. CopyPlace(g, n, o) /\ g.alive = h.alive /\ Owned(g, o) = Owned(h, o)
  BY <1>3 DEF LabelledAs
<1>2. Copied(h, n, o) = GraftAll(g, n, o)
  BY <1>0 DEF Copied, Labelled
<1>4. Enough(g, o)
  BY <1>1 DEF Enough
<1> QED
  BY <1>1, <1>2, <1>4, CopyKeeps

(* There is an element for a new child as long as the bound allows one.    *)
LEMMA OneMore ==
  ASSUME NEW h, Cardinality(h.alive \intersect Cells) < Cardinality(Cells)
  PROVE  Unused(h) # {}
<1> SUFFICES ASSUME Unused(h) = {} PROVE FALSE
  OBVIOUS
<1>1. h.alive \intersect Cells = Cells
  BY DEF Unused
<1> QED
  BY <1>1, AddressFacts

(* Where a node is no ancestor, its copy may be put.                       *)
LEMMA PlaceOf ==
  ASSUME NEW h, Forest(h), NEW n \in h.alive, NEW o \in h.alive, n # o,
         o \notin AncestorsIn(h, n)
  PROVE  CopyPlace(h, n, o)
<1>1. ForestBut(h, {}) /\ o \in Addresses
  BY ForestFacts DEF Forest
<1> QED
  BY <1>1, OwnedAbove DEF CopyPlace

(* Sizes of what a node owns and of the elements that exist *)
LEMMA SizesOf ==
  ASSUME NEW h, Forest(h), NEW o \in h.alive
  PROVE  /\ IsFiniteSet(Owned(h, o)) /\ Cardinality(Owned(h, o)) \in Nat \ {0}
         /\ IsFiniteSet(h.alive \intersect Cells)
         /\ Cardinality(h.alive \intersect Cells) \in Nat
<1>1. ForestBut(h, {}) /\ o \in Addresses
  BY ForestFacts DEF Forest
<1>2. o \in Owned(h, o) /\ Owned(h, o) \subseteq Addresses
  BY <1>1, ForestOwned
<1>3. IsFiniteSet(Owned(h, o))
  BY <1>2, AddressFacts, FS_Subset
<1>4. Cardinality(Owned(h, o)) \in Nat \ {0}
  BY <1>2, <1>3, FS_CardinalityType, FS_EmptySet
<1>5. IsFiniteSet(h.alive \intersect Cells)
  BY AddressFacts, FS_Subset
<1> QED
  BY <1>3, <1>4, <1>5, FS_CardinalityType

(* The new child of a graft, with the place below it and the room it has.  *)
LEMMA GraftPlace ==
  ASSUME NEW h, NEW n, NEW o, CopyPlace(h, n, o), NEW g, Forest(g), NEW item,
         NEW m, AddedAs(g, h, n, item, m),
         Cardinality(Owned(h, o)) + Cardinality(h.alive \intersect Cells)
           <= Cardinality(Cells)
  PROVE  CopyPlace(g, m, o) /\ Enough(g, o)
<1>0. /\ Forest(h) /\ n \in h.alive /\ o \in h.alive /\ n \notin Owned(h, o)
      /\ ForestBut(g, {})
  BY DEF CopyPlace, Forest
<1>1. AddedNode(g, h, n, item, m)
  BY <1>0, AddedSeen
<1>2. /\ Owned(h, o) \subseteq h.alive /\ o \in Owned(h, o)
      /\ h.alive \subseteq Addresses
      /\ \A x \in Owned(h, o) : \A i \in DOMAIN h.children[x] :
           h.children[x][i] \in Owned(h, o)
  BY SourceFacts
<1>3. ClosedDown(g.children, Owned(h, o))
  BY <1>0, <1>1, <1>2 DEF ClosedDown, AddedNode
<1>4. Owned(g, o) \subseteq Owned(h, o)
  BY <1>0, <1>2, <1>3, ForestOwned
<1>5. /\ m \notin h.alive /\ g.alive = h.alive \union {m} /\ m \in Cells
  BY <1>1 DEF AddedNode
<1>6. CopyPlace(g, m, o)
  BY <1>0, <1>2, <1>4, <1>5 DEF CopyPlace
<1> DEFINE old == h.alive \intersect Cells
           new == g.alive \intersect Cells
           O == Owned(h, o)
           P == Owned(g, o)
<1>7. new = old \union {m} /\ m \notin old
  BY <1>5
<1>8. /\ IsFiniteSet(O) /\ Cardinality(O) \in Nat
      /\ IsFiniteSet(old) /\ Cardinality(old) \in Nat
  BY <1>0, SizesOf
<1>9. Cardinality(O) + Cardinality(old) <= Cardinality(Cells) /\ P \subseteq O
  BY <1>4
<1> HIDE DEF O, P, old, new
<1>10. Cardinality(new) = Cardinality(old) + 1
  BY <1>7, <1>8, FS_AddElement
<1>11. Cardinality(P) <= Cardinality(O) /\ Cardinality(P) \in Nat
  BY <1>8, <1>9, FS_Subset, FS_CardinalityType
<1>12. Cardinality(P) - 1 + Cardinality(new) <= Cardinality(Cells)
  BY <1>8, <1>9, <1>10, <1>11, AddressFacts
<1> QED
  BY <1>6, <1>12 DEF Enough, P, new

(* graft leaves a forest. *)
LEMMA GraftKeeps ==
  ASSUME NEW h, NEW n, NEW o, CopyPlace(h, n, o),
         Cardinality(Owned(h, o)) + Cardinality(h.alive \intersect Cells)
           <= Cardinality(Cells)
  PROVE  Forest(graft(h, n, o))
<1> DEFINE item == h.item[o]
           g == add_child(h, n, item)
<1>0. /\ Forest(h) /\ h \in Heaps /\ n \in h.alive /\ o \in h.alive
      /\ ForestBut(h, {})
  BY DEF CopyPlace, Forest, ForestBut
<1>1. n \in Addresses /\ item \in AllItems
  BY <1>0, ForestFacts
<1>2. Unused(h) # {}
  <2>1. /\ Cardinality(Owned(h, o)) \in Nat \ {0}
        /\ Cardinality(h.alive \intersect Cells) \in Nat
    BY <1>0, SizesOf
  <2>2. Cardinality(h.alive \intersect Cells) < Cardinality(Cells)
    BY <2>1, AddressFacts
  <2> QED
    BY <2>2, OneMore
<1>3. graft(h, n, o) = GraftAll(g, Last(g.children[n]), o)
  BY DEF graft
<1> HIDE DEF item, g
<1>4. PICK m : AddedAs(g, h, n, item, m)
  BY <1>0, <1>1, <1>2, AddChildFields DEF g
<1>5. Forest(g)
  BY <1>0, <1>1, <1>2, AddChildKeeps DEF g
<1>6. Last(g.children[n]) = m
  BY <1>0, <1>4, AddedSeen DEF AddedNode
<1>7. CopyPlace(g, m, o) /\ Enough(g, o)
  BY <1>4, <1>5, GraftPlace
<1> QED
  BY <1>3, <1>6, <1>7, CopyKeeps
-----------------------------------------------------------------------------
(* A copy assignment finds its place and enough elements. *)
LEMMA CopyFits ==
  ASSUME Forest(heap), NEW n, NEW o, CopyAssign(n, o)
  PROVE  /\ CopyPlace(heap, n, o) /\ Enough(heap, o)
         /\ heap' = Copied(heap, n, o)
<1>1. /\ n \in heap.alive /\ o \in heap.alive /\ n # o
      /\ o \notin AncestorsIn(heap, n) /\ heap' = Copied(heap, n, o)
      /\ Cardinality(Owned(heap, o)) - 1 + Cardinality(heap.alive \intersect Cells)
           <= MaxBuilt
  BY DEF CopyAssign, NotAbove, is_parent_of, Room
<1>2. CopyPlace(heap, n, o)
  BY <1>1, PlaceOf
<1>3. Enough(heap, o)
  <2> DEFINE a == Cardinality(Owned(heap, o))
             b == Cardinality(heap.alive \intersect Cells)
  <2>1. a \in Nat /\ b \in Nat /\ a - 1 + b <= MaxBuilt
    BY <1>1, SizesOf
  <2> HIDE DEF a, b
  <2>2. a - 1 + b <= Cardinality(Cells)
    BY <2>1, BuiltAssumption, AddressFacts
  <2> QED
    BY <2>2 DEF Enough, a, b
<1> QED
  BY <1>1, <1>2, <1>3

(* Every step leaves a forest. *)
LEMMA StepKeeps ==
  ASSUME Forest(heap), [Next]_heap
  PROVE  Forest(heap')
<1> DEFINE h == heap
<1>0. /\ ForestBut(h, {}) /\ h.alive \subseteq Addresses
      /\ NoItem \in AllItems /\ Items \subseteq AllItems
      /\ Locals \subseteq Addresses /\ MaxBuilt \in Nat
      /\ MaxBuilt <= Cardinality(Cells) /\ Cardinality(Cells) \in Nat
  <2>1. ForestBut(h, {})
    BY DEF Forest
  <2>2. h.alive \subseteq Addresses
    BY <2>1, ForestFacts
  <2> QED
    BY <2>1, <2>2, AddressFacts, BuiltAssumption DEF AllItems, Addresses
<1> HIDE DEF h
<1>1. ASSUME NEW l \in Locals, NEW item \in Items \union {NoItem},
             Construct(l, item)
      PROVE  Forest(heap')
  BY <1>0, <1>1, CreatedKeeps DEF Construct, h
<1>2. ASSUME NEW n \in Addresses, NEW item \in Items, AddChild(n, item)
      PROVE  Forest(heap')
  <2>1. /\ n \in h.alive /\ heap' = add_child(h, n, item) /\ Forest(h)
        /\ item \in AllItems
        /\ 1 + Cardinality(h.alive \intersect Cells) <= MaxBuilt
    BY <1>0, <1>2 DEF AddChild, Room, h
  <2>2. Cardinality(h.alive \intersect Cells) \in Nat
    BY <2>1, SizesOf
  <2>3. Cardinality(h.alive \intersect Cells) < Cardinality(Cells)
    BY <1>0, <2>1, <2>2
  <2>4. Unused(h) # {}
    BY <2>3, OneMore
  <2> QED
    BY <2>1, <2>4, AddChildKeeps
<1>3. ASSUME NEW l \in Locals, EndOfScope(l)
      PROVE  Forest(heap')
  BY <1>3, EndKeeps DEF EndOfScope
<1>4. ASSUME NEW l \in Locals, NEW o \in Addresses, CopyConstruct(l, o)
      PROVE  Forest(heap')
  <2> DEFINE g == Created(h, l, NoItem)
  <2>1. /\ l \notin h.alive /\ o \in h.alive /\ heap' = Copied(g, l, o) /\ Forest(h)
        /\ Cardinality(Owned(h, o)) - 1 + Cardinality(h.alive \intersect Cells)
             <= MaxBuilt
    BY <1>4 DEF CopyConstruct, Room, h
  <2>2. /\ Forest(g) /\ g.alive = h.alive \union {l} /\ g.children = h.children
    BY <1>0, <2>1, CreatedKeeps
  <2> HIDE DEF g
  <2>3. Owned(g, o) = Owned(h, o)
    BY <2>2, SameListsOwn
  <2>4. Owned(h, o) \subseteq h.alive
    <3>1. ClosedDown(h.children, h.alive) /\ o \in Addresses
      BY <1>0, <2>1, ForestFacts DEF ClosedDown
    <3> QED
      BY <1>0, <2>1, <3>1, ForestOwned
  <2>5. CopyPlace(g, l, o)
    BY <2>1, <2>2, <2>3, <2>4 DEF CopyPlace
  <2>6. g.alive \intersect Cells = h.alive \intersect Cells
    BY <2>2, AddressFacts
  <2>7. Enough(g, o)
    <3> DEFINE a == Cardinality(Owned(h, o))
               b == Cardinality(h.alive \intersect Cells)
    <3>1. a \in Nat /\ b \in Nat /\ a - 1 + b <= MaxBuilt
      BY <2>1, SizesOf
    <3> HIDE DEF a, b
    <3>2. a - 1 + b <= Cardinality(Cells)
      BY <1>0, <3>1
    <3> QED
      BY <2>3, <2>6, <3>2 DEF Enough, a, b
  <2> QED
    BY <2>1, <2>5, <2>7, CopiedKeeps
<1>5. ASSUME NEW l \in Locals, NEW o \in Addresses, MoveConstruct(l, o)
      PROVE  Forest(heap')
  <2> DEFINE g == Created(h, l, NoItem)
  <2>1. l \notin h.alive /\ o \in h.alive /\ heap' = Moved(g, l, o) /\ Forest(h)
    BY <1>5 DEF MoveConstruct, h
  <2>2. /\ Forest(g) /\ g.alive = h.alive \union {l}
    BY <1>0, <2>1, CreatedKeeps
  <2> HIDE DEF g
  <2>3. /\ g.parent \in [Addresses -> Above] /\ Rooted(g.parent)
        /\ g.parent[l] = Null /\ l \in Addresses
    BY <1>0, <2>2, ForestFacts DEF Forest, ForestBut, VariablesFree
  <2>4. AncestorsIn(g, l) = {}
    BY <2>3, AncestorFacts
  <2>5. Movable(g, l, o)
    BY <2>1, <2>2, <2>4 DEF Movable
  <2> QED
    BY <2>1, <2>2, <2>5, MovedKeeps
<1>6. ASSUME NEW n \in Addresses, NEW o \in Addresses, Graft(n, o)
      PROVE  Forest(heap')
  <2>1. /\ n \in h.alive /\ o \in h.alive /\ n # o /\ o \notin AncestorsIn(h, n)
        /\ heap' = graft(h, n, o) /\ Forest(h)
        /\ Cardinality(Owned(h, o)) + Cardinality(h.alive \intersect Cells)
             <= MaxBuilt
    BY <1>6 DEF Graft, NotAbove, is_parent_of, Room, h
  <2>2. CopyPlace(h, n, o)
    BY <2>1, PlaceOf
  <2>3. Cardinality(Owned(h, o)) + Cardinality(h.alive \intersect Cells)
          <= Cardinality(Cells)
    <3> DEFINE a == Cardinality(Owned(h, o))
               b == Cardinality(h.alive \intersect Cells)
    <3>1. a \in Nat /\ b \in Nat /\ a + b <= MaxBuilt
      BY <2>1, SizesOf
    <3> HIDE DEF a, b
    <3>2. a + b <= Cardinality(Cells)
      BY <1>0, <3>1
    <3> QED
      BY <3>2 DEF a, b
  <2> QED
    BY <2>1, <2>2, <2>3, GraftKeeps
<1>7. ASSUME NEW n \in Addresses, NEW o \in Addresses, CopyAssign(n, o)
      PROVE  Forest(heap')
  <2>1. CopyPlace(heap, n, o) /\ Enough(heap, o) /\ heap' = Copied(heap, n, o)
    BY <1>7, CopyFits
  <2> QED
    BY <2>1, CopiedKeeps
<1>8. ASSUME NEW n \in Addresses, NEW o \in Addresses, MoveAssign(n, o)
      PROVE  Forest(heap')
  <2>1. Movable(h, n, o) /\ heap' = Moved(h, n, o) /\ Forest(h)
    BY <1>8 DEF MoveAssign, NotAbove, is_parent_of, Movable, h
  <2> QED
    BY <2>1, MovedKeeps
<1>9. ASSUME NEW n \in Addresses, NEW o \in Addresses, Prune(n, o)
      PROVE  Forest(heap')
  BY <1>9, PruneKeeps DEF Prune
<1>10. CASE UNCHANGED heap
  BY <1>10 DEF Forest, ForestBut, Bare, VariablesFree, Listed, PointedUp, Distinct,
              Hanging, Attached, Rooted
<1> QED
  BY <1>1, <1>2, <1>3, <1>4, <1>5, <1>6, <1>7, <1>8, <1>9, <1>10 DEF Next

(* The inductive invariant *)
InForest == Forest(heap)

(* Whatever the application does with its trees, all that is alive hangs   *)
(* in a forest.                                                            *)
THEOREM AlwaysForest == Spec => []InForest
<1>1. Init => InForest
  BY InitForest DEF InForest
<1>2. InForest /\ [Next]_heap => InForest'
  BY StepKeeps DEF InForest
<1> QED
  BY <1>1, <1>2, PTL DEF Spec

(* Every element hangs in the list of one owner, the node it takes for its *)
(* parent, and below a variable; what is gone holds nothing.               *)
THEOREM EveryElementHasOneOwner == Spec => []OneOwner
<1>1. InForest => OneOwner
  BY ForestOneOwner DEF InForest
<1> QED
  BY <1>1, AlwaysForest, PTL
-----------------------------------------------------------------------------
(* A node, and the trees at its children *)
NodeOf(h, n) ==
  [tag |-> h.item[n].tag, value |-> h.item[n].value,
   kids |-> [i \in DOMAIN h.children[n] |-> TreeIn(h, h.children[n][i])]]

(* make the tree at the node. *)
LEMMA ForestTree ==
  ASSUME NEW h, Forest(h), NEW n \in Addresses
  PROVE  TreeIn(h, n) = NodeOf(h, n)
<1> DEFINE p == h.parent
<1>1. /\ h.children \in [Addresses -> Seq(Addresses)] /\ Rooted(p)
      /\ PointedUp(h.children, p)
  BY ForestFacts DEF Forest
<1> HIDE DEF p
<1>2. TreeIn(h, n) =
        [tag |-> h.item[n].tag, value |-> h.item[n].value,
         kids |-> [i \in DOMAIN h.children[n] |-> TreeIn(h, h.children[n][i])]]
  BY <1>1, TreeUnfolds
<1> QED
  BY <1>2 DEF NodeOf

(* The node f[x] of b has the item of x and the images of its children.    *)
Matches(a, b, f, x) ==
  /\ b.item[f[x]] = a.item[x]
  /\ DOMAIN b.children[f[x]] = DOMAIN a.children[x]
  /\ \A i \in DOMAIN a.children[x] : b.children[f[x]][i] = f[a.children[x][i]]

(* Nodes that match all the way down have the same tree. *)
LEMMA SameTree ==
  ASSUME NEW a, Forest(a), NEW b, Forest(b), NEW D \in SUBSET Addresses,
         ClosedDown(a.children, D), NEW f \in [D -> Addresses],
         \A x \in D : Matches(a, b, f, x)
  PROVE  \A x \in D : TreeIn(a, x) = TreeIn(b, f[x])
<1> DEFINE P == {m \in Addresses : m \in D => TreeIn(a, m) = TreeIn(b, f[m])}
           p == a.parent
           c == a.children
<1>1. c \in [Addresses -> Seq(Addresses)] /\ Rooted(p) /\ PointedUp(c, p)
  BY ForestFacts DEF Forest
<1>2. ASSUME NEW m \in Addresses, \A i \in DOMAIN c[m] : c[m][i] \in P
      PROVE  m \in P
  <2> SUFFICES ASSUME m \in D PROVE TreeIn(a, m) = TreeIn(b, f[m])
    OBVIOUS
  <2> DEFINE ta(i) == TreeIn(a, a.children[m][i])
             tb(i) == TreeIn(b, b.children[f[m]][i])
             I == DOMAIN a.children[m]
  <2>1. Matches(a, b, f, m) /\ f[m] \in Addresses
    OBVIOUS
  <2>2. ASSUME NEW i \in I PROVE ta(i) = tb(i)
    <3>1. a.children[m][i] \in D /\ a.children[m][i] \in P
      BY <1>2 DEF ClosedDown
    <3>2. b.children[f[m]][i] = f[a.children[m][i]]
      BY <2>1 DEF Matches
    <3> QED
      BY <3>1, <3>2
  <2>3. DOMAIN b.children[f[m]] = I /\ b.item[f[m]] = a.item[m]
    BY <2>1 DEF Matches
  <2>4. /\ TreeIn(a, m) = [tag |-> a.item[m].tag, value |-> a.item[m].value,
                           kids |-> [i \in I |-> ta(i)]]
        /\ TreeIn(b, f[m]) = [tag |-> a.item[m].tag, value |-> a.item[m].value,
                              kids |-> [i \in I |-> tb(i)]]
    <3>1. TreeIn(a, m) = NodeOf(a, m) /\ TreeIn(b, f[m]) = NodeOf(b, f[m])
      BY <2>1, ForestTree
    <3>2. NodeOf(a, m) = [tag |-> a.item[m].tag, value |-> a.item[m].value,
                          kids |-> [i \in I |-> ta(i)]]
      BY DEF NodeOf
    <3>3. NodeOf(b, f[m]) = [tag |-> a.item[m].tag, value |-> a.item[m].value,
                             kids |-> [i \in I |-> tb(i)]]
      <4> HIDE DEF I
      <4> QED
        BY <2>3 DEF NodeOf
    <3> QED
      BY <3>1, <3>2, <3>3
  <2> HIDE DEF ta, tb, I
  <2>5. [i \in I |-> ta(i)] = [i \in I |-> tb(i)]
    BY <2>2
  <2> QED
    BY <2>4, <2>5
<1> HIDE DEF P, p, c
<1>3. Addresses \subseteq P
  BY <1>1, <1>2, FromLeaves
<1> QED
  BY <1>3 DEF P

(* Trees whose nodes and lists are kept are kept. *)
LEMMA KeptTree ==
  ASSUME NEW a, Forest(a), NEW b, Forest(b), NEW D \in SUBSET Addresses,
         ClosedDown(a.children, D),
         \A x \in D : b.item[x] = a.item[x] /\ b.children[x] = a.children[x]
  PROVE  \A x \in D : TreeIn(b, x) = TreeIn(a, x)
<1> DEFINE f == [x \in D |-> x]
<1>1. f \in [D -> Addresses] /\ \A x \in D : f[x] = x
  OBVIOUS
<1>2. \A x \in D : \A i \in DOMAIN a.children[x] : a.children[x][i] \in D
  BY DEF ClosedDown
<1> HIDE DEF f
<1>3. \A x \in D : Matches(a, b, f, x)
  BY <1>1, <1>2 DEF Matches
<1>4. \A x \in D : TreeIn(a, x) = TreeIn(b, f[x])
  BY <1>1, <1>3, SameTree
<1> QED
  BY <1>1, <1>4

(* The trees at the children of a node *)
KidsOf(h, n) == [i \in DOMAIN h.children[n] |-> TreeIn(h, h.children[n][i])]

(* The trees at the children are a sequence as long as the list. *)
LEMMA KidsFacts ==
  ASSUME NEW h, Forest(h), NEW n \in Addresses, NEW T,
         \A x \in Addresses : TreeIn(h, x) \in T
  PROVE  /\ KidsOf(h, n) \in Seq(T) /\ Len(KidsOf(h, n)) = Len(h.children[n])
         /\ Len(h.children[n]) \in Nat
         /\ DOMAIN KidsOf(h, n) = 1..Len(h.children[n])
         /\ \A i \in 1..Len(h.children[n]) :
              KidsOf(h, n)[i] = TreeIn(h, h.children[n][i])
<1> DEFINE k == KidsOf(h, n)
           len == Len(h.children[n])
           val(i) == TreeIn(h, h.children[n][i])
<1>1. len \in Nat /\ DOMAIN h.children[n] = 1..len /\ h.children[n] \in Seq(Addresses)
  BY ListFacts DEF Forest
<1>2. \A i \in 1..len : val(i) \in T
  <2>1. \A i \in 1..len : h.children[n][i] \in Addresses
    BY <1>1, ElementOfSeq
  <2> QED
    BY <2>1
<1>3. k = [i \in 1..len |-> val(i)]
  BY <1>1 DEF KidsOf
<1> HIDE DEF k, len, val
<1>4. k \in [1..len -> T] /\ \A i \in 1..len : k[i] = val(i)
  BY <1>2, <1>3
<1>5. k \in Seq(T)
  BY <1>1, <1>4, SeqDef
<1>6. DOMAIN k = 1..len /\ Len(k) = len
  <2>1. DOMAIN k = 1..len
    BY <1>4
  <2>2. DOMAIN k = 1..Len(k) /\ Len(k) \in Nat
    BY <1>5, LenProperties
  <2> QED
    BY <1>1, <2>1, <2>2
<1> QED
  BY <1>1, <1>4, <1>5, <1>6 DEF k, len, val

(* The subtree of a child lacks the node.                                  *)
LEMMA BelowSelf ==
  ASSUME NEW h, Forest(h), NEW n \in h.alive, NEW i \in DOMAIN h.children[n]
  PROVE  LET D == Owned(h, h.children[n][i]) IN
         /\ h.children[n][i] \in D /\ D \subseteq h.alive \ {n}
         /\ ClosedDown(h.children, D) /\ D \subseteq Addresses
<1> DEFINE k == h.children[n][i]
<1>0. ForestBut(h, {}) /\ n \in Addresses
  BY ForestFacts DEF Forest
<1>1. /\ h.alive \subseteq Addresses /\ h.parent \in [Addresses -> Above]
      /\ Rooted(h.parent) /\ k \in Addresses /\ k \in h.alive /\ h.parent[k] = n
  BY <1>0, ForestFacts
<1>2. ClosedDown(h.children, h.alive)
  BY <1>0, <1>1, ForestFacts DEF ClosedDown
<1> HIDE DEF k
<1>3. /\ k \in Owned(h, k) /\ Owned(h, k) \subseteq h.alive
      /\ \A m \in Owned(h, k) : \A j \in DOMAIN h.children[m] :
           h.children[m][j] \in Owned(h, k)
  BY <1>0, <1>1, <1>2, ForestOwned
<1>4. n \notin Owned(h, k)
  <2>1. h.parent[k] # Null
    BY <1>0, <1>1, AddressFacts
  <2>2. AncestorsIn(h, k) = {n} \union AncestorsIn(h, n) /\ k \notin AncestorsIn(h, k)
    BY <1>1, <2>1, AncestorFacts
  <2>3. n \in Owned(h, k) => n = k \/ k \in AncestorsIn(h, n)
    BY <1>0, <1>1, OwnedAbove
  <2> QED
    BY <2>2, <2>3
<1>5. ClosedDown(h.children, Owned(h, k))
  BY <1>3 DEF ClosedDown
<1>6. Owned(h, k) \subseteq h.alive \ {n} /\ Owned(h, k) \subseteq Addresses
  BY <1>1, <1>3, <1>4
<1> QED
  BY <1>3, <1>5, <1>6 DEF k

(* Two lists in a row *)
LEMMA Joined ==
  ASSUME NEW T, NEW a \in Seq(T), NEW b \in Seq(T), NEW c \in Seq(T),
         Len(c) = Len(a) + Len(b),
         \A i \in 1..Len(a) : c[i] = a[i],
         \A i \in 1..Len(b) : c[Len(a) + i] = b[i]
  PROVE  c = a \o b
<1> DEFINE d == a \o b
<1>1. Len(a) \in Nat /\ Len(b) \in Nat
  BY LenProperties
<1>2. /\ d \in Seq(T) /\ Len(d) = Len(a) + Len(b)
      /\ \A i \in 1..Len(a) + Len(b) :
           d[i] = IF i <= Len(a) THEN a[i] ELSE b[i - Len(a)]
  BY ConcatProperties
<1> HIDE DEF d
<1>3. ASSUME NEW i \in 1..Len(c) PROVE c[i] = d[i]
  <2>1. CASE i <= Len(a)
    BY <1>1, <1>2, <2>1
  <2>2. CASE ~ i <= Len(a)
    <3>1. i - Len(a) \in 1..Len(b) /\ Len(a) + (i - Len(a)) = i
      BY <1>1, <2>2
    <3>2. c[Len(a) + (i - Len(a))] = b[i - Len(a)]
      BY <3>1
    <3> QED
      BY <1>1, <1>2, <2>2, <3>1, <3>2
  <2> QED
    BY <2>1, <2>2
<1>4. c = d
  BY <1>2, <1>3, SeqEqual
<1> QED
  BY <1>4 DEF d

(* What a copy has done when it ends: trees that lack n are there still,   *)
(* and n has the trees below o after its own.                              *)
CopyDone(g, h, n, o) ==
  /\ Forest(g)
  /\ \A D \in SUBSET (h.alive \ {n}) :
       ClosedDown(h.children, D) => \A x \in D : TreeIn(g, x) = TreeIn(h, x)
  /\ g.item[n] = h.item[n]
  /\ KidsOf(g, n) = KidsOf(h, n) \o KidsOf(h, o)

(* The loop of calls does it. *)
LEMMA CopyTrees ==
  ASSUME NEW h, NEW n, NEW o, CopyPlace(h, n, o), Enough(h, o)
  PROVE  CopyDone(GraftAll(h, n, o), h, n, o)
<1>1. PICK s, cp : /\ GraftInv(h, n, o, s, cp) /\ s.calls = <<>>
                   /\ GraftAll(h, n, o) = s.heap
  BY GraftEnds
<1>2. PICK g : g = s.heap
  OBVIOUS
<1>3. /\ Forest(h) /\ Forest(g) /\ n \in h.alive /\ o \in h.alive
      /\ h.alive \subseteq Addresses /\ n \in Addresses /\ o \in Addresses
  BY <1>1, <1>2, ForestFacts DEF GraftInv, CopyPlace, Forest
<1>4. /\ h.alive \subseteq g.alive /\ g.item[n] = h.item[n]
      /\ \A x \in h.alive \ {n} :
           g.item[x] = h.item[x] /\ g.children[x] = h.children[x]
  BY <1>1, <1>2, <1>3 DEF GraftInv, OldKept
<1>5. ASSUME NEW D \in SUBSET (h.alive \ {n}), ClosedDown(h.children, D)
      PROVE  \A x \in D : TreeIn(g, x) = TreeIn(h, x)
  <2>1. D \in SUBSET Addresses
    BY <1>3
  <2>2. \A x \in D : g.item[x] = h.item[x] /\ g.children[x] = h.children[x]
    BY <1>4
  <2> QED
    BY <1>3, <1>5, <2>1, <2>2, KeptTree
<1> DEFINE New == g.alive \ h.alive
           C == Copies(h, n, g)
<1>6. /\ cp \in [C -> Owned(h, o)] /\ cp[n] = o
      /\ \A x \in New : g.item[x] = h.item[cp[x]]
      /\ n \in C /\ New \subseteq C /\ New \subseteq Addresses
      /\ Owned(h, o) \subseteq Addresses
  <2>1. /\ cp \in [C -> Owned(h, o)] /\ cp[n] = o
        /\ \A x \in New : g.item[x] = h.item[cp[x]]
    BY <1>1, <1>2 DEF GraftInv, CopyOf
  <2>2. n \in C /\ New \subseteq C
    BY DEF Copies
  <2>3. New \subseteq Addresses
    BY <1>3, ForestFacts DEF Forest
  <2> QED
    BY <1>3, <2>1, <2>2, <2>3, SourceFacts
<1>7. ASSUME NEW p \in C
      PROVE  /\ p \in Addresses /\ cp[p] \in Addresses
             /\ Len(h.children[p]) \in Nat /\ Len(h.children[cp[p]]) \in Nat
             /\ DOMAIN h.children[p] = 1..Len(h.children[p])
             /\ DOMAIN h.children[cp[p]] = 1..Len(h.children[cp[p]])
             /\ Len(g.children[p]) = Len(h.children[p]) + Len(h.children[cp[p]])
             /\ DOMAIN g.children[p] = 1..Len(g.children[p])
             /\ \A i \in 1..Len(h.children[p]) : g.children[p][i] = h.children[p][i]
             /\ \A i \in 1..Len(h.children[cp[p]]) :
                  /\ g.children[p][Len(h.children[p]) + i] \in New
                  /\ cp[g.children[p][Len(h.children[p]) + i]]
                       = h.children[cp[p]][i]
  <2>1. p \in Addresses /\ cp[p] \in Addresses
    BY <1>3, <1>6 DEF Copies
  <2> DEFINE a == Len(h.children[p])
             b == Len(h.children[cp[p]])
             d == Len(g.children[p])
  <2>2. /\ a \in Nat /\ b \in Nat /\ DOMAIN h.children[p] = 1..a
        /\ DOMAIN h.children[cp[p]] = 1..b
        /\ DOMAIN g.children[p] = 1..d
    BY <1>3, <2>1, ListFacts DEF Forest
  <2>3. d = a + b
    <3>1. \A j \in 1..Len(s.calls) : s.calls[j].to # p
      BY <1>1
    <3> QED
      BY <1>1, <1>2, <3>1 DEF GraftInv, ListsDone
  <2>4. /\ \A i \in DOMAIN h.children[p] : g.children[p][i] = h.children[p][i]
        /\ \A i \in DOMAIN g.children[p] : i > a =>
             /\ g.children[p][i] \in New
             /\ cp[g.children[p][i]] = h.children[cp[p]][i - a]
    BY <1>1, <1>2 DEF GraftInv, CopyLists
  <2> HIDE DEF a, b, d, New
  <2>5. ASSUME NEW i \in 1..b
        PROVE  /\ g.children[p][a + i] \in New
               /\ cp[g.children[p][a + i]] = h.children[cp[p]][i]
    <3>1. a + i \in DOMAIN g.children[p] /\ a + i > a /\ (a + i) - a = i
      BY <2>2, <2>3
    <3> QED
      BY <2>4, <3>1
  <2> QED
    BY <2>1, <2>2, <2>3, <2>4, <2>5 DEF a, b, d
<1> HIDE DEF New, C
<1>8. \A x \in New : TreeIn(g, x) = TreeIn(h, cp[x])
  <2> DEFINE f == [x \in New |-> cp[x]]
  <2>1. f \in [New -> Addresses] /\ \A x \in New : f[x] = cp[x]
    BY <1>6
  <2>2. ASSUME NEW x \in New
        PROVE  /\ Len(h.children[x]) = 0 /\ x \in C
               /\ \A i \in DOMAIN g.children[x] : g.children[x][i] \in New
               /\ DOMAIN h.children[cp[x]] = DOMAIN g.children[x]
               /\ \A i \in DOMAIN g.children[x] :
                    h.children[cp[x]][i] = cp[g.children[x][i]]
    <3>1. x \in C /\ x \in Addresses /\ x \notin h.alive
      BY <1>6 DEF New
    <3>2. h.children[x] = <<>>
      BY <1>3, <3>1, ForestFacts DEF Forest
    <3>3. Len(h.children[x]) = 0
      BY <3>2
    <3> DEFINE b == Len(h.children[cp[x]])
               d == Len(g.children[x])
    <3>4. /\ b \in Nat /\ d = Len(h.children[x]) + b
          /\ DOMAIN h.children[cp[x]] = 1..b /\ DOMAIN g.children[x] = 1..d
      BY <1>7, <3>1
    <3>5. \A i \in 1..b : /\ g.children[x][Len(h.children[x]) + i] \in New
                          /\ cp[g.children[x][Len(h.children[x]) + i]]
                               = h.children[cp[x]][i]
      BY <1>7, <3>1
    <3> HIDE DEF b, d
    <3>6. d = b
      BY <3>3, <3>4
    <3>7. ASSUME NEW i \in 1..b
          PROVE  /\ g.children[x][i] \in New
                 /\ cp[g.children[x][i]] = h.children[cp[x]][i]
      <4>1. Len(h.children[x]) + i = i
        BY <3>3, <3>4
      <4> QED
        BY <3>5, <4>1
    <3> QED
      BY <3>1, <3>3, <3>4, <3>6, <3>7
  <2> HIDE DEF f
  <2>3. ClosedDown(g.children, New)
    BY <2>2 DEF ClosedDown
  <2>4. ASSUME NEW x \in New PROVE Matches(g, h, f, x)
    <3>1. h.item[f[x]] = g.item[x]
      BY <1>6, <2>1
    <3>2. DOMAIN h.children[f[x]] = DOMAIN g.children[x]
      BY <2>1, <2>2
    <3>3. ASSUME NEW i \in DOMAIN g.children[x]
          PROVE  h.children[f[x]][i] = f[g.children[x][i]]
      BY <2>1, <2>2
    <3> QED
      BY <3>1, <3>2, <3>3 DEF Matches
  <2>5. \A x \in New : TreeIn(g, x) = TreeIn(h, f[x])
    BY <1>3, <1>6, <2>1, <2>3, <2>4, SameTree
  <2> QED
    BY <2>1, <2>5
<1>9. KidsOf(g, n) = KidsOf(h, n) \o KidsOf(h, o)
  <2> DEFINE T == {TreeIn(h, x) : x \in Addresses}
                    \union {TreeIn(g, x) : x \in Addresses}
             a == KidsOf(h, n)
             b == KidsOf(h, o)
             c == KidsOf(g, n)
  <2>1. \A x \in Addresses : TreeIn(h, x) \in T /\ TreeIn(g, x) \in T
    OBVIOUS
  <2> HIDE DEF T
  <2>2. /\ a \in Seq(T) /\ Len(a) = Len(h.children[n]) /\ Len(a) \in Nat
        /\ \A i \in 1..Len(a) : a[i] = TreeIn(h, h.children[n][i])
    BY <1>3, <2>1, KidsFacts
  <2>3. /\ b \in Seq(T) /\ Len(b) = Len(h.children[o]) /\ Len(b) \in Nat
        /\ \A i \in 1..Len(b) : b[i] = TreeIn(h, h.children[o][i])
    BY <1>3, <2>1, KidsFacts
  <2>4. /\ c \in Seq(T) /\ Len(c) = Len(g.children[n])
        /\ \A i \in 1..Len(c) : c[i] = TreeIn(g, g.children[n][i])
    BY <1>3, <2>1, KidsFacts
  <2> HIDE DEF a, b, c
  <2>5. /\ Len(g.children[n]) = Len(h.children[n]) + Len(h.children[o])
        /\ DOMAIN h.children[n] = 1..Len(h.children[n])
        /\ \A i \in 1..Len(h.children[n]) : g.children[n][i] = h.children[n][i]
        /\ \A i \in 1..Len(h.children[o]) :
             /\ g.children[n][Len(h.children[n]) + i] \in New
             /\ cp[g.children[n][Len(h.children[n]) + i]] = h.children[o][i]
    BY <1>6, <1>7
  <2>6. Len(c) = Len(a) + Len(b)
    BY <2>2, <2>3, <2>4, <2>5
  <2>7. ASSUME NEW i \in 1..Len(a) PROVE c[i] = a[i]
    <3>1. i \in 1..Len(c) /\ i \in DOMAIN h.children[n]
      <4> DEFINE la == Len(a)
                 lb == Len(b)
                 lc == Len(c)
      <4>1. la \in Nat /\ lb \in Nat /\ lc = la + lb /\ i \in 1..la
        BY <2>2, <2>3, <2>6
      <4>2. DOMAIN h.children[n] = 1..la
        BY <2>2, <2>5
      <4> HIDE DEF la, lb, lc
      <4>3. i \in 1..lc
        BY <4>1
      <4> QED
        BY <4>1, <4>2, <4>3 DEF lc
    <3>2. c[i] = TreeIn(g, h.children[n][i])
      BY <2>2, <2>4, <2>5, <3>1
    <3>3. TreeIn(g, h.children[n][i]) = TreeIn(h, h.children[n][i])
      <4> DEFINE D == Owned(h, h.children[n][i])
      <4>1. /\ h.children[n][i] \in D /\ D \subseteq h.alive \ {n}
            /\ ClosedDown(h.children, D)
        BY <1>3, <3>1, BelowSelf
      <4> HIDE DEF D
      <4> QED
        BY <1>5, <4>1
    <3> QED
      BY <2>2, <3>2, <3>3
  <2>8. ASSUME NEW i \in 1..Len(b) PROVE c[Len(a) + i] = b[i]
    <3>1. Len(a) + i \in 1..Len(c)
      <4> DEFINE la == Len(a)
                 lb == Len(b)
                 lc == Len(c)
      <4>1. la \in Nat /\ lb \in Nat /\ lc = la + lb /\ i \in 1..lb
        BY <2>2, <2>3, <2>6
      <4> HIDE DEF la, lb, lc
      <4>2. la + i \in 1..lc
        BY <4>1
      <4> QED
        BY <4>2 DEF la, lc
    <3> DEFINE x == g.children[n][Len(a) + i]
    <3>2. c[Len(a) + i] = TreeIn(g, x)
      BY <2>4, <3>1
    <3>3. x \in New /\ cp[x] = h.children[o][i]
      BY <2>2, <2>3, <2>5
    <3> HIDE DEF x
    <3>4. TreeIn(g, x) = TreeIn(h, h.children[o][i])
      BY <1>8, <3>3
    <3> QED
      BY <2>3, <3>2, <3>4
  <2>9. c = a \o b
    BY <2>2, <2>3, <2>4, <2>6, <2>7, <2>8, Joined
  <2> QED
    BY <2>9 DEF a, b, c
<1>10. CopyDone(g, h, n, o)
  BY <1>3, <1>4, <1>5, <1>9 DEF CopyDone
<1> QED
  BY <1>1, <1>2, <1>10

(* What a node owns as a set that lists keep to themselves                 *)
LEMMA OwnedWhole ==
  ASSUME NEW h, Forest(h), NEW n \in h.alive
  PROVE  /\ n \in Owned(h, n) /\ Owned(h, n) \subseteq h.alive
         /\ ClosedDown(h.children, Owned(h, n)) /\ n \in Addresses
<1>1. ForestBut(h, {}) /\ h.alive \subseteq Addresses
  BY ForestFacts DEF Forest
<1>2. ClosedDown(h.children, h.alive)
  BY <1>1, ForestFacts DEF ClosedDown
<1> QED
  BY <1>1, <1>2, ForestOwned DEF ClosedDown

(* A tree with other children *)
LEMMA OtherKids ==
  ASSUME NEW t, NEW v, NEW k, NEW x, NEW r, r = [tag |-> t, value |-> v, kids |-> k]
  PROVE  [r EXCEPT !.kids = x] = [tag |-> t, value |-> v, kids |-> x]
<1>1. r \in [tag : {t}, value : {v}, kids : {k}]
  OBVIOUS
<1> QED
  BY <1>1

(* The copy assignment: what is copied and what is left alone.             *)
DeepCopy(g, h, n, o) ==
  /\ TreeIn(g, n) = [TreeIn(h, o) EXCEPT !.kids = TreeIn(h, n).kids \o @]
  /\ \A D \in SUBSET (h.alive \ {n}) :
       ClosedDown(h.children, D) => \A x \in D : TreeIn(g, x) = TreeIn(h, x)

(* That is what it makes. *)
LEMMA CopiedTrees ==
  ASSUME NEW h, NEW n, NEW o, CopyPlace(h, n, o), Enough(h, o),
         NEW g, g = Copied(h, n, o)
  PROVE  DeepCopy(g, h, n, o)
<1>1. PICK b : b = Labelled(h, n, o)
  OBVIOUS
<1>2. LabelledAs(b, h, n, o)
  BY <1>1, LabelKeeps
<1>3. /\ CopyPlace(b, n, o) /\ b.alive = h.alive /\ b.children = h.children
      /\ b.item = [h.item EXCEPT ![n] = h.item[o]]
      /\ Owned(b, o) = Owned(h, o)
  BY <1>2 DEF LabelledAs
<1>4. g = GraftAll(b, n, o)
  BY <1>1 DEF Copied, Labelled
<1>5. Enough(b, o)
  BY <1>3 DEF Enough
<1>6. CopyDone(g, b, n, o)
  BY <1>3, <1>4, <1>5, CopyTrees
<1>7. /\ Forest(h) /\ Forest(b) /\ Forest(g) /\ n \in h.alive /\ o \in h.alive
      /\ h.alive \subseteq Addresses /\ n \in Addresses /\ o \in Addresses
      /\ h.item \in [Addresses -> AllItems] /\ n # o
  BY <1>3, <1>6, ForestFacts, SourceFacts DEF CopyDone, CopyPlace, Forest
<1>8. ASSUME NEW D \in SUBSET (h.alive \ {n}), ClosedDown(h.children, D)
      PROVE  \A x \in D : TreeIn(b, x) = TreeIn(h, x)
  <2>1. D \in SUBSET Addresses
    BY <1>7
  <2>2. \A x \in D : b.item[x] = h.item[x] /\ b.children[x] = h.children[x]
    BY <1>3, <1>7, <2>1
  <2> QED
    BY <1>7, <1>8, <2>1, <2>2, KeptTree
<1>9. ASSUME NEW D \in SUBSET (h.alive \ {n}), ClosedDown(h.children, D)
      PROVE  \A x \in D : TreeIn(g, x) = TreeIn(h, x)
  <2>1. \A x \in D : TreeIn(g, x) = TreeIn(b, x)
    BY <1>3, <1>6, <1>9 DEF CopyDone
  <2> QED
    BY <1>8, <1>9, <2>1
<1>10. KidsOf(b, n) = KidsOf(h, n)
  <2>1. ASSUME NEW i \in DOMAIN h.children[n]
        PROVE  TreeIn(b, h.children[n][i]) = TreeIn(h, h.children[n][i])
    <3> DEFINE D == Owned(h, h.children[n][i])
    <3>1. /\ h.children[n][i] \in D /\ D \subseteq h.alive \ {n}
          /\ ClosedDown(h.children, D)
      BY <1>7, BelowSelf
    <3> HIDE DEF D
    <3> QED
      BY <1>8, <3>1
  <2> QED
    BY <1>3, <2>1 DEF KidsOf
<1>11. KidsOf(b, o) = KidsOf(h, o)
  <2> DEFINE D == Owned(h, o)
  <2>1. /\ o \in D /\ D \subseteq h.alive /\ n \notin D
        /\ \A x \in D : \A i \in DOMAIN h.children[x] : h.children[x][i] \in D
    BY SourceFacts
  <2> HIDE DEF D
  <2>2. \A x \in D : TreeIn(b, x) = TreeIn(h, x)
    BY <1>8, <2>1 DEF ClosedDown
  <2>3. \A i \in DOMAIN h.children[o] :
          TreeIn(b, h.children[o][i]) = TreeIn(h, h.children[o][i])
    BY <2>1, <2>2
  <2> QED
    BY <1>3, <2>3 DEF KidsOf
<1>12. KidsOf(g, n) = KidsOf(h, n) \o KidsOf(h, o) /\ g.item[n] = h.item[o]
  <2>1. g.item[n] = b.item[n]
    BY <1>6 DEF CopyDone
  <2>2. b.item[n] = h.item[o]
    BY <1>3, <1>7
  <2> QED
    BY <1>6, <1>10, <1>11, <2>1, <2>2 DEF CopyDone
<1> DEFINE kn == KidsOf(h, n)
           ko == KidsOf(h, o)
<1>13. /\ TreeIn(g, n) = [tag |-> h.item[o].tag, value |-> h.item[o].value,
                          kids |-> kn \o ko]
       /\ TreeIn(h, o) = [tag |-> h.item[o].tag, value |-> h.item[o].value,
                          kids |-> ko]
       /\ TreeIn(h, n) = [tag |-> h.item[n].tag, value |-> h.item[n].value,
                          kids |-> kn]
  <2>1. /\ TreeIn(g, n) = NodeOf(g, n) /\ TreeIn(h, o) = NodeOf(h, o)
        /\ TreeIn(h, n) = NodeOf(h, n)
    BY <1>7, ForestTree
  <2>2. \A a, x : NodeOf(a, x) = [tag |-> a.item[x].tag, value |-> a.item[x].value,
                                  kids |-> KidsOf(a, x)]
    BY DEF NodeOf, KidsOf
  <2> QED
    BY <1>12, <2>1, <2>2
<1> HIDE DEF kn, ko
<1> DEFINE a == TreeIn(h, o)
           b0 == TreeIn(h, n)
<1>14. TreeIn(g, n) = [a EXCEPT !.kids = b0.kids \o @]
  <2>1. a.kids = ko /\ b0.kids = kn
    BY <1>13
  <2>2. a = [tag |-> h.item[o].tag, value |-> h.item[o].value, kids |-> ko]
    BY <1>13
  <2> HIDE DEF a, b0
  <2>3. [a EXCEPT !.kids = kn \o ko]
          = [tag |-> h.item[o].tag, value |-> h.item[o].value, kids |-> kn \o ko]
    <3> DEFINE t == h.item[o].tag
               v == h.item[o].value
               x == kn \o ko
    <3>1. a = [tag |-> t, value |-> v, kids |-> ko]
      BY <2>2
    <3> HIDE DEF t, v, x
    <3>2. [a EXCEPT !.kids = x] = [tag |-> t, value |-> v, kids |-> x]
      BY <3>1, OtherKids
    <3> QED
      BY <3>2 DEF t, v, x
  <2> QED
    BY <1>13, <2>1, <2>3
<1> QED
  BY <1>9, <1>14 DEF DeepCopy

(* In every step of a copy assignment *)
LEMMA CopyStep ==
  ASSUME Forest(heap), NEW n \in Addresses, NEW o \in Addresses, CopyAssign(n, o)
  PROVE  /\ Tree(n)' = [Tree(o) EXCEPT !.kids = Tree(n).kids \o @]
         /\ Tree(o)' = Tree(o) /\ Untouched({n})
<1>1. CopyPlace(heap, n, o) /\ Enough(heap, o) /\ heap' = Copied(heap, n, o)
  BY CopyFits
<1>5. DeepCopy(heap', heap, n, o)
  BY <1>1, CopiedTrees
<1>2. /\ TreeIn(heap', n)
           = [TreeIn(heap, o) EXCEPT !.kids = TreeIn(heap, n).kids \o @]
      /\ \A D \in SUBSET (heap.alive \ {n}) :
           ClosedDown(heap.children, D) =>
             \A x \in D : TreeIn(heap', x) = TreeIn(heap, x)
  BY <1>5 DEF DeepCopy
<1>3. ASSUME NEW x \in heap.alive, n \notin Owned(heap, x)
      PROVE  TreeIn(heap', x) = TreeIn(heap, x)
  <2> DEFINE D == Owned(heap, x)
  <2>1. x \in D /\ D \subseteq heap.alive /\ ClosedDown(heap.children, D)
    BY OwnedWhole
  <2> HIDE DEF D
  <2>2. D \in SUBSET (heap.alive \ {n})
    BY <1>3, <2>1 DEF D
  <2> QED
    BY <1>2, <2>1, <2>2
<1>4. TreeIn(heap', o) = TreeIn(heap, o)
  BY <1>1, <1>3 DEF CopyPlace
<1>6. Untouched({n})
  BY <1>3 DEF Untouched, Tree
<1> QED
  BY <1>2, <1>4, <1>6 DEF Tree

(* A copy is deep and leaves its original alone. *)
THEOREM CopiesAreDeep == Spec => CopyIsDeep
<1>1. InForest /\ [Next]_heap =>
        [\A n, o \in Addresses :
           CopyAssign(n, o) =>
             /\ Tree(n)' = [Tree(o) EXCEPT !.kids = Tree(n).kids \o @]
             /\ Tree(o)' = Tree(o) /\ Untouched({n})]_heap
  BY CopyStep DEF InForest
<1> QED
  BY <1>1, AlwaysForest, PTL DEF Spec, CopyIsDeep
-----------------------------------------------------------------------------
(* What a move does not destroy: the target, all below the source, and the *)
(* trees that have neither.                                                *)
LEMMA MoveSpares ==
  ASSUME NEW h, Forest(h), NEW n, NEW o, Movable(h, n, o)
  PROVE  LET G == Gone(Given(h, n, o), Range(h.children[n])) IN
         /\ n \notin G
         /\ \A x \in Owned(h, o) \ {o} : x \notin G
         /\ \A l \in Locals \intersect h.alive :
              n \notin Owned(h, l) /\ o \notin Owned(h, l) =>
                \A x \in Owned(h, l) : x \notin G
<1> DEFINE g == Given(h, n, o)
           R == Range(h.children[n])
           G == Gone(g, R)
           Up == {n} \union AncestorsIn(h, n)
           O == Owned(h, o)
<1>1. /\ n \in Addresses /\ o \in Addresses /\ n # o /\ n \in h.alive
      /\ o \in h.alive /\ ForestBut(h, {}) /\ Null \notin Addresses
      /\ ForestBut(g, R)
  BY AboveTarget, AddressFacts, GivenForest DEF Movable, Forest
<1>2. /\ Up \subseteq Addresses
      /\ \A x \in Up : h.parent[x] # o /\ h.parent[x] # n
      /\ \A x \in Up : h.parent[x] # Null => h.parent[x] \in Up
  BY AboveTarget
<1>3. \A x \in Addresses : g.parent[x] = IF h.parent[x] = o THEN n ELSE h.parent[x]
  BY GivenFields
<1>4. \A x \in R : x \in Addresses /\ h.parent[x] = n
  BY <1>1, ForestFacts DEF Range
<1> HIDE DEF g, R
<1>5. /\ G \subseteq Addresses /\ Rooted(g.parent)
      /\ \A x \in G : x \in R \/ g.parent[x] \in G
  BY <1>1, <1>4, GoneFacts, ForestFacts
<1> HIDE DEF G, Up
<1>6. n \notin G
  <2> SUFFICES ASSUME n \in G PROVE FALSE
    OBVIOUS
  <2> DEFINE S == Up \intersect G
  <2>1. n \in S /\ S \in SUBSET Addresses
    BY <1>2 DEF Up
  <2>2. PICK x \in S : g.parent[x] \notin S
    BY <1>5, <2>1 DEF Rooted
  <2>3. x \notin R
    BY <1>2, <1>4, <2>2
  <2>4. g.parent[x] \in G /\ g.parent[x] = h.parent[x]
    BY <1>2, <1>3, <1>5, <2>2, <2>3
  <2>5. h.parent[x] \in Up
    BY <1>1, <1>2, <1>5, <2>2, <2>4
  <2> QED
    BY <2>2, <2>4, <2>5
<1>7. ASSUME NEW x0 \in O \ {o}, x0 \in G PROVE FALSE
  <2>1. n \notin O /\ O \subseteq Addresses /\ \A x \in O : x = o \/ h.parent[x] \in O
    <3>1. n \notin O
      BY <1>1, OwnedAbove DEF Movable
    <3> QED
      BY <1>1, <3>1, ForestOwned
  <2> HIDE DEF O
  <2> DEFINE S == (O \ {o}) \intersect G
  <2>2. S # {} /\ S \in SUBSET Addresses
    BY <1>7, <2>1
  <2>3. PICK x \in S : g.parent[x] \notin S
    BY <1>5, <2>2 DEF Rooted
  <2>4. h.parent[x] \in O
    BY <2>1, <2>3
  <2>5. x \notin R
    BY <1>4, <2>1, <2>4
  <2>6. g.parent[x] \in G
    BY <1>5, <2>3, <2>5
  <2>7. h.parent[x] # o
    BY <1>3, <1>6, <2>1, <2>3, <2>6
  <2>8. g.parent[x] = h.parent[x]
    BY <1>3, <2>1, <2>3, <2>7
  <2> QED
    BY <2>3, <2>4, <2>6, <2>7, <2>8
<1>8. ASSUME NEW l \in Locals \intersect h.alive,
             n \notin Owned(h, l), o \notin Owned(h, l), NEW x0 \in Owned(h, l),
             x0 \in G
      PROVE  FALSE
  <2> DEFINE L == Owned(h, l)
  <2>1. /\ L \subseteq Addresses /\ \A x \in L : x = l \/ h.parent[x] \in L
        /\ l \in Addresses
    BY <1>1, ForestOwned DEF Addresses
  <2>2. h.parent[l] = Null
    BY <1>1 DEF ForestBut, VariablesFree
  <2> DEFINE S == L \intersect G
  <2>3. S # {} /\ S \in SUBSET Addresses
    BY <1>8, <2>1
  <2>9. n \notin L /\ o \notin L
    BY <1>8
  <2> HIDE DEF L
  <2>4. PICK x \in S : g.parent[x] \notin S
    BY <1>5, <2>3 DEF Rooted
  <2>5. h.parent[x] # n /\ h.parent[x] # o
    BY <1>1, <2>1, <2>2, <2>4, <2>9
  <2>6. x \notin R
    BY <1>4, <2>5
  <2>7. g.parent[x] \in G /\ g.parent[x] = h.parent[x]
    BY <1>3, <1>5, <2>1, <2>4, <2>5, <2>6
  <2>8. x # l
    BY <1>1, <1>5, <2>2, <2>7
  <2> QED
    BY <2>1, <2>4, <2>7, <2>8
<1> QED
  BY <1>6, <1>7, <1>8 DEF G, g, R

(* prune changes the list that it takes the node out of, and what it       *)
(* destroys: nothing else if the node owns nothing.                        *)
LEMMA PruneChanges ==
  ASSUME NEW h, Forest(h), NEW n \in Addresses, NEW o \in Addresses,
         h.children[o] = <<>>, NEW x \in Addresses, x # n, x # o
  PROVE  /\ prune(h, n, o).children[x] = h.children[x]
         /\ prune(h, n, o).item[x] = h.item[x]
<1>1. CASE o \notin Range(h.children[n])
  BY <1>1, PruneSteps
<1>2. CASE o \in Range(h.children[n])
  <2> DEFINE u == Unhooked(h, n, o)
             G == Gone(u, {o})
  <2>1. prune(h, n, o) = Destroy(u, {o})
    BY <1>2, PruneSteps
  <2>2. ForestBut(u, {o})
    BY <1>2, UnhookedForest
  <2>3. /\ u.item = h.item /\ u.children[x] = h.children[x]
        /\ \A m \in Addresses : m # n => u.children[m] = h.children[m]
    BY <1>2, UnhookedFields DEF Forest, ForestBut
  <2>4. n # o
    BY <1>2 DEF Range
  <2>5. u.children[o] = <<>>
    BY <2>3, <2>4
  <2> HIDE DEF u
  <2>6. Owned(u, o) \subseteq {o}
    <3>1. ClosedDown(u.children, {o})
      BY <2>5 DEF ClosedDown
    <3> QED
      BY <2>2, <3>1, ForestOwned
  <2>7. x \notin G
    BY <2>6 DEF Gone
  <2>8. /\ Destroy(u, {o}).children[x] = u.children[x]
        /\ Destroy(u, {o}).item[x] = u.item[x]
    BY <2>7 DEF Destroy, Gone
  <2> QED
    BY <2>1, <2>3, <2>8
<1> QED
  BY <1>1, <1>2

(* What the move leaves as Given has it: a node that is not destroyed, nor *)
(* the source, nor the node that the source is pruned from.                *)
LEMMA MovedFields ==
  ASSUME NEW h, Forest(h), NEW n, NEW o, Movable(h, n, o), NEW x \in Addresses,
         x \notin Gone(Given(h, n, o), Range(h.children[n])), x # o,
         o \notin Gone(Given(h, n, o), Range(h.children[n])) => x # h.parent[o]
  PROVE  /\ MovedSteps(h, n, o).children[x] = Given(h, n, o).children[x]
         /\ MovedSteps(h, n, o).item[x] = Given(h, n, o).item[x]
<1> DEFINE b == Given(h, n, o)
           R == Range(h.children[n])
           G == Gone(b, R)
           q == Destroy(b, R)
<1>1. /\ n \in Addresses /\ o \in Addresses /\ n # o /\ o \in h.alive
      /\ h.parent \in [Addresses -> Above] /\ ForestBut(b, R)
      /\ ForestBut(h, {}) /\ n \in h.alive
  BY GivenForest, ForestFacts DEF Movable, Forest
<1>2. b.alive = h.alive /\ b.children[o] = <<>>
  BY <1>1, GivenFields
<1>3. x \notin G /\ (o \notin G => x # h.parent[o])
  OBVIOUS
<1> HIDE DEF b
<1>4. /\ q.alive = b.alive \ G
      /\ \A y \in Addresses : q.children[y] = IF y \in G THEN <<>> ELSE b.children[y]
      /\ \A y \in Addresses : q.item[y] = IF y \in G THEN NoItem ELSE b.item[y]
  BY DEF Destroy, Gone
<1>5. Forest(q)
  <2>1. R \subseteq b.alive
    BY <1>1, <1>2, ForestFacts DEF Range
  <2> QED
    BY <1>1, <2>1, DestroyKeeps
<1>6. MovedSteps(h, n, o) =
        IF o \in q.alive /\ h.parent[o] # Null THEN prune(q, h.parent[o], o) ELSE q
  BY DEF MovedSteps, b
<1> HIDE DEF q, G, R
<1>7. q.children[x] = b.children[x] /\ q.item[x] = b.item[x]
  BY <1>3, <1>4
<1>8. CASE o \in q.alive /\ h.parent[o] # Null
  <2>1. PICK par : par = h.parent[o]
    OBVIOUS
  <2>2. par \in Addresses /\ x # par
    BY <1>1, <1>3, <1>4, <1>8, <2>1 DEF Above
  <2>3. q.children[o] = <<>>
    BY <1>1, <1>2, <1>4
  <2>4. /\ prune(q, par, o).children[x] = q.children[x]
        /\ prune(q, par, o).item[x] = q.item[x]
    BY <1>1, <1>5, <2>2, <2>3, PruneChanges
  <2>5. MovedSteps(h, n, o) = prune(q, par, o)
    BY <1>6, <1>8, <2>1
  <2> QED
    BY <1>7, <2>4, <2>5 DEF b
<1>9. CASE ~ (o \in q.alive /\ h.parent[o] # Null)
  BY <1>6, <1>7, <1>9 DEF b
<1> QED
  BY <1>8, <1>9

(* What a move gives and what it leaves alone                              *)
TreeMoved(g, h, n, o) ==
  /\ TreeIn(g, n) = TreeIn(h, o)
  /\ \A l \in Locals \intersect h.alive :
       n \notin Owned(h, l) /\ o \notin Owned(h, l) => TreeIn(g, l) = TreeIn(h, l)

(* The steps of a move do it. *)
LEMMA MovedTrees ==
  ASSUME NEW h, Forest(h), NEW n, NEW o, Movable(h, n, o),
         NEW g, g = MovedSteps(h, n, o)
  PROVE  TreeMoved(g, h, n, o)
<1> DEFINE b == Given(h, n, o)
           R == Range(h.children[n])
           G == Gone(b, R)
           O == Owned(h, o)
           par == h.parent[o]
<1>1. /\ n \in Addresses /\ o \in Addresses /\ n # o /\ o \in h.alive
      /\ ForestBut(h, {}) /\ n \in h.alive /\ ForestBut(b, R)
      /\ h.parent \in [Addresses -> Above] /\ Rooted(h.parent)
      /\ h.alive \subseteq Addresses /\ Null \notin Addresses
  BY GivenForest, ForestFacts, AddressFacts DEF Movable, Forest
<1>2. Forest(g)
  BY MovedKeeps
<1>3. /\ n \notin G /\ \A x \in O \ {o} : x \notin G
      /\ \A l \in Locals \intersect h.alive :
           n \notin Owned(h, l) /\ o \notin Owned(h, l) =>
             \A x \in Owned(h, l) : x \notin G
  BY MoveSpares
<1>4. \A m \in Addresses :
        /\ b.item[m] = IF m = n THEN h.item[o]
                       ELSE IF m = o THEN NoItem ELSE h.item[m]
        /\ b.children[m] = IF m = n THEN h.children[o]
                           ELSE IF m = o THEN <<>> ELSE h.children[m]
  BY GivenFields
<1>5. ASSUME NEW x \in Addresses, x \notin G, x # o, o \notin G => x # par
      PROVE  g.children[x] = b.children[x] /\ g.item[x] = b.item[x]
  BY <1>5, MovedFields
<1>6. CopyPlace(h, n, o)
  BY <1>1, PlaceOf DEF Movable
<1>7. /\ O \subseteq h.alive /\ o \in O /\ n \notin O
      /\ \A x \in O : \A i \in DOMAIN h.children[x] :
           h.children[x][i] \in O /\ h.children[x][i] # o
  BY <1>6, SourceFacts
<1>8. par # Null => /\ o \in Range(h.children[par]) /\ par \in Addresses
                    /\ par \notin O
  <2> SUFFICES ASSUME par # Null
               PROVE  o \in Range(h.children[par]) /\ par \in Addresses /\ par \notin O
    OBVIOUS
  <2>1. par \in Addresses
    BY <1>1 DEF Above
  <2>2. o \in Cells
    BY <1>1 DEF ForestBut, VariablesFree, Addresses
  <2>3. o \in Range(h.children[par])
    BY <1>1, <2>2 DEF ForestBut, Hanging, Attached, Range
  <2>4. AncestorsIn(h, o) = {par} \union AncestorsIn(h, par)
        /\ o \notin AncestorsIn(h, o)
    BY <1>1, AncestorFacts
  <2>5. par \in O => par = o \/ o \in AncestorsIn(h, par)
    BY <1>1, OwnedAbove
  <2> QED
    BY <2>1, <2>3, <2>4, <2>5
<1>9. par = n => o \in G
  <2>1. par = n => o \in R
    BY <1>1, <1>8
  <2>2. R \subseteq Addresses
    BY <1>1, ForestFacts DEF Range
  <2> QED
    BY <1>1, <2>1, <2>2, GoneFacts
<1> HIDE DEF b, R, G, par
<1>10. g.children[n] = h.children[o] /\ g.item[n] = h.item[o]
  BY <1>1, <1>3, <1>4, <1>5, <1>9
<1>11. \A x \in O \ {o} : g.children[x] = h.children[x] /\ g.item[x] = h.item[x]
  <2> SUFFICES ASSUME NEW x \in O \ {o}
               PROVE  g.children[x] = h.children[x] /\ g.item[x] = h.item[x]
    OBVIOUS
  <2>1. x \in Addresses /\ x # n /\ x # o /\ x # par
    BY <1>1, <1>7, <1>8
  <2> QED
    BY <1>3, <1>4, <1>5, <2>1
<1>12. TreeIn(g, n) = TreeIn(h, o)
  <2> DEFINE f == [x \in O |-> IF x = o THEN n ELSE x]
  <2>1. /\ f \in [O -> Addresses] /\ f[o] = n /\ \A x \in O \ {o} : f[x] = x
        /\ O \in SUBSET Addresses
    BY <1>1, <1>7
  <2> HIDE DEF f, O
  <2>2. ClosedDown(h.children, O)
    BY <1>7 DEF ClosedDown
  <2>3. ASSUME NEW x \in O PROVE Matches(h, g, f, x)
    <3>1. \A i \in DOMAIN h.children[x] : f[h.children[x][i]] = h.children[x][i]
      BY <1>7, <2>1
    <3>2. g.children[f[x]] = h.children[x] /\ g.item[f[x]] = h.item[x]
      BY <1>10, <1>11, <2>1
    <3> QED
      BY <3>1, <3>2 DEF Matches
  <2>4. \A x \in O : TreeIn(h, x) = TreeIn(g, f[x])
    BY <1>2, <2>1, <2>2, <2>3, SameTree
  <2> QED
    BY <1>7, <2>1, <2>4
<1>13. ASSUME NEW l \in Locals \intersect h.alive, n \notin Owned(h, l),
              o \notin Owned(h, l)
       PROVE  TreeIn(g, l) = TreeIn(h, l)
  <2> DEFINE D == Owned(h, l)
  <2>1. /\ l \in D /\ D \subseteq h.alive /\ ClosedDown(h.children, D)
        /\ n \notin D /\ o \notin D /\ \A x \in D : x \notin G
    BY <1>3, <1>13, OwnedWhole
  <2> HIDE DEF D
  <2>2. ASSUME NEW x \in D
        PROVE  g.item[x] = h.item[x] /\ g.children[x] = h.children[x]
    <3>1. x \in Addresses /\ x # n /\ x # o
      BY <1>1, <2>1
    <3>2. x # par
      <4> SUFFICES ASSUME x = par PROVE FALSE
        OBVIOUS
      <4>1. o \in Range(h.children[x])
        BY <1>1, <1>8, <3>1
      <4>2. \A i \in DOMAIN h.children[x] : h.children[x][i] \in D
        BY <2>1 DEF ClosedDown
      <4> QED
        BY <2>1, <4>1, <4>2 DEF Range
    <3> QED
      BY <1>4, <1>5, <2>1, <3>1, <3>2
  <2>3. D \in SUBSET Addresses
    BY <1>1, <2>1
  <2>4. \A x \in D : TreeIn(g, x) = TreeIn(h, x)
    BY <1>2, <2>1, <2>2, <2>3, KeptTree
  <2> QED
    BY <2>1, <2>4
<1> QED
  BY <1>12, <1>13 DEF TreeMoved

(* In every step of a move assignment *)
LEMMA MoveStep ==
  ASSUME Forest(heap), NEW n \in Addresses, NEW o \in Addresses, MoveAssign(n, o)
  PROVE  Tree(n)' = Tree(o) /\ Untouched({n, o})
<1>1. Movable(heap, n, o) /\ heap' = Moved(heap, n, o)
  BY DEF MoveAssign, NotAbove, is_parent_of, Movable
<1>2. heap' = MovedSteps(heap, n, o)
  BY <1>1, MovedKeeps
<1>3. TreeMoved(heap', heap, n, o)
  BY <1>1, <1>2, MovedTrees
<1> QED
  BY <1>3 DEF TreeMoved, Untouched, Tree

(* A move gives the whole tree to its new place and leaves all other trees *)
(* alone.                                                                  *)
THEOREM MovesKeepTheTree == Spec => MoveKeepsTree
<1>1. InForest /\ [Next]_heap =>
        [\A n, o \in Addresses :
           MoveAssign(n, o) => Tree(n)' = Tree(o) /\ Untouched({n, o})]_heap
  BY MoveStep DEF InForest
<1> QED
  BY <1>1, AlwaysForest, PTL DEF Spec, MoveKeepsTree
=============================================================================
