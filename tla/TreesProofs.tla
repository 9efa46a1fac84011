----------------------------- MODULE TreesProofs -----------------------------
(***************************************************************************)
(* A finished tree is its objects and the nodes above them, the first      *)
(* backup of a caller has just what its filters let through, and a restore *)
(* leaves just what all of its filters let through: TreeOfObjects,         *)
(* BackupExact and FilterExact of Trees, in every mission of Archives, for *)
(* every cluster, discovery, map of filters and number of missions.        *)
(*                                                                         *)
(* Three facts about trees carry the proof.  Trim, which recurs over the   *)
(* tree, keeps the nodes at, above and below the topmost nodes that are    *)
(* decided on and kept (TrimIs): this set solves the equation of trim, and *)
(* as no path is longer than five nodes two solutions agree, level by      *)
(* level from the objects upwards (TrimUnique).  So a filter for a level   *)
(* turns the tree of some objects into the tree of those that it admits    *)
(* (FilterTrims), and a comparison into that of those that the cluster     *)
(* does not have, whatever namespaces are passed over (CompareTrims).      *)
(* Third, Prune at one level moves the frontier up below which all nodes   *)
(* have objects (Grown, PruneKeeps).                                       *)
(*                                                                         *)
(* The inductive invariant TreesInv has a part for each loop.  That of     *)
(* filtrateResource (LoopInv) says of an array that is shifted under the   *)
(* loop: what the index has passed is filtered, what lies behind the end   *)
(* is filtered or is still in front of the index once more, and no list    *)
(* that has anything to back up is lost.  Where it starts over with the    *)
(* whole array (BuildInv), each list is looked at, some of them twice, and *)
(* twice does no harm, as a tree is a set.                                 *)
(***************************************************************************)
EXTENDS ArchivesProofs

-----------------------------------------------------------------------------
(* Nodes.                                                                  *)

\* A node is a path of names; Up(n, k) is the node above n on level k; a leaf
\* is a node that is an object.
Node == Seq(STRING)
Up(n, k) == SubSeq(n, 1, k)
Leaf == {o \in Node : Len(o) = 5}

\* A node above another one is a node, on its level, with the same names.
LEMMA UpFacts ==
  ASSUME NEW n \in Node, NEW k \in 0..Len(n)
  PROVE  /\ Up(n, k) \in Node /\ Len(Up(n, k)) = k
         /\ \A i \in 1..k : Up(n, k)[i] = n[i]
  <1>1. \A i \in 1..k : n[i] \in STRING
    <2>1. ASSUME NEW i \in 1..k PROVE i \in 1..Len(n)
      BY DEF Node
    <2> QED BY <2>1, ElementOfSeq DEF Node
  <1>2. /\ SubSeq(n, 1, k) \in Seq(STRING)
        /\ Len(SubSeq(n, 1, k)) = IF 1 <= k THEN k - 1 + 1 ELSE 0
        /\ \A i \in 1..(k - 1 + 1) : SubSeq(n, 1, k)[i] = n[1 + i - 1]
    BY <1>1, SubSeqProperties
  <1>3. k \in Nat
    BY DEF Node
  <1> QED BY <1>2, <1>3 DEF Up, Node

\* Nodes with the same names are the same.
LEMMA SameNode ==
  ASSUME NEW m \in Node, NEW n \in Node, Len(m) = Len(n),
         \A i \in 1..Len(m) : m[i] = n[i]
  PROVE  m = n
  BY SeqEqual DEF Node

\* What is above a node that is above another one is above this one.
LEMMA UpUp ==
  ASSUME NEW n \in Node, NEW l \in 0..Len(n), NEW k \in 0..l
  PROVE  Up(Up(n, l), k) = Up(n, k) /\ k \in 0..Len(n)
  <1>1. /\ Len(n) \in Nat /\ l \in Nat /\ k \in Nat /\ k \in 0..Len(n)
    BY DEF Node
  <1>2. Up(n, l) \in Node /\ Len(Up(n, l)) = l /\ \A i \in 1..l : Up(n, l)[i] = n[i]
    BY UpFacts
  <1>3. /\ Up(Up(n, l), k) \in Node /\ Len(Up(Up(n, l), k)) = k
        /\ \A i \in 1..k : Up(Up(n, l), k)[i] = Up(n, l)[i]
    BY <1>2, UpFacts
  <1>4. Up(n, k) \in Node /\ Len(Up(n, k)) = k /\ \A i \in 1..k : Up(n, k)[i] = n[i]
    BY <1>1, UpFacts
  <1>5. ASSUME NEW i \in 1..k PROVE Up(Up(n, l), k)[i] = Up(n, k)[i]
    <2>1. i \in 1..l
      BY <1>1
    <2> QED BY <1>2, <1>3, <1>4, <2>1
  <1> QED BY <1>1, <1>3, <1>4, <1>5, SameNode

\* A node on its own level is the node.
LEMMA WholeNode ==
  ASSUME NEW n \in Node
  PROVE  Up(n, Len(n)) = n /\ Len(n) \in Nat /\ Len(n) \in 0..Len(n)
  <1>1. Len(n) \in Nat /\ Len(n) \in 0..Len(n)
    BY DEF Node
  <1>2. Up(n, Len(n)) = n
    BY <1>1, UpFacts, SameNode
  <1> QED BY <1>1, <1>2

\* To be a prefix of a node is to be above it.
LEMMA PrefixIsUp ==
  ASSUME NEW m \in Node, NEW n \in Node
  PROVE  IsPrefix(m, n) <=> Len(m) \in 0..Len(n) /\ m = Up(n, Len(m))
  <1>1. Up(m, Len(m)) = m /\ Len(m) \in Nat /\ Len(n) \in Nat
    BY WholeNode
  <1>2. IsPrefix(m, n) <=> Len(m) <= Len(n) /\ Up(m, Len(m)) = Up(n, Len(m))
    BY DEF IsPrefix, Up
  <1> QED BY <1>1, <1>2

\* And the other way round.
LEMMA UpIsPrefix ==
  ASSUME NEW n \in Node, NEW k \in 0..Len(n)
  PROVE  /\ Up(n, k) \in Node /\ Len(Up(n, k)) = k /\ IsPrefix(Up(n, k), n)
  BY UpFacts, PrefixIsUp

\* The root is above every node and the only one of its level.
LEMMA RootNode ==
  /\ <<>> \in Node /\ Len(<<>>) = 0
  /\ \A n \in Node : IsPrefix(<<>>, n)
  /\ \A n \in Node : Len(n) = 0 => n = <<>>
  <1>1. <<>> \in Node /\ Len(<<>>) = 0
    BY DEF Node
  <1>2. ASSUME NEW n \in Node PROVE Up(n, 0) = <<>>
    BY SubSeqEmpty DEF Up
  <1>3. ASSUME NEW n \in Node PROVE IsPrefix(<<>>, n)
    <2>1. 0 \in 0..Len(n)
      BY WholeNode
    <2> QED BY <1>1, <1>2, <2>1, PrefixIsUp
  <1>4. ASSUME NEW n \in Node, Len(n) = 0 PROVE n = <<>>
    BY <1>2, <1>4, WholeNode
  <1> QED BY <1>1, <1>3, <1>4

\* A node is at or above itself.
LEMMA PrefixReflexive ==
  ASSUME NEW n \in Node
  PROVE  IsPrefix(n, n) /\ Len(n) \in Nat
  BY WholeNode, PrefixIsUp

\* What is above what is above a node is above it.
LEMMA PrefixTransitive ==
  ASSUME NEW a \in Node, NEW b \in Node, NEW c \in Node, IsPrefix(a, b), IsPrefix(b, c)
  PROVE  IsPrefix(a, c)
  <1>1. /\ Len(a) \in 0..Len(b) /\ a = Up(b, Len(a)) /\ Len(b) \in 0..Len(c)
        /\ b = Up(c, Len(b))
    BY PrefixIsUp
  <1>2. Up(Up(c, Len(b)), Len(a)) = Up(c, Len(a)) /\ Len(a) \in 0..Len(c)
    BY <1>1, UpUp
  <1> QED BY <1>1, <1>2, PrefixIsUp

\* The nodes above a node lie above each other.
LEMMA PrefixChain ==
  ASSUME NEW a \in Node, NEW b \in Node, NEW c \in Node, IsPrefix(a, c), IsPrefix(b, c),
         Len(a) <= Len(b)
  PROVE  IsPrefix(a, b)
  <1>1. /\ Len(a) \in 0..Len(c) /\ a = Up(c, Len(a)) /\ Len(b) \in 0..Len(c)
        /\ b = Up(c, Len(b))
    BY PrefixIsUp
  <1>2. Len(a) \in 0..Len(b)
    BY <1>1
  <1>3. Up(Up(c, Len(b)), Len(a)) = Up(c, Len(a))
    BY <1>1, <1>2, UpUp
  <1> QED BY <1>1, <1>2, <1>3, PrefixIsUp

\* Above is on a lower level, or the same.
LEMMA PrefixLength ==
  ASSUME NEW a \in Node, NEW b \in Node, IsPrefix(a, b)
  PROVE  /\ Len(a) \in Nat /\ Len(b) \in Nat /\ Len(a) <= Len(b)
         /\ Len(a) = Len(b) => a = b
  <1>1. Len(a) \in 0..Len(b) /\ a = Up(b, Len(a))
    BY PrefixIsUp
  <1>2. Up(b, Len(b)) = b /\ Len(b) \in Nat
    BY WholeNode
  <1> QED BY <1>1, <1>2

\* The way down to another node leads through the next level.
LEMMA PrefixNext ==
  ASSUME NEW a \in Node, NEW b \in Node, IsPrefix(a, b), a # b
  PROVE  \E c \in Node : Len(c) = Len(a) + 1 /\ IsPrefix(a, c) /\ IsPrefix(c, b)
  <1>1. Len(a) \in Nat /\ Len(b) \in Nat /\ Len(a) < Len(b)
    BY PrefixLength
  <1>2. Len(a) + 1 \in 0..Len(b)
    BY <1>1
  <1> DEFINE c == Up(b, Len(a) + 1)
  <1>3. c \in Node /\ Len(c) = Len(a) + 1 /\ IsPrefix(c, b)
    BY <1>2, UpIsPrefix
  <1> HIDE DEF c
  <1>4. IsPrefix(a, c)
    BY <1>1, <1>3, PrefixChain
  <1> QED BY <1>3, <1>4
-----------------------------------------------------------------------------
(* Trees.                                                                  *)

\* The nodes at or above those of a set, and the root.
ListParents(S) == {n \in Node : n = <<>> \/ \E o \in S : IsPrefix(n, o)}

\* WithParents is made of prefixes, and these are the nodes above.
LEMMA ParentsAre ==
  ASSUME NEW S \in SUBSET Node
  PROVE  WithParents(S) = ListParents(S)
  <1>1. ASSUME NEW o \in S PROVE Prefixes(o) = {n \in Node : IsPrefix(n, o)}
    <2>1. ASSUME NEW n \in Prefixes(o) PROVE n \in Node /\ IsPrefix(n, o)
      <3>1. PICK k \in 0..Len(o) : n = Up(o, k)
        BY DEF Prefixes, Up
      <3> QED BY <3>1, UpIsPrefix
    <2>2. ASSUME NEW n \in Node, IsPrefix(n, o) PROVE n \in Prefixes(o)
      <3>1. Len(n) \in 0..Len(o) /\ n = Up(o, Len(n))
        BY <2>2, PrefixIsUp
      <3> QED BY <3>1 DEF Prefixes, Up
    <2> QED BY <2>1, <2>2
  <1> QED BY <1>1, RootNode DEF WithParents, ListParents

\* A tree has at most five levels and with a node those above it.
Shaped(t) ==
  /\ t \subseteq {n \in Node : Len(n) <= 5}
  /\ \A n \in t, m \in Node : IsPrefix(m, n) => m \in t

\* The nodes above a set of nodes are a tree.
LEMMA ParentsShaped ==
  ASSUME NEW S \in SUBSET Node, \A n \in S : Len(n) <= 5
  PROVE  Shaped(WithParents(S)) /\ <<>> \in WithParents(S)
  <1>1. WithParents(S) = ListParents(S)
    BY ParentsAre
  <1>2. ASSUME NEW n \in ListParents(S)
        PROVE  n \in Node /\ Len(n) <= 5
               /\ \A m \in Node : IsPrefix(m, n) => m \in ListParents(S)
    <2>1. CASE n = <<>>
      <3>1. ASSUME NEW m \in Node, IsPrefix(m, n) PROVE m = <<>>
        BY <2>1, <3>1, RootNode, PrefixLength
      <3> QED BY <2>1, <3>1, RootNode DEF ListParents
    <2>2. CASE \E o \in S : IsPrefix(n, o)
      <3>1. PICK o \in S : IsPrefix(n, o)
        BY <2>2
      <3>2. n \in Node
        BY DEF ListParents
      <3>3. Len(n) <= 5
        <4>1. o \in Node /\ Len(o) <= 5 /\ Len(o) \in Nat
          BY PrefixReflexive
        <4>2. Len(n) \in Nat /\ Len(n) <= Len(o)
          BY <3>1, <3>2, <4>1, PrefixLength
        <4> QED BY <4>1, <4>2
      <3>4. \A m \in Node : IsPrefix(m, n) => IsPrefix(m, o)
        BY <3>1, <3>2, PrefixTransitive
      <3> QED BY <3>2, <3>3, <3>4 DEF ListParents
    <2> QED BY <2>1, <2>2 DEF ListParents
  <1>3. <<>> \in ListParents(S)
    BY RootNode DEF ListParents
  <1> QED BY <1>1, <1>2, <1>3 DEF Shaped

\* The nodes above some objects are no objects.
LEMMA ObjectsOfParents ==
  ASSUME NEW S \in SUBSET Leaf
  PROVE  Objects(WithParents(S)) = S
  <1>1. S \in SUBSET Node
    BY DEF Leaf
  <1>2. WithParents(S) = ListParents(S)
    BY <1>1, ParentsAre
  <1>3. ASSUME NEW n \in ListParents(S), Len(n) = 5 PROVE n \in S
    <2>1. n \in Node /\ n # <<>>
      BY <1>3, RootNode DEF ListParents
    <2>2. PICK o \in S : IsPrefix(n, o)
      BY <2>1 DEF ListParents
    <2>3. o \in Node /\ Len(o) = 5
      BY DEF Leaf
    <2>4. n = o
      BY <1>3, <2>1, <2>2, <2>3, PrefixLength
    <2> QED BY <2>4
  <1>4. ASSUME NEW o \in S PROVE o \in ListParents(S) /\ Len(o) = 5
    <2>1. o \in Node /\ Len(o) = 5 /\ IsPrefix(o, o)
      BY PrefixReflexive DEF Leaf
    <2> QED BY <2>1 DEF ListParents
  <1> QED BY <1>2, <1>3, <1>4 DEF Objects

\* A tree in which all nodes have objects is that of its objects.
LEMMA ParentsOfObjects ==
  ASSUME NEW t, Shaped(t), <<>> \in t,
         \A n \in t : n # <<>> => \E o \in Objects(t) : IsPrefix(n, o)
  PROVE  t = WithParents(Objects(t))
  <1>1. Objects(t) \in SUBSET Node /\ Objects(t) \subseteq t
    BY DEF Shaped, Objects
  <1>2. WithParents(Objects(t)) = ListParents(Objects(t))
    BY <1>1, ParentsAre
  <1>3. ASSUME NEW n \in t PROVE n \in ListParents(Objects(t))
    BY DEF Shaped, ListParents
  <1>4. ASSUME NEW n \in ListParents(Objects(t)) PROVE n \in t
    BY <1>1 DEF Shaped, ListParents
  <1> QED BY <1>2, <1>3, <1>4
-----------------------------------------------------------------------------
(* Trim.                                                                   *)

\* The topmost nodes at or below a node that are decided on, if they are kept;
\* what Trim leaves of a node; and the equation that it is defined by.
Deciding(t, D, K, n) ==
  {d \in t \cap D \cap K :
     IsPrefix(n, d) /\ \A e \in t \cap D : IsPrefix(n, e) /\ IsPrefix(e, d) => e = d}
Trimmed(t, D, K, n) ==
  {c \in t : IsPrefix(n, c)
               /\ \E d \in Deciding(t, D, K, n) : IsPrefix(d, c) \/ IsPrefix(c, d)}
TrimBody(t, D, K, f, n) ==
  IF n \in D THEN {c \in t : n \in K /\ IsPrefix(n, c)}
  ELSE UNION {{n, c} : c \in UNION {f[d] : d \in ListChildren(t, n)}}

\* Trim is a solution of its equation at the root.
LEMMA TrimUnfolds ==
  ASSUME NEW t, NEW D, NEW K
  PROVE  Trim(t, D, K) = (CHOOSE f : f = [n \in t |-> TrimBody(t, D, K, f, n)])[<<>>]
  BY DEF Trim, TrimBody

\* The way down to a node leads through a child.
LEMMA ChildAbove ==
  ASSUME NEW t, Shaped(t), NEW n \in t, NEW d \in t, IsPrefix(n, d), n # d
  PROVE  \E x \in ListChildren(t, n) : IsPrefix(x, d)
  <1>1. n \in Node /\ d \in Node
    BY DEF Shaped
  <1>2. PICK x \in Node : Len(x) = Len(n) + 1 /\ IsPrefix(n, x) /\ IsPrefix(x, d)
    BY <1>1, PrefixNext
  <1>3. x \in t
    BY <1>2 DEF Shaped
  <1> QED BY <1>2, <1>3 DEF ListChildren

\* The equation at a node that is decided on
LEMMA TrimDecided ==
  ASSUME NEW t, Shaped(t), NEW D, NEW K, NEW n \in t, n \in D
  PROVE  Trimmed(t, D, K, n) = {c \in t : n \in K /\ IsPrefix(n, c)}
  <1>1. n \in Node /\ IsPrefix(n, n)
    BY PrefixReflexive DEF Shaped
  <1>2. ASSUME NEW d \in Deciding(t, D, K, n) PROVE n = d /\ n \in K
    BY <1>1 DEF Deciding
  <1>3. ASSUME n \in K PROVE n \in Deciding(t, D, K, n)
    <2>1. ASSUME NEW e \in t, IsPrefix(n, e), IsPrefix(e, n) PROVE e = n
      <3>1. e \in Node
        BY DEF Shaped
      <3>2. Len(n) <= Len(e) /\ Len(e) <= Len(n) /\ Len(n) \in Nat /\ Len(e) \in Nat
        BY <1>1, <2>1, <3>1, PrefixLength
      <3> QED BY <1>1, <2>1, <3>1, <3>2, PrefixLength
    <2> QED BY <1>1, <1>3, <2>1 DEF Deciding
  <1> QED BY <1>2, <1>3 DEF Trimmed

\* and at one that is not.
LEMMA TrimUndecided ==
  ASSUME NEW t, Shaped(t), NEW D, NEW K, NEW n \in t, n \notin D
  PROVE  Trimmed(t, D, K, n)
           = UNION {{n, c} : c \in UNION {Trimmed(t, D, K, d) : d \in ListChildren(t, n)}}
  <1> DEFINE R == UNION {{n, c} : c \in UNION {Trimmed(t, D, K, d) : d \in ListChildren(t, n)}}
  <1>1. n \in Node /\ IsPrefix(n, n) /\ Len(n) \in Nat
    BY PrefixReflexive DEF Shaped
  <1>2. ASSUME NEW c \in Trimmed(t, D, K, n) PROVE c \in R
    <2>1. c \in t /\ IsPrefix(n, c)
      BY DEF Trimmed
    <2>2. PICK d \in Deciding(t, D, K, n) : IsPrefix(d, c) \/ IsPrefix(c, d)
      BY DEF Trimmed
    <2>3. d \in t \cap D \cap K /\ IsPrefix(n, d) /\ n # d
      BY DEF Deciding
    <2>4. PICK x \in ListChildren(t, n) : IsPrefix(x, d)
      BY <2>3, ChildAbove
    <2>5. /\ c \in Node /\ d \in Node /\ x \in Node /\ x \in t
          /\ Len(x) = Len(n) + 1 /\ IsPrefix(n, x) /\ IsPrefix(d, d)
      BY <2>1, <2>3, PrefixReflexive DEF Shaped, ListChildren
    <2>6. d \in Deciding(t, D, K, x)
      <3>1. ASSUME NEW e \in t \cap D, IsPrefix(x, e), IsPrefix(e, d) PROVE e = d
        <4>1. IsPrefix(n, e)
          BY <1>1, <2>5, <3>1, PrefixTransitive DEF Shaped
        <4> QED BY <3>1, <4>1 DEF Deciding
      <3> QED BY <2>3, <2>4, <3>1 DEF Deciding
    <2>7. d \in Trimmed(t, D, K, x)
      BY <2>3, <2>4, <2>5, <2>6 DEF Trimmed
    <2>8. CASE c = n
      BY <2>7, <2>8
    <2>9. CASE c # n
      <3>1. IsPrefix(x, c)
        <4>1. CASE IsPrefix(d, c)
          BY <2>4, <2>5, <4>1, PrefixTransitive
        <4>2. CASE IsPrefix(c, d)
          <5>1. Len(x) <= Len(c)
            BY <1>1, <2>1, <2>5, <2>9, PrefixLength
          <5> QED BY <2>4, <2>5, <4>2, <5>1, PrefixChain
        <4> QED BY <2>2, <4>1, <4>2
      <3>2. c \in Trimmed(t, D, K, x)
        BY <2>1, <2>2, <2>6, <3>1 DEF Trimmed
      <3> QED BY <3>2
    <2> QED BY <2>8, <2>9
  <1>3. ASSUME NEW x \in ListChildren(t, n), NEW c \in Trimmed(t, D, K, x)
        PROVE  c \in Trimmed(t, D, K, n) /\ n \in Trimmed(t, D, K, n)
    <2>1. x \in t /\ x \in Node /\ Len(x) = Len(n) + 1 /\ IsPrefix(n, x)
      BY DEF ListChildren, Shaped
    <2>2. c \in t /\ c \in Node /\ IsPrefix(x, c)
      BY DEF Trimmed, Shaped
    <2>3. PICK d \in Deciding(t, D, K, x) : IsPrefix(d, c) \/ IsPrefix(c, d)
      BY DEF Trimmed
    <2>4. d \in t \cap D \cap K /\ d \in Node /\ IsPrefix(x, d)
      BY DEF Deciding, Shaped
    <2>5. IsPrefix(n, d) /\ IsPrefix(n, c)
      BY <1>1, <2>1, <2>2, <2>4, PrefixTransitive
    <2>6. ASSUME NEW e \in t \cap D, IsPrefix(n, e), IsPrefix(e, d) PROVE e = d
      <3>1. e \in Node /\ e # n
        BY DEF Shaped
      <3>2. Len(x) <= Len(e)
        <4>1. Len(n) <= Len(e) /\ Len(n) # Len(e) /\ Len(e) \in Nat
          BY <1>1, <2>6, <3>1, PrefixLength
        <4> QED BY <1>1, <2>1, <4>1
      <3>3. IsPrefix(x, e)
        BY <2>1, <2>4, <2>6, <3>1, <3>2, PrefixChain
      <3> QED BY <2>6, <3>3 DEF Deciding
    <2>7. d \in Deciding(t, D, K, n)
      BY <2>4, <2>5, <2>6 DEF Deciding
    <2> QED BY <1>1, <2>2, <2>3, <2>5, <2>7 DEF Trimmed
  <1> QED BY <1>2, <1>3

\* The recursion has one solution: two agree on the leaves and, if on a level,
\* then on the one above it.
LEMMA TrimUnique ==
  ASSUME NEW t, Shaped(t), <<>> \in t, NEW D, NEW K, NEW f, NEW g,
         \A n \in t : f[n] = TrimBody(t, D, K, f, n),
         \A n \in t : g[n] = TrimBody(t, D, K, g, n)
  PROVE  f[<<>>] = g[<<>>]
  <1> DEFINE Same(k) == \A n \in t : Len(n) >= k => f[n] = g[n]
  <1>1. Same(6)
    <2>1. ASSUME NEW n \in t PROVE Len(n) \in Nat /\ Len(n) <= 5
      BY PrefixReflexive DEF Shaped
    <2>2. ASSUME NEW n \in t PROVE ~(Len(n) >= 6)
      BY <2>1
    <2> QED BY <2>2
  <1>2. ASSUME NEW k \in 0..5, Same(k + 1) PROVE Same(k)
    <2>1. ASSUME NEW n \in t, Len(n) >= k PROVE f[n] = g[n]
      <3>1. Len(n) \in Nat
        BY PrefixReflexive DEF Shaped
      <3>2. \A c \in ListChildren(t, n) : f[c] = g[c]
        BY <1>2, <2>1, <3>1 DEF ListChildren
      <3>3. TrimBody(t, D, K, f, n) = TrimBody(t, D, K, g, n)
        <4>1. {f[d] : d \in ListChildren(t, n)} = {g[d] : d \in ListChildren(t, n)}
          BY <3>2
        <4> QED BY <4>1, Zenon DEF TrimBody
      <3> QED BY <3>3
    <2> QED BY <2>1
  <1> HIDE DEF Same
  <1>3. Same(0)
    <2>1. /\ Same(6) => Same(5)
          /\ Same(5) => Same(4)
          /\ Same(4) => Same(3)
          /\ Same(3) => Same(2)
          /\ Same(2) => Same(1)
          /\ Same(1) => Same(0)
      BY <1>2
    <2> QED BY <1>1, <2>1
  <1> QED BY <1>3, RootNode DEF Same

\* So Trim keeps the nodes at, above and below the topmost ones that are
\* decided on and kept.
LEMMA TrimIs ==
  ASSUME NEW t, Shaped(t), <<>> \in t, NEW D, NEW K
  PROVE  Trim(t, D, K) = Trimmed(t, D, K, <<>>)
  <1> DEFINE P(f) == f = [n \in t |-> TrimBody(t, D, K, f, n)]
             g == [n \in t |-> Trimmed(t, D, K, n)]
             h == CHOOSE f : P(f)
  <1>1. P(g)
    <2>1. ASSUME NEW n \in t PROVE g[n] = TrimBody(t, D, K, g, n)
      <3>1. CASE n \in D
        BY <3>1, TrimDecided DEF TrimBody
      <3>2. CASE n \notin D
        <4>1. {Trimmed(t, D, K, d) : d \in ListChildren(t, n)} = {g[d] : d \in ListChildren(t, n)}
          BY DEF ListChildren
        <4>2. g[n] = Trimmed(t, D, K, n)
          OBVIOUS
        <4> HIDE DEF g
        <4>3. Trimmed(t, D, K, n)
                = UNION {{n, c} : c \in UNION {Trimmed(t, D, K, d) : d \in ListChildren(t, n)}}
          BY <3>2, TrimUndecided, Zenon
        <4>4. Trimmed(t, D, K, n)
                = UNION {{n, c} : c \in UNION {g[d] : d \in ListChildren(t, n)}}
          BY <4>1, <4>3, Zenon
        <4> QED BY <3>2, <4>2, <4>4, Zenon DEF TrimBody
      <3> QED BY <3>1, <3>2
    <2> QED BY <2>1
  <1>2. P(h)
    BY <1>1, Zenon
  <1>3. Trim(t, D, K) = h[<<>>]
    BY TrimUnfolds, Zenon
  <1> HIDE DEF h
  <1>4. \A n \in t : h[n] = TrimBody(t, D, K, h, n)
    BY <1>2
  <1>5. \A n \in t : g[n] = TrimBody(t, D, K, g, n)
    BY <1>1
  <1> HIDE DEF g
  <1>6. h[<<>>] = g[<<>>]
    BY <1>4, <1>5, TrimUnique, SMTT(30)
  <1> QED BY <1>3, <1>6 DEF g

\* There is no level below that of the objects.
LEMMA FiveIs == \A n \in Nat : n >= 5 /\ n <= 5 => n = 5
  OBVIOUS

\* An object is a node on the fifth level.
LEMMA LeafFacts == \A o \in Leaf : o \in Node /\ Len(o) = 5 /\ Len(o) <= 5
  <1>1. 5 <= 5
    OBVIOUS
  <1> QED BY <1>1, Zenon DEF Leaf

\* What a filter for one level makes of a tree.
Filters(L, level, K, t, D, M) ==
  /\ M # {} => Trim(t, D, K) = WithParents(M)
  /\ M = {} => \/ Trim(t, D, K) = {}
               \/ L = {} /\ level = 0 /\ Trim(t, D, K) = {<<>>} /\ <<>> \in K

\* A filter for one level leaves the objects whose node on that level it admits.
LEMMA FilterTrims ==
  ASSUME NEW L \in SUBSET Leaf, NEW level \in 0..5, NEW K,
         NEW t, t = WithParents(L),
         NEW D \in SUBSET t, \A n \in t : n \in D <=> Len(n) = level,
         NEW M \in SUBSET L, \A o \in L : o \in M <=> Up(o, level) \in K
  PROVE  Filters(L, level, K, t, D, M)
  <1>0. D = {n \in t : Len(n) = level} /\ M = {o \in L : Up(o, level) \in K}
    OBVIOUS
  <1>1. L \in SUBSET Node /\ M \in SUBSET Node /\ \A o \in L : Len(o) <= 5
    <2>1. L \in SUBSET Node /\ \A o \in L : Len(o) <= 5
      BY LeafFacts
    <2> QED BY <2>1
  <1>2. t = ListParents(L) /\ WithParents(M) = ListParents(M)
    BY <1>1, ParentsAre
  <1>3. Shaped(t) /\ <<>> \in t
    BY <1>1, ParentsShaped
  <1>4. Trim(t, D, K) = Trimmed(t, D, K, <<>>)
    BY <1>3, TrimIs
  <1>5. \A n \in t : n \in Node /\ IsPrefix(<<>>, n)
    BY <1>3, RootNode DEF Shaped
  <1>6. Deciding(t, D, K, <<>>) = D \cap K
    <2>1. ASSUME NEW d \in D, NEW e \in D, IsPrefix(e, d) PROVE e = d
      BY <1>5, <2>1, PrefixLength
    <2> QED BY <1>5, <2>1 DEF Deciding
  <1>7. Trim(t, D, K) = {c \in t : \E d \in D \cap K : IsPrefix(d, c) \/ IsPrefix(c, d)}
    BY <1>4, <1>5, <1>6 DEF Trimmed
  <1>8. ASSUME NEW o \in L
        PROVE  /\ Up(o, level) \in D /\ IsPrefix(Up(o, level), o)
               /\ \A d \in D : IsPrefix(d, o) => d = Up(o, level)
    <2>1. o \in Node /\ level \in 0..Len(o)
      BY DEF Leaf
    <2>2. /\ Up(o, level) \in Node /\ Len(Up(o, level)) = level
          /\ IsPrefix(Up(o, level), o)
      BY <2>1, UpIsPrefix
    <2>3. Up(o, level) \in D
      BY <1>2, <2>1, <2>2 DEF ListParents
    <2>4. ASSUME NEW d \in D, IsPrefix(d, o) PROVE d = Up(o, level)
      BY <1>5, <2>1, <2>4, PrefixIsUp
    <2> QED BY <2>2, <2>3, <2>4
  <1>9. ASSUME NEW c \in ListParents(M), M # {} PROVE c \in Trim(t, D, K)
    <2>1. c \in Node
      BY DEF ListParents
    <2>2. PICK o \in M : IsPrefix(c, o)
      BY <1>1, <1>9, RootNode DEF ListParents
    <2>3. c \in t
      BY <1>2, <2>1, <2>2 DEF ListParents
    <2>4. /\ Up(o, level) \in D \cap K /\ IsPrefix(Up(o, level), o)
          /\ Up(o, level) \in Node /\ o \in Node
      BY <1>1, <1>5, <1>8, <2>2
    <2>5. IsPrefix(Up(o, level), c) \/ IsPrefix(c, Up(o, level))
      <3>1. Len(c) \in Nat /\ Len(Up(o, level)) \in Nat
        BY <2>1, <2>4, PrefixReflexive
      <3>2. CASE Len(c) <= Len(Up(o, level))
        BY <2>1, <2>2, <2>4, <3>2, PrefixChain
      <3>3. CASE Len(Up(o, level)) <= Len(c)
        BY <2>1, <2>2, <2>4, <3>3, PrefixChain
      <3> QED BY <3>1, <3>2, <3>3
    <2> QED BY <1>7, <2>3, <2>4, <2>5
  <1>10. ASSUME NEW c \in Trim(t, D, K), L # {} PROVE c \in ListParents(M) /\ M # {}
    <2>1. c \in t /\ c \in Node
      BY <1>5, <1>7
    <2>2. PICK d \in D \cap K : IsPrefix(d, c) \/ IsPrefix(c, d)
      BY <1>7
    <2>3. d \in Node /\ d \in t
      BY <1>5
    <2>4. \A n \in t : \E o \in L : IsPrefix(n, o)
      BY <1>1, <1>2, <1>10, RootNode DEF ListParents
    <2>5. PICK o \in L : IsPrefix(d, o) /\ IsPrefix(c, o)
      <3>1. CASE IsPrefix(d, c)
        <4>1. PICK o \in L : IsPrefix(c, o)
          BY <2>1, <2>4
        <4>2. IsPrefix(d, o)
          BY <1>1, <2>1, <2>3, <3>1, <4>1, PrefixTransitive
        <4> QED BY <4>1, <4>2
      <3>2. CASE IsPrefix(c, d)
        <4>1. PICK o \in L : IsPrefix(d, o)
          BY <2>3, <2>4
        <4>2. IsPrefix(c, o)
          BY <1>1, <2>1, <2>3, <3>2, <4>1, PrefixTransitive
        <4> QED BY <4>1, <4>2
      <3> QED BY <2>2, <3>1, <3>2
    <2>6. d = Up(o, level) /\ o \in M
      BY <1>8, <2>5
    <2> QED BY <2>1, <2>5, <2>6 DEF ListParents
  <1>11. CASE L # {}
    <2>1. M # {} => Trim(t, D, K) = ListParents(M)
      BY <1>9, <1>10, <1>11
    <2>2. M = {} => Trim(t, D, K) = {}
      BY <1>10, <1>11
    <2> QED BY <1>2, <2>1, <2>2 DEF Filters
  <1>12. CASE L = {}
    <2>1. M = {} /\ t = {<<>>}
      BY <1>2, <1>12, RootNode DEF ListParents
    <2>2. CASE level = 0 /\ <<>> \in K
      <3>1. <<>> \in D
        BY <2>1, <2>2, RootNode
      <3>2. Trim(t, D, K) = {<<>>}
        BY <1>5, <1>7, <2>1, <2>2, <3>1
      <3> QED BY <1>12, <2>1, <2>2, <3>2 DEF Filters
    <2>3. CASE ~(level = 0 /\ <<>> \in K)
      <3>1. D \cap K = {}
        BY <2>1, <2>3, RootNode
      <3>2. Trim(t, D, K) = {}
        BY <1>7, <3>1
      <3> QED BY <2>1, <3>2 DEF Filters
    <2> QED BY <2>2, <2>3
  <1> QED BY <1>11, <1>12

\* A comparison leaves the objects that the cluster does not have: below a
\* node that is passed over it has none.
LEMMA CompareTrims ==
  ASSUME NEW L \in SUBSET Leaf, NEW current \in SUBSET Leaf, NEW passed,
         \A n \in passed : n \in WithParents(L) /\ Len(n) = 4 /\ n \notin WithParents(current)
  PROVE  {<<>>} \cup Trim(WithParents(L), passed \cup L, passed \cup (L \ current))
           = WithParents(L \ current)
  <1> DEFINE t == WithParents(L)
             D == passed \cup L
             K == passed \cup (L \ current)
             M == L \ current
  <1>1. /\ L \in SUBSET Node /\ current \in SUBSET Node /\ M \in SUBSET Node
        /\ \A o \in L : Len(o) = 5
    BY DEF Leaf
  <1>2. t = ListParents(L) /\ WithParents(M) = ListParents(M)
        /\ WithParents(current) = ListParents(current)
    BY <1>1, ParentsAre
  <1>3. Shaped(t) /\ <<>> \in t
    <2>1. \A o \in L : Len(o) <= 5
      BY LeafFacts
    <2> QED BY <1>1, <2>1, ParentsShaped
  <1>4. Trim(t, D, K) = Trimmed(t, D, K, <<>>)
    BY <1>3, TrimIs
  <1>5. \A n \in t : n \in Node /\ IsPrefix(<<>>, n)
    BY <1>3, RootNode DEF Shaped
  <1>6. passed \subseteq t /\ L \subseteq t
    BY <1>1, <1>2, PrefixReflexive DEF ListParents
  <1>7. ASSUME NEW p \in passed, NEW o \in L, IsPrefix(p, o) PROVE o \in M
    <2>1. p \in Node
      BY <1>5, <1>6
    <2>2. p \notin ListParents(current)
      BY <1>2
    <2> QED BY <1>7, <2>1, <2>2 DEF ListParents
  <1>8. ASSUME NEW p \in passed
        PROVE  p \in Node /\ Len(p) = 4 /\ \E o \in L : IsPrefix(p, o)
    <2>1. p \in Node /\ p \in ListParents(L) /\ Len(p) = 4
      BY <1>2, <1>5, <1>6
    <2> QED BY <2>1, RootNode DEF ListParents
  <1> HIDE DEF t
  <1>9. ASSUME NEW c \in Trim(t, D, K) PROVE c \in ListParents(M)
    <2>1. c \in t /\ c \in Node
      BY <1>4, <1>5 DEF Trimmed
    <2>2. PICK d \in t \cap D \cap K : IsPrefix(d, c) \/ IsPrefix(c, d)
      BY <1>4 DEF Trimmed, Deciding
    <2>3. d \in Node
      BY <1>5
    <2>4. CASE d \in M
      <3>1. c = d \/ IsPrefix(c, d)
        <4>1. CASE IsPrefix(d, c)
          <5>1. Len(d) <= Len(c) /\ Len(c) \in Nat
            BY <2>1, <2>3, <4>1, PrefixLength
          <5>2. Len(d) = 5 /\ Len(c) <= 5
            BY <1>1, <1>3, <2>1, <2>4 DEF Shaped
          <5>3. Len(c) >= 5
            BY <5>1, <5>2
          <5>4. Len(c) = Len(d)
            BY <5>1, <5>2, <5>3, FiveIs
          <5> QED BY <2>1, <2>3, <4>1, <5>4, PrefixLength
        <4> QED BY <2>2, <4>1
      <3>2. IsPrefix(c, d)
        BY <2>1, <3>1, PrefixReflexive
      <3> QED BY <2>1, <2>4, <3>2 DEF ListParents
    <2>5. CASE d \in passed
      <3>1. CASE IsPrefix(d, c)
        <4>1. c # <<>>
          <5>1. Len(d) = 4 /\ Len(d) <= Len(c)
            BY <1>8, <2>1, <2>3, <2>5, <3>1, PrefixLength
          <5> QED BY <5>1, RootNode
        <4>2. PICK o \in L : IsPrefix(c, o)
          BY <1>2, <2>1, <4>1 DEF ListParents
        <4>3. IsPrefix(d, o)
          BY <1>1, <2>1, <2>3, <3>1, <4>2, PrefixTransitive
        <4> QED BY <1>7, <2>1, <2>5, <4>2, <4>3 DEF ListParents
      <3>2. CASE IsPrefix(c, d)
        <4>1. PICK o \in L : IsPrefix(d, o)
          BY <1>8, <2>5
        <4>2. IsPrefix(c, o)
          BY <1>1, <2>1, <2>3, <3>2, <4>1, PrefixTransitive
        <4> QED BY <1>7, <2>1, <2>5, <4>1, <4>2 DEF ListParents
      <3> QED BY <2>2, <3>1, <3>2
    <2> QED BY <2>2, <2>4, <2>5
  <1>10. ASSUME NEW c \in ListParents(M), c # <<>> PROVE c \in Trim(t, D, K)
    <2>1. c \in Node
      BY DEF ListParents
    <2>2. PICK o \in M : IsPrefix(c, o)
      BY <1>10 DEF ListParents
    <2>3. /\ o \in Node /\ o \in L /\ Len(o) = 5 /\ o \in t /\ IsPrefix(<<>>, o)
          /\ IsPrefix(<<>>, c)
      BY <1>1, <1>6, <2>1, RootNode
    <2>4. c \in t
      BY <1>2, <2>1, <2>2, <2>3 DEF ListParents
    <2>5. CASE \E p \in passed : IsPrefix(p, o)
      <3>1. PICK p \in passed : IsPrefix(p, o)
        BY <2>5
      <3>2. p \in Node /\ p \in t /\ Len(p) = 4 /\ IsPrefix(<<>>, p)
        BY <1>5, <1>6
      <3>3. ASSUME NEW e \in t \cap D, IsPrefix(e, p) PROVE e = p
        <4>1. e \in Node /\ Len(e) <= Len(p) /\ Len(e) \in Nat
          BY <1>5, <3>2, <3>3, PrefixLength
        <4>2. Len(e) # 5
          <5>1. Len(p) # 5 /\ ~(5 <= 4)
            BY <3>2
          <5> QED BY <3>2, <4>1, <5>1, Zenon
        <4>3. e \in passed /\ Len(e) = 4
          BY <1>1, <4>2
        <4> QED BY <3>2, <3>3, <4>1, <4>3, PrefixLength
      <3>4. p \in Deciding(t, D, K, <<>>)
        BY <3>2, <3>3 DEF Deciding
      <3>5. IsPrefix(p, c) \/ IsPrefix(c, p)
        <4>1. Len(c) \in Nat /\ Len(p) \in Nat
          BY <2>1, <3>2, PrefixReflexive
        <4>2. CASE Len(c) <= Len(p)
          BY <2>1, <2>2, <2>3, <3>1, <3>2, <4>2, PrefixChain
        <4>3. CASE Len(p) <= Len(c)
          BY <2>1, <2>2, <2>3, <3>1, <3>2, <4>3, PrefixChain
        <4> QED BY <4>1, <4>2, <4>3
      <3> QED BY <1>4, <2>3, <2>4, <3>4, <3>5 DEF Trimmed
    <2>6. CASE ~\E p \in passed : IsPrefix(p, o)
      <3>1. ASSUME NEW e \in t \cap D, IsPrefix(e, o) PROVE e = o
        <4>1. e \in Node /\ e \in L /\ Len(e) = 5
          BY <1>1, <2>6, <3>1
        <4> QED BY <2>3, <3>1, <4>1, PrefixLength
      <3>2. o \in Deciding(t, D, K, <<>>)
        BY <2>2, <2>3, <3>1 DEF Deciding
      <3> QED BY <1>4, <2>2, <2>3, <2>4, <3>2 DEF Trimmed
    <2> QED BY <2>5, <2>6
  <1>11. <<>> \in ListParents(M)
    BY RootNode DEF ListParents
  <1> QED BY <1>2, <1>9, <1>10, <1>11 DEF t

\* Nodes that have an object below them.
Alive(t, n) == \E o \in Objects(t) : IsPrefix(n, o)

\* A tree in which all nodes of a level and below are alive, but for those at
\* or below one node, of which only the deeper ones are.
Grown(t, base, top, level) ==
  \A n \in t : Len(n) >= base /\ (IsPrefix(top, n) => Len(n) >= level) => Alive(t, n)

\* To prune a level loses no object, and the next level is alive.
LEMMA PruneKeeps ==
  ASSUME NEW t, Shaped(t), <<>> \in t, NEW top \in Node, NEW level \in 1..4,
         NEW base \in Nat,
         Grown(t, base, top, level + 1)
  PROVE  LET u == Prune(t, top, level) IN
         Shaped(u) /\ <<>> \in u /\ Objects(u) = Objects(t) /\ Grown(u, base, top, level)
  <1> DEFINE u == Prune(t, top, level)
  <1>1. u \subseteq t
    BY DEF Prune
  <1>2. \A n \in t \ u : Len(n) = level /\ ListChildren(t, n) = {}
    BY DEF Prune
  <1>3. \A n \in u : Len(n) = level /\ IsPrefix(top, n) => ListChildren(t, n) # {}
    BY DEF Prune
  <1> HIDE DEF u
  <1>4. \A n \in t : n \in Node /\ Len(n) \in Nat
    BY PrefixReflexive DEF Shaped
  <1>5. Objects(u) = Objects(t)
    <2>1. ASSUME NEW n \in t, Len(n) = 5 PROVE n \in u
      <3>1. n \notin u => Len(n) = level
        BY <1>2
      <3> QED BY <2>1, <3>1
    <2> QED BY <1>1, <2>1, Zenon DEF Objects
  <1>6. Shaped(u)
    <2>1. ASSUME NEW n \in u, NEW m \in Node, IsPrefix(m, n) PROVE m \in u
      <3>1. n \in t /\ m \in t /\ n \in Node
        BY <1>1, <2>1 DEF Shaped
      <3>2. CASE m = n
        BY <3>2
      <3>3. CASE m # n
        <4>1. ListChildren(t, m) # {}
          BY <2>1, <3>1, <3>3, ChildAbove
        <4> QED BY <1>2, <3>1, <4>1
      <3> QED BY <3>2, <3>3
    <2> QED BY <1>1, <2>1 DEF Shaped
  <1>7. <<>> \in u
    BY <1>2, RootNode
  <1>8. Grown(u, base, top, level)
    <2>1. ASSUME NEW n \in u, Len(n) >= base, IsPrefix(top, n) => Len(n) >= level
          PROVE  Alive(t, n)
      <3>1. n \in t /\ n \in Node /\ Len(n) \in Nat
        BY <1>1, <1>4
      <3>2. CASE IsPrefix(top, n) /\ Len(n) = level
        <4>1. PICK c \in ListChildren(t, n) : TRUE
          BY <1>3, <3>2
        <4>2. c \in t /\ c \in Node /\ Len(c) = level + 1 /\ IsPrefix(n, c)
          BY <1>4, <3>2, <4>1 DEF ListChildren
        <4>3. Len(c) >= base
          BY <2>1, <3>2, <4>2
        <4>4. Alive(t, c)
          BY <4>2, <4>3 DEF Grown
        <4> QED BY <1>4, <3>1, <4>2, <4>4, PrefixTransitive DEF Alive, Objects
      <3>3. CASE ~(IsPrefix(top, n) /\ Len(n) = level)
        <4>1. IsPrefix(top, n) => Len(n) >= level + 1
          BY <2>1, <3>1, <3>3
        <4> QED BY <2>1, <3>1, <4>1 DEF Grown
      <3> QED BY <3>2, <3>3
    <2> QED BY <1>5, <2>1 DEF Grown, Alive
  <1> QED BY <1>5, <1>6, <1>7, <1>8 DEF u

\* What is built for a version is all below it, and grows from the objects.
LEMMA BuildGrows ==
  ASSUME NEW t, Shaped(t), <<>> \in t, Grown(t, 2, <<>>, 2),
         NEW gv \in Node, Len(gv) = 2, NEW N \in SUBSET Node,
         \A n \in N : Len(n) <= 5 /\ IsPrefix(gv, n)
  PROVE  LET u == t \cup WithParents(N) IN
         Shaped(u) /\ <<>> \in u /\ Objects(u) = Objects(t) \cup Objects(N) /\ Grown(u, 2, gv, 5)
  <1> DEFINE P == WithParents(N)
             u == t \cup P
  <1>1. Shaped(P) /\ P = ListParents(N)
    BY ParentsShaped, ParentsAre
  <1> HIDE DEF P
  <1>2. Shaped(u) /\ <<>> \in u
    BY <1>1 DEF Shaped
  <1>3. ASSUME NEW n \in P, Len(n) >= 2
        PROVE  n \in Node /\ IsPrefix(gv, n) /\ \E m \in N : IsPrefix(n, m)
    <2>1. n \in Node /\ n # <<>>
      BY <1>1, <1>3, RootNode DEF ListParents
    <2>2. PICK m \in N : IsPrefix(n, m)
      BY <1>1, <2>1 DEF ListParents
    <2>3. IsPrefix(gv, n)
      BY <1>3, <2>1, <2>2, PrefixChain
    <2> QED BY <2>1, <2>2, <2>3
  <1>4. Objects(P) = Objects(N)
    <2>1. ASSUME NEW n \in P, Len(n) = 5 PROVE n \in N
      <3>0. Len(n) >= 2
        BY <2>1
      <3>1. PICK m \in N : IsPrefix(n, m)
        BY <1>3, <3>0
      <3>2. n \in Node /\ m \in Node /\ Len(m) <= 5
        BY <1>3, <3>0
      <3>3. Len(m) = 5
        <4>1. Len(m) \in Nat /\ Len(n) <= Len(m)
          BY <3>1, <3>2, PrefixLength
        <4>2. Len(m) >= 5
          BY <2>1, <4>1
        <4> QED BY <3>2, <4>1, <4>2, FiveIs
      <3> QED BY <2>1, <3>1, <3>2, <3>3, PrefixLength
    <2>2. N \subseteq P
      BY <1>1, PrefixReflexive DEF ListParents
    <2> QED BY <2>1, <2>2 DEF Objects
  <1>5. Objects(u) = Objects(t) \cup Objects(N)
    BY <1>4 DEF Objects
  <1>6. ASSUME NEW n \in u, Len(n) >= 2, IsPrefix(gv, n) => Len(n) >= 5
        PROVE  Alive(u, n)
    <2>1. CASE n \in t
      <3>1. Alive(t, n)
        BY <1>6, <2>1 DEF Grown
      <3> QED BY <3>1 DEF Alive, Objects
    <2>2. CASE n \in P
      <3>1. n \in Node /\ Len(n) >= 5 /\ Len(n) <= 5 /\ Len(n) \in Nat
        BY <1>1, <1>3, <1>6, <2>2, PrefixReflexive DEF Shaped
      <3>2. Len(n) = 5 /\ IsPrefix(n, n)
        BY <3>1, FiveIs, PrefixReflexive
      <3>3. n \in Objects(u)
        BY <2>2, <3>2 DEF Objects
      <3> QED BY <3>2, <3>3 DEF Alive
    <2> QED BY <2>1, <2>2
  <1> QED BY <1>2, <1>5, <1>6 DEF Grown, P
-----------------------------------------------------------------------------
(* Filters.                                                                *)

\* Filters that callers make, and none.
Filt == [include : BOOLEAN, names : SUBSET (STRING \cup NoFilter.names)]

\* The kinds of filters, and that each level of a tree has one of its own.
LEMMA KindsAre ==
  /\ FilterKinds = {"ClusterRoot", "GroupKind", "VersionKind", "ResourceKind",
                    "NamespaceKind", "ObjectKind", "ClusterKind"}
  /\ \A i \in 1..6 : NodeKinds[i] \in FilterKinds \ {"ClusterKind"}
  /\ \A i, k \in 1..6 : NodeKinds[i] = NodeKinds[k] => i = k
  /\ \A kind \in FilterKinds \ {"ClusterKind"} : \E i \in 1..6 : kind = NodeKinds[i]
  <1>1. /\ DOMAIN NodeKinds = 1..6
        /\ NodeKinds[1] = "ClusterRoot" /\ NodeKinds[2] = "GroupKind"
        /\ NodeKinds[3] = "VersionKind" /\ NodeKinds[4] = "ResourceKind"
        /\ NodeKinds[5] = "NamespaceKind" /\ NodeKinds[6] = "ObjectKind"
    BY DEF NodeKinds
  <1>2. FilterKinds = {NodeKinds[i] : i \in 1..6} \cup {"ClusterKind"}
    BY <1>1 DEF FilterKinds, ToSet
  <1>3. FilterKinds = {"ClusterRoot", "GroupKind", "VersionKind", "ResourceKind",
                       "NamespaceKind", "ObjectKind", "ClusterKind"}
    BY <1>1, <1>2
  <1>4. \A i \in 1..6 : NodeKinds[i] # "ClusterKind"
    BY <1>1
  <1>5. \A i, k \in 1..6 : NodeKinds[i] = NodeKinds[k] => i = k
    BY <1>1
  <1> QED BY <1>2, <1>3, <1>4, <1>5

\* The absence of a filter has the type of one.
LEMMA NoFilterType == NoFilter \in Filt
  <1>1. ASSUME NEW S \in SUBSET (STRING \cup NoFilter.names)
        PROVE  [include |-> FALSE, names |-> S] \in Filt
    BY DEF Filt
  <1>2. /\ NoFilter.names = {"unset"}
        /\ NoFilter = [include |-> FALSE, names |-> {"unset"}]
    BY DEF NoFilter
  <1> QED BY <1>1, <1>2

\* A filter that was prepared for a backup admits what it let through but for
\* what the default excludes.
LEMMA PreHandleAdmits ==
  ASSUME NEW f \in Filt, NEW default, NEW x
  PROVE  Admits(PreHandle(f, default), x) <=> Passes(f, x) /\ x \notin default
  <1>1. CASE f = NoFilter
    BY <1>1 DEF Admits, PreHandle, Passes
  <1>2. CASE f # NoFilter
    <2>1. /\ PreHandle(f, default).include = f.include
          /\ PreHandle(f, default).names
               = IF f.include THEN f.names \ default ELSE f.names \cup default
      BY <1>2 DEF PreHandle, Filt
    <2>2. f.include \in BOOLEAN
      BY DEF Filt
    <2>3. CASE f.include = TRUE
      BY <1>2, <2>1, <2>3 DEF Admits, Passes
    <2>4. CASE f.include = FALSE
      BY <1>2, <2>1, <2>4 DEF Admits, Passes
    <2> QED BY <2>2, <2>3, <2>4
  <1> QED BY <1>1, <1>2
-----------------------------------------------------------------------------
(* The invariant.                                                          *)

\* Where a tree is built.
Building == {"filtrate", "build", "namespaces", "resources", "versions"}

\* The map that the backup in hand was given, what that and the default ones
\* leave of a list, and what the backup should have.
Base == IF backups = 1 THEN asked ELSE Spent
Pass(v) == {r \in found[v] : Passes(Base["ResourceKind"], r) /\ r \notin DefaultResources}
Wanted == {o \in world : Selected(o, Base)}

\* Objects are what the cluster and discovery say they are, trees are trees.
WorldInv ==
  /\ world \subseteq Leaf
  /\ \A o \in world :
       /\ o[4] \in Spaces \cup {ClusterLevel}
       /\ o[4] = ClusterLevel <=> o[3] \in ClusterResources
       /\ \E v \in Lists : GroupVersions[v] = SubSeq(o, 1, 2) /\ o[3] \in found[v]
  /\ found \in [Lists -> SUBSET STRING]
  /\ asked \in [FilterKinds -> Filt]
  /\ backups \in Nat
  /\ \A s \in Slots : meant[s] \subseteq Leaf
  /\ Shaped(tree)

\* The map of the caller, between backups and in one.
MapInv ==
  /\ pc \notin Building => filters = IF backups = 0 THEN asked ELSE Spent
  /\ pc \in Building =>
       /\ backups # 0
       /\ filters \in [FilterKinds -> Filt]
       /\ filters["ResourceKind"] =
            IF pc = "filtrate" THEN PreHandle(Base["ResourceKind"], DefaultResources)
            ELSE NoFilter
       /\ filters["NamespaceKind"] = PreHandle(Base["NamespaceKind"], DefaultSpaces)
       /\ \A kind \in FilterKinds \ {"ResourceKind", "NamespaceKind"} :
            filters[kind] = asked[kind]

\* While a tree is built, no step but those is next, or the process is dead.
BusyInv ==
  pc \in Building => At("build", "tree") \/ At("restart", "tree")

\* filtrateResource: what the index has passed is filtered, and so is what is
\* left of the array behind its end, or it will be; a list that is no more in
\* front of the end has been emptied.
Filtered(x) == apis[vs[x]] = Pass(vs[x])
LoopInv ==
  pc = "filtrate" =>
    /\ vs \in [Lists -> Lists] /\ apis \in [Lists -> SUBSET STRING]
    /\ size \in 0..Len(GroupVersions) /\ j \in 1..(size + 1)
    /\ \A v \in Lists : apis[v] \in {found[v], Pass(v)}
    /\ \A x \in Lists : x < j => Filtered(x)
    /\ \A v \in Lists : \/ Pass(v) = {} /\ apis[v] = {}
                      \/ \E x \in Lists : x <= size /\ vs[x] = v
    /\ \A x \in Lists : x > size =>
         Filtered(x) \/ \E y \in Lists : j <= y /\ y <= size /\ vs[y] = vs[x]
    /\ tree = {<<>>} /\ gaps = {}

\* Every object that is wanted of the lists before the index is in the tree,
\* or its list failed.
Covered(t, g, k) ==
  \A o \in Wanted, v \in Lists, x \in Lists :
    x < k /\ vs[x] = v /\ GroupVersions[v] = SubSeq(o, 1, 2) /\ o[3] \in found[v] =>
      o \in t \/ SubSeq(o, 1, 3) \in g

\* The tree while it is built: which of its nodes have objects below them.
Version == GroupVersions[vs[j]]
BuildInv ==
  pc \in Building \ {"filtrate"} =>
    /\ vs \in [Lists -> Lists] /\ apis \in [Lists -> SUBSET STRING]
    /\ j \in 1..(Len(GroupVersions) + 1) /\ (pc # "build" => j \in Lists)
    /\ \A x \in Lists : Filtered(x)
    /\ \A v \in Lists : Pass(v) = {} \/ \E x \in Lists : vs[x] = v
    /\ <<>> \in tree
    /\ Objects(tree) \subseteq Wanted
    /\ Covered(tree, gaps, IF pc = "build" THEN j ELSE j + 1)
    /\ pc = "namespaces" => Grown(tree, 2, Version, 5)
    /\ pc = "resources" => Grown(tree, 2, Version, 4)
    /\ pc = "versions" => Grown(tree, 2, Version, 3)
    /\ pc = "build" => Grown(tree, 2, <<>>, 2)

\* Finished trees, and trees that are being filtered.
DoneInv ==
  /\ pc \in {"built", "compared"} => tree = WithParents(Objects(tree))
  /\ pc = "built" => BackupExact
Left(applied) == {o \in loaded : \A kind \in applied : Leaves(kind, o)}
FilterInv ==
  /\ pc = "panic" => Left(Present(filters)) = {}
  /\ pc = "filter" =>
       LET applied == Present(filters) \ todo IN
       /\ loaded \subseteq Leaf /\ todo \subseteq Present(filters)
       /\ tree = WithParents(Left(applied))
       /\ Left(applied) # {} \/ applied \subseteq {"ClusterRoot"}

\* The inductive invariant.
TreesInv ==
  /\ WorldInv /\ MapInv /\ BusyInv /\ LoopInv /\ BuildInv /\ DoneInv /\ FilterInv

\* It holds of what a caller starts with.
LEMMA TreesInvInit == FilesInit => TreesInv
  <1> SUFFICES ASSUME FilesInit PROVE TreesInv
    OBVIOUS
  <1>1. /\ found \in Discoveries /\ asked \in Maps /\ filters = asked /\ pc = "idle"
        /\ backups = 0 /\ tree = {<<>>}
    BY DEF FilesInit, Init
  <1>2. PICK w \in Worlds : world = {o \in w : \E v \in Lists :
           GroupVersions[v] = SubSeq(o, 1, 2) /\ o[3] \in found[v]}
    BY DEF FilesInit, Init
  <1>3. WorldInv
    <2>1. Shaped(tree)
      <3>1. WithParents({}) = {<<>>}
        BY DEF WithParents
      <3>2. Shaped(WithParents({}))
        BY ParentsShaped
      <3> QED BY <1>1, <3>1, <3>2
    <2>2. \A u \in Worlds : u \subseteq Leaf
      BY WorldsAssumption DEF Leaf, Node
    <2>3. \A s \in Slots : meant[s] \subseteq Leaf
      <3>1. \A S \in Snapshots : S \subseteq Leaf
        BY <2>2 DEF Snapshots
      <3> QED BY <3>1 DEF FilesInit
    <2>4. /\ found \in [Lists -> SUBSET STRING] /\ asked \in [FilterKinds -> Filt]
      BY <1>1, ListsAssumption, MapsAssumption DEF Filt
    <2>5. world \subseteq Leaf /\ world \subseteq w
      BY <1>2, <2>2
    <2>6. \A o \in world :
            /\ o[4] \in Spaces \cup {ClusterLevel}
            /\ o[4] = ClusterLevel <=> o[3] \in ClusterResources
      BY <2>5, WorldsAssumption
    <2>7. \A o \in world : \E v \in Lists : GroupVersions[v] = SubSeq(o, 1, 2) /\ o[3] \in found[v]
      BY <1>2
    <2> QED BY <1>1, <2>1, <2>3, <2>4, <2>5, <2>6, <2>7 DEF WorldInv
  <1> QED BY <1>1, <1>3
        DEF TreesInv, MapInv, BusyInv, LoopInv, BuildInv, DoneInv, FilterInv, Building

\* Steps that leave the trees alone.
LEMMA StillStep ==
  ASSUME TreesInv, UNCHANGED vars, BusyInv', \A s \in Slots : meant'[s] \subseteq Leaf
  PROVE  TreesInv'
  <1>1. UNCHANGED <<world, found, asked, filters, pc, mission, backups, apis, vs, size, j,
                    tree, gaps, loaded, todo>>
    BY DEF vars, lists
  <1>2. WorldInv'
    BY <1>1 DEF TreesInv, WorldInv, Shaped
  <1>3. MapInv'
    BY <1>1 DEF TreesInv, MapInv, Base, Spent
  <1>4. LoopInv'
    BY <1>1 DEF TreesInv, LoopInv, Base, Spent, Filtered, Pass
  <1>5. BuildInv'
    BY <1>1
          DEF TreesInv, BuildInv, Base, Spent, Filtered, Pass, Wanted, Covered, Grown, Alive,
                Objects, Version
  <1>6. DoneInv'
    BY <1>1 DEF TreesInv, DoneInv, BackupExact, Objects, Spent
  <1>7. FilterInv'
    BY <1>1 DEF TreesInv, FilterInv, Left, Leaves, Present
  <1> QED BY <1>2, <1>3, <1>4, <1>5, <1>6, <1>7 DEF TreesInv

\* Steps that are not of the building begin outside of it.
LEMMA NotBuilding ==
  ASSUME BusyInv, NEW step, NEW arg, At(step, arg), step \notin {"build", "restart"}
  PROVE  pc \notin Building
  BY DEF BusyInv, At

\* A mission that is given up leaves a tree that nobody asks for.
LEMMA AbandonStep ==
  ASSUME TreesInv, Abandon, pc \notin Building, meant' = meant
  PROVE  TreesInv'
  <1>1. pc' = "idle" /\ UNCHANGED <<world, found, asked, filters, backups, tree>>
    BY DEF Abandon
  <1>2. WorldInv'
    BY <1>1 DEF TreesInv, WorldInv, Shaped
  <1>3. MapInv'
    BY <1>1 DEF TreesInv, MapInv, Building, Spent
  <1> QED BY <1>1, <1>2, <1>3
        DEF TreesInv, BusyInv, LoopInv, BuildInv, DoneInv, FilterInv, Building

\* A caller that begins anew has its map as it was.
LEMMA RestartKeeps ==
  ASSUME TreesInv, Restart
  PROVE  TreesInv'
  <1>1. /\ pc' = "idle" /\ filters' = asked /\ backups' = 0
        /\ UNCHANGED <<world, found, asked, tree, meant>>
    BY DEF Restart
  <1>2. WorldInv'
    BY <1>1 DEF TreesInv, WorldInv, Shaped
  <1>3. MapInv'
    BY <1>1 DEF TreesInv, MapInv, Building
  <1> QED BY <1>1, <1>2, <1>3
        DEF TreesInv, BusyInv, LoopInv, BuildInv, DoneInv, FilterInv, Building
-----------------------------------------------------------------------------
(* The backup.                                                             *)

\* Groups and versions are nodes of the second level.
LEMMA ListsAre ==
  /\ Len(GroupVersions) \in Nat /\ Lists = 1..Len(GroupVersions)
  /\ \A v \in Lists : GroupVersions[v] \in Node /\ Len(GroupVersions[v]) = 2
  <1>1. Len(GroupVersions) \in Nat /\ Lists = 1..Len(GroupVersions)
    BY ListsAssumption DEF Lists
  <1>2. \A v \in Lists : GroupVersions[v] \in Node
    BY <1>1, ListsAssumption, ElementOfSeq DEF Node
  <1> QED BY <1>1, <1>2, ListsAssumption

\* The map that a backup was given is a map of filters.
LEMMA BaseType ==
  ASSUME WorldInv
  PROVE  /\ Base \in [FilterKinds -> Filt] /\ Spent \in [FilterKinds -> Filt]
         /\ \A kind \in FilterKinds \ {"ResourceKind", "NamespaceKind"} : Base[kind] = asked[kind]
  <1>1. asked \in [FilterKinds -> Filt] /\ NoFilter \in Filt
    BY NoFilterType DEF WorldInv
  <1>2. Spent \in [FilterKinds -> Filt]
    BY <1>1 DEF Spent
  <1>3. \A kind \in FilterKinds \ {"ResourceKind", "NamespaceKind"} : Spent[kind] = asked[kind]
    BY <1>1 DEF Spent
  <1> QED BY <1>1, <1>2, <1>3 DEF Base

\* A backup begins with what discovery returned, as yet unfiltered.
LEMMA BackupStep ==
  ASSUME TreesInv, Backup, BusyInv', meant' = meant
  PROVE  TreesInv'
  <1>1. /\ pc \in {"idle", "built", "compared"} /\ pc' = "filtrate" /\ gaps' = {}
        /\ backups' = backups + 1
        /\ filters' = [filters EXCEPT !["ResourceKind"] = PreHandle(@, DefaultResources),
                                      !["NamespaceKind"] = PreHandle(@, DefaultSpaces)]
        /\ apis' = found /\ vs' = [v \in Lists |-> v] /\ size' = Len(vs') /\ j' = 1
        /\ tree' = {<<>>} /\ UNCHANGED <<world, found, asked, loaded, todo>>
    BY DEF Backup, Begin
  <1>2. backups \in Nat /\ backups' # 0 /\ (backups' = 1 <=> backups = 0)
    BY <1>1 DEF TreesInv, WorldInv
  <1>3. filters = IF backups = 0 THEN asked ELSE Spent
    BY <1>1 DEF TreesInv, MapInv, Building
  <1>4. Base' = filters
    BY <1>1, <1>2, <1>3 DEF Base, Spent
  <1>5. filters \in [FilterKinds -> Filt]
        /\ \A kind \in FilterKinds \ {"ResourceKind", "NamespaceKind"} : filters[kind] = asked[kind]
    BY <1>3, BaseType DEF TreesInv, WorldInv, Spent, Base
  <1>6. WorldInv'
    <2>1. Shaped(tree')
      <3>1. WithParents({}) = {<<>>}
        BY DEF WithParents
      <3>2. Shaped(WithParents({}))
        BY ParentsShaped
      <3> QED BY <1>1, <3>1, <3>2
    <2>2. WorldInv
      BY DEF TreesInv
    <2>5. backups' \in Nat
      BY <1>1, <1>2
    <2>3. /\ world' = world /\ found' = found /\ asked' = asked
      BY <1>1
    <2>4. \A s \in Slots : meant'[s] \subseteq Leaf
      BY <2>2 DEF WorldInv
    <2> QED BY <2>1, <2>2, <2>3, <2>4, <2>5 DEF WorldInv
  <1>7. MapInv'
    <2>1. \A f \in Filt : PreHandle(f, DefaultResources) \in Filt /\ PreHandle(f, DefaultSpaces) \in Filt
      BY DefaultsAssumption DEF PreHandle, Filt
    <2>2. "ResourceKind" \in FilterKinds /\ "NamespaceKind" \in FilterKinds
      BY KindsAre
    <2>3. filters' \in [FilterKinds -> Filt]
      BY <1>1, <1>5, <2>1, <2>2
    <2>4. /\ filters'["ResourceKind"] = PreHandle(filters["ResourceKind"], DefaultResources)
          /\ filters'["NamespaceKind"] = PreHandle(filters["NamespaceKind"], DefaultSpaces)
          /\ \A kind \in FilterKinds \ {"ResourceKind", "NamespaceKind"} :
               filters'[kind] = filters[kind]
      BY <1>1, <1>5, <2>2
    <2> QED BY <1>1, <1>2, <1>4, <1>5, <2>3, <2>4 DEF MapInv, Building
  <1>8. LoopInv'
    <2>1. Len(vs') = Len(GroupVersions) /\ vs' \in [Lists -> Lists]
      <3>1. vs' = [v \in 1..Len(GroupVersions) |-> v]
        BY <1>1, ListsAre
      <3> QED BY <3>1, ListsAre
    <2>2. \A v \in Lists : v <= size' /\ ~(v > size') /\ ~(v < j') /\ vs'[v] = v
      BY <1>1, <2>1, ListsAre
    <2>3. /\ apis' \in [Lists -> SUBSET STRING] /\ size' \in 0..Len(GroupVersions)
          /\ j' \in 1..(size' + 1)
      BY <1>1, <2>1, ListsAre DEF TreesInv, WorldInv
    <2> QED BY <1>1, <2>1, <2>2, <2>3 DEF LoopInv
  <1> QED BY <1>1, <1>6, <1>7, <1>8 DEF TreesInv, BuildInv, DoneInv, FilterInv, Building

\* The filter in the loop is that of the caller with the default one.
LEMMA PassAdmits ==
  ASSUME WorldInv, MapInv, pc = "filtrate"
  PROVE  \A r : Admits(filters["ResourceKind"], r)
                  <=> Passes(Base["ResourceKind"], r) /\ r \notin DefaultResources
  <1>1. Base["ResourceKind"] \in Filt
    BY BaseType, KindsAre
  <1>2. filters["ResourceKind"] = PreHandle(Base["ResourceKind"], DefaultResources)
    BY DEF MapInv, Building
  <1> QED BY <1>1, <1>2, PreHandleAdmits

\* One turn of the loop of filtrateResource: the list at the index is filtered,
\* and taken out of the array, which moves, if nothing is left of it.
LEMMA FiltrateResourceStep ==
  ASSUME TreesInv, FiltrateResource, BusyInv', meant' = meant
  PROVE  TreesInv'
  <1> DEFINE left == {r \in apis[vs[j]] : Admits(filters["ResourceKind"], r)}
             n == Len(GroupVersions)
  <1>1. /\ pc = "filtrate" /\ j <= size
        /\ apis' = [apis EXCEPT ![vs[j]] = left]
        /\ vs' = IF left = {} THEN ShiftDown(vs, size, j) ELSE vs
        /\ size' = IF left = {} THEN size - 1 ELSE size
        /\ j' = IF left = {} THEN j ELSE j + 1
        /\ UNCHANGED <<world, found, asked, filters, pc, backups, tree, gaps>>
    BY DEF FiltrateResource, NextIndex
  <1>2. /\ vs \in [Lists -> Lists] /\ apis \in [Lists -> SUBSET STRING]
        /\ size \in 0..n /\ j \in 1..(size + 1) /\ n \in Nat /\ Lists = 1..n
        /\ j \in Lists
        /\ tree = {<<>>} /\ gaps = {}
    BY <1>1, ListsAre DEF TreesInv, LoopInv
  <1>3. /\ \A v \in Lists : apis[v] \in {found[v], Pass(v)}
        /\ \A x \in Lists : x < j => Filtered(x)
        /\ \A v \in Lists : \/ Pass(v) = {} /\ apis[v] = {}
                            \/ \E x \in Lists : x <= size /\ vs[x] = v
        /\ \A x \in Lists : x > size =>
             Filtered(x) \/ \E y \in Lists : j <= y /\ y <= size /\ vs[y] = vs[x]
    BY <1>1 DEF TreesInv, LoopInv
  <1>4. left = Pass(vs[j])
    <2>1. \A r : Admits(filters["ResourceKind"], r)
                   <=> Passes(Base["ResourceKind"], r) /\ r \notin DefaultResources
      BY <1>1, PassAdmits DEF TreesInv
    <2>2. apis[vs[j]] \in {found[vs[j]], Pass(vs[j])}
      BY <1>2, <1>3
    <2> QED BY <2>1, <2>2 DEF Pass
  <1>5. Pass(vs[j]) \in SUBSET STRING
    BY <1>2 DEF TreesInv, WorldInv, Pass
  <1> HIDE DEF left, n
  <1>6. \A v : Pass(v)' = Pass(v)
    BY <1>1 DEF Pass, Base, Spent
  <1>7. /\ apis' \in [Lists -> SUBSET STRING]
        /\ apis'[vs[j]] = Pass(vs[j])
        /\ \A v \in Lists : apis'[v] = apis[v] \/ apis'[v] = Pass(v)
        /\ \A v \in Lists : apis[v] = Pass(v) => apis'[v] = Pass(v)
        /\ \A v \in Lists : v # vs[j] => apis'[v] = apis[v]
    BY <1>1, <1>2, <1>4, <1>5
  <1>8. LoopInv'
    <2>1. CASE left # {}
      <3>1. vs' = vs /\ size' = size /\ j' = j + 1
        BY <1>1, <2>1
      <3>2. \A x \in Lists : Filtered(x) \/ x = j => Filtered(x)'
        BY <1>2, <1>6, <1>7, <3>1 DEF Filtered
      <3>3. \A x \in Lists : x < j' => Filtered(x)'
        BY <1>2, <1>3, <3>1, <3>2
      <3>4. \A v \in Lists : \/ Pass(v)' = {} /\ apis'[v] = {}
                             \/ \E x \in Lists : x <= size' /\ vs'[x] = v
        BY <1>3, <1>6, <1>7, <3>1
      <3>5. ASSUME NEW x \in Lists, x > size'
            PROVE  Filtered(x)' \/ \E y \in Lists : j' <= y /\ y <= size' /\ vs'[y] = vs'[x]
        <4>1. CASE Filtered(x)
          BY <3>2, <4>1
        <4>2. CASE \E y \in Lists : j <= y /\ y <= size /\ vs[y] = vs[x]
          <5>1. PICK y \in Lists : j <= y /\ y <= size /\ vs[y] = vs[x]
            BY <4>2
          <5>2. CASE y = j
            BY <1>6, <1>7, <3>1, <5>1, <5>2 DEF Filtered
          <5>3. CASE y # j
            BY <1>2, <3>1, <5>1, <5>3
          <5> QED BY <5>2, <5>3
        <4> QED BY <1>3, <3>1, <3>5, <4>1, <4>2
      <3>6. size' \in 0..n /\ j' \in 1..(size' + 1) /\ vs' \in [Lists -> Lists]
        BY <1>1, <1>2, <3>1
      <3> QED BY <1>1, <1>2, <1>3, <1>6, <1>7, <3>3, <3>4, <3>5, <3>6 DEF LoopInv, n
    <2>2. CASE left = {}
      <3>1. vs' = ShiftDown(vs, size, j) /\ size' = size - 1 /\ j' = j
        BY <1>1, <2>2
      <3>2. /\ \A x \in Lists : x < j \/ x >= size => vs'[x] = vs[x]
            /\ \A x \in Lists : j <= x /\ x < size => x + 1 \in Lists /\ vs'[x] = vs[x + 1]
            /\ vs' \in [Lists -> Lists]
        <4>1. vs' = [x \in Lists |-> IF x \in j..(size - 1) THEN vs[x + 1] ELSE vs[x]]
          BY <1>2, <3>1 DEF ShiftDown
        <4>2. \A x \in Lists : x \in j..(size - 1) <=> j <= x /\ x < size
          BY <1>2
        <4>3. \A x \in Lists : x < size => x + 1 \in Lists
          BY <1>2
        <4>4. \A x \in Lists : x < j \/ x >= size => x \notin j..(size - 1)
          BY <1>2
        <4> QED BY <1>2, <4>1, <4>2, <4>3, <4>4
      <3>3. \A x \in Lists : x < j' => Filtered(x)'
        <4>1. ASSUME NEW x \in Lists, x < j PROVE Filtered(x)'
          <5>1. vs'[x] = vs[x] /\ vs[x] \in Lists /\ apis[vs[x]] = Pass(vs[x])
            BY <1>2, <1>3, <3>2, <4>1 DEF Filtered
          <5>2. apis'[vs'[x]] = Pass(vs[x])
            BY <1>7, <5>1
          <5> QED BY <1>1, <5>1, <5>2 DEF Filtered, Pass, Base, Spent
        <4> QED BY <3>1, <4>1
      <3>4. ASSUME NEW v \in Lists
            PROVE  \/ Pass(v)' = {} /\ apis'[v] = {}
                   \/ \E x \in Lists : x <= size' /\ vs'[x] = v
        <4>1. CASE Pass(v) = {} /\ apis[v] = {}
          BY <1>6, <1>7, <4>1
        <4>2. CASE v = vs[j]
          <5>1. apis'[v] = Pass(v) /\ Pass(v) = {}
            BY <1>4, <1>7, <2>2, <4>2
          <5>2. Pass(v)' = Pass(v)
            BY <1>6
          <5> QED BY <5>1, <5>2
        <4>3. CASE v # vs[j] /\ \E x \in Lists : x <= size /\ vs[x] = v
          <5>1. PICK x \in Lists : x <= size /\ vs[x] = v /\ x # j
            BY <4>3
          <5>2. CASE x < j
            <6>1. vs'[x] = v /\ x <= size'
              BY <1>1, <1>2, <3>1, <3>2, <5>1, <5>2
            <6> QED BY <6>1
          <5>3. CASE x > j
            <6>1. /\ x - 1 \in Lists /\ j <= x - 1 /\ x - 1 < size /\ (x - 1) + 1 = x
                  /\ x - 1 <= size'
              BY <1>2, <3>1, <5>1, <5>3
            <6>2. vs'[x - 1] = v
              BY <3>2, <5>1, <6>1
            <6> QED BY <6>1, <6>2
          <5>4. x < j \/ x > j
            BY <1>2, <5>1
          <5> QED BY <5>2, <5>3, <5>4, Zenon
        <4>4. (Pass(v) = {} /\ apis[v] = {}) \/ \E x \in Lists : x <= size /\ vs[x] = v
          BY <1>3
        <4> QED BY <4>1, <4>2, <4>3, <4>4, Zenon
      <3>5. ASSUME NEW v \in Lists, \E y \in Lists : j <= y /\ y <= size /\ vs[y] = v
            PROVE  \/ apis'[v] = Pass(v)
                   \/ \E y \in Lists : j' <= y /\ y <= size' /\ vs'[y] = v
        <4>1. PICK y \in Lists : j <= y /\ y <= size /\ vs[y] = v
          BY <3>5
        <4>2. CASE y = j
          BY <1>7, <4>1, <4>2
        <4>3. CASE y # j
          <5>1. /\ y - 1 \in Lists /\ j <= y - 1 /\ y - 1 < size /\ (y - 1) + 1 = y
                /\ y - 1 <= size'
            BY <1>2, <3>1, <4>1, <4>3
          <5>2. vs'[y - 1] = v
            BY <3>2, <4>1, <5>1
          <5> QED BY <3>1, <5>1, <5>2
        <4> QED BY <4>2, <4>3
      <3>6. ASSUME NEW x \in Lists, x > size'
            PROVE  Filtered(x)' \/ \E y \in Lists : j' <= y /\ y <= size' /\ vs'[y] = vs'[x]
        <4>0. x >= size
          BY <1>2, <3>1, <3>6
        <4>1. x >= size /\ vs'[x] = vs[x] /\ vs[x] \in Lists
          BY <1>2, <3>2, <4>0
        <4>2. \/ apis[vs[x]] = Pass(vs[x])
              \/ \E y \in Lists : j <= y /\ y <= size /\ vs[y] = vs[x]
          <5>1. CASE x = size
            BY <1>1, <1>2, <5>1
          <5>2. CASE x > size
            BY <1>3, <5>2 DEF Filtered
          <5> QED BY <1>2, <4>1, <5>1, <5>2
        <4>3. \/ apis'[vs[x]] = Pass(vs[x])
              \/ \E y \in Lists : j' <= y /\ y <= size' /\ vs'[y] = vs[x]
          BY <1>7, <3>5, <4>1, <4>2
        <4> QED BY <1>6, <4>1, <4>3 DEF Filtered
      <3>7. size' \in 0..n /\ j' \in 1..(size' + 1)
        BY <1>1, <1>2, <3>1
      <3> QED BY <1>1, <1>2, <1>3, <1>6, <1>7, <3>2, <3>3, <3>4, <3>6, <3>7
            DEF LoopInv, n
    <2> QED BY <2>1, <2>2
  <1>9. WorldInv' /\ MapInv'
    BY <1>1 DEF TreesInv, WorldInv, Shaped, MapInv, Base, Spent, Building
  <1> QED BY <1>1, <1>8, <1>9 DEF TreesInv, BuildInv, DoneInv, FilterInv

\* When the index has passed the end every list in the array is filtered, also
\* those behind the end.
LEMMA FiltrateResourceDoneStep ==
  ASSUME TreesInv, FiltrateResourceDone, BusyInv', meant' = meant
  PROVE  TreesInv'
  <1>1. /\ pc = "filtrate" /\ j > size /\ pc' = "build" /\ j' = 1
        /\ filters' = [filters EXCEPT !["ResourceKind"] = NoFilter]
        /\ UNCHANGED <<world, found, asked, backups, apis, vs, size, tree, gaps>>
    BY DEF FiltrateResourceDone
  <1>2. WorldInv'
    BY <1>1 DEF TreesInv, WorldInv, Shaped
  <1>3. MapInv'
    <2>1. "ResourceKind" \in FilterKinds /\ NoFilter \in Filt
      BY KindsAre, NoFilterType
    <2>2. filters \in [FilterKinds -> Filt]
      BY <1>1 DEF TreesInv, MapInv, Building
    <2>3. /\ filters' \in [FilterKinds -> Filt] /\ filters'["ResourceKind"] = NoFilter
          /\ \A kind \in FilterKinds \ {"ResourceKind"} : filters'[kind] = filters[kind]
      BY <1>1, <2>1, <2>2
    <2>4. "NamespaceKind" \in FilterKinds \ {"ResourceKind"} /\ Base' = Base
      BY <1>1, KindsAre DEF Base, Spent
    <2> QED BY <1>1, <2>3, <2>4 DEF TreesInv, MapInv, Building
  <1>4. BuildInv'
    <2>1. /\ vs \in [Lists -> Lists] /\ apis \in [Lists -> SUBSET STRING]
          /\ tree = {<<>>} /\ gaps = {} /\ j \in 1..(size + 1)
          /\ size \in 0..Len(GroupVersions)
          /\ Lists = 1..Len(GroupVersions) /\ Len(GroupVersions) \in Nat
      BY <1>1, ListsAre DEF TreesInv, LoopInv
    <2>2. \A v : Pass(v)' = Pass(v)
      BY <1>1 DEF Pass, Base, Spent
    <2>3. ASSUME NEW x \in Lists PROVE Filtered(x)'
      <3>1. ~\E y \in Lists : j <= y /\ y <= size
        BY <1>1, <2>1
      <3>2. x < j \/ x > size
        BY <1>1, <2>1
      <3>3. Filtered(x)
        BY <1>1, <3>1, <3>2 DEF TreesInv, LoopInv
      <3> QED BY <1>1, <2>2, <3>3 DEF Filtered
    <2>4. \A v \in Lists : Pass(v)' = {} \/ \E x \in Lists : vs'[x] = v
      BY <1>1, <2>2 DEF TreesInv, LoopInv
    <2>5. Objects(tree') \subseteq Wanted'
      <3>1. Objects({<<>>}) = {}
        BY RootNode DEF Objects
      <3> QED BY <1>1, <2>1, <3>1
    <2>6. Covered(tree, gaps, 1)'
      BY <2>1 DEF Covered
    <2>7. Grown(tree, 2, <<>>, 2)'
      BY <1>1, <2>1, RootNode DEF Grown
    <2>8. j' \in 1..(Len(GroupVersions) + 1)
      BY <1>1, <2>1
    <2> QED BY <1>1, <2>1, <2>3, <2>4, <2>5, <2>6, <2>7, <2>8 DEF BuildInv
  <1> QED BY <1>1, <1>2, <1>3, <1>4 DEF TreesInv, LoopInv, DoneInv, FilterInv

\* What is below a node is longer, and begins with it.
LEMMA Below ==
  ASSUME NEW m \in Node, NEW s \in Node
  PROVE  m \o s \in Node /\ Len(m \o s) = Len(m) + Len(s) /\ IsPrefix(m, m \o s)
  <1>1. /\ m \o s \in Node /\ Len(m \o s) = Len(m) + Len(s)
        /\ \A i \in 1..Len(m) : (m \o s)[i] = m[i]
        /\ Len(m) \in Nat /\ Len(s) \in Nat
    BY ConcatProperties DEF Node
  <1> DEFINE n == m \o s
  <1> HIDE DEF n
  <1>2. n \in Node /\ Len(m) \in 0..Len(n) /\ \A i \in 1..Len(m) : n[i] = m[i]
    BY <1>1 DEF n
  <1>3. Up(n, Len(m)) \in Node /\ Len(Up(n, Len(m))) = Len(m)
        /\ \A i \in 1..Len(m) : Up(n, Len(m))[i] = n[i]
    BY <1>2, UpFacts
  <1>4. m = Up(n, Len(m))
    BY <1>2, <1>3, SameNode
  <1>5. IsPrefix(m, n)
    BY <1>2, <1>4, PrefixIsUp
  <1> QED BY <1>1, <1>5 DEF n

\* Sequences of one and of two.
LEMMA ShortSequences ==
  ASSUME NEW S, NEW r \in S, NEW n \in S
  PROVE  /\ <<r>> \in Seq(S) /\ Len(<<r>>) = 1 /\ <<r>>[1] = r
         /\ <<r, n>> \in Seq(S) /\ Len(<<r, n>>) = 2
  OBVIOUS

\* Nodes of one name and of two.
LEMMA ShortNodes ==
  ASSUME NEW r \in STRING, NEW n \in STRING
  PROVE  /\ <<r>> \in Node /\ Len(<<r>>) = 1 /\ <<r>>[1] = r
         /\ <<r, n>> \in Node /\ Len(<<r, n>>) = 2
  BY ShortSequences, Zenon DEF Node

\* The path of a resource in a version.
LEMMA ResourceOf ==
  ASSUME NEW gv \in Node, Len(gv) = 2, NEW o \in Leaf, IsPrefix(gv, o)
  PROVE  /\ gv = SubSeq(o, 1, 2)
         /\ o[3] \in STRING
         /\ gv \o <<o[3]>> = SubSeq(o, 1, 3)
  <1>1. o \in Node /\ Len(o) = 5 /\ 3 \in 0..Len(o) /\ 2 \in 0..Len(o)
    BY LeafFacts, SMTT(30)
  <1>2. gv = Up(o, 2)
    BY <1>1, PrefixIsUp
  <1>3. o[3] \in STRING
    <2>1. 3 \in 1..Len(o) /\ o \in Seq(STRING)
      BY <1>1 DEF Node
    <2> QED BY <2>1, ElementOfSeq
  <1>4. /\ Up(o, 3) \in Node /\ Len(Up(o, 3)) = 3 /\ \A i \in 1..3 : Up(o, 3)[i] = o[i]
        /\ \A i \in 1..2 : Up(o, 2)[i] = o[i]
    BY <1>1, UpFacts
  <1> DEFINE r == <<o[3]>>
  <1>5. r \in Node /\ Len(r) = 1 /\ r[1] = o[3]
    BY <1>3, ShortNodes
  <1> HIDE DEF r
  <1>6. gv \o r \in Node /\ Len(gv \o r) = 3
    <2>1. gv \o r \in Node /\ Len(gv \o r) = Len(gv) + Len(r)
      BY <1>5, Below
    <2> QED BY <1>5, <2>1
  <1>7. /\ \A i \in 1..2 : (gv \o r)[i] = gv[i]
        /\ (gv \o r)[3] = r[1]
    BY <1>5, ConcatProperties, SMTT(30) DEF Node
  <1>8. ASSUME NEW i \in 1..3 PROVE (gv \o r)[i] = Up(o, 3)[i]
    <2>1. CASE i = 3
      BY <1>4, <1>5, <1>7, <2>1
    <2>2. CASE i \in 1..2
      <3>1. (gv \o r)[i] = gv[i]
        BY <1>7, <2>2
      <3>2. Up(o, 2)[i] = o[i] /\ Up(o, 3)[i] = o[i]
        BY <1>4, <2>2
      <3> QED BY <1>2, <3>1, <3>2
    <2>3. i = 3 \/ i \in 1..2
      OBVIOUS
    <2> QED BY <2>1, <2>2, <2>3
  <1>9. gv \o r = Up(o, 3)
    <2>1. \A i \in 1..Len(gv \o r) : (gv \o r)[i] = Up(o, 3)[i]
      BY <1>6, <1>8, Zenon
    <2>2. Up(o, 3) \in Node /\ gv \o r \in Node /\ Len(gv \o r) = Len(Up(o, 3))
      BY <1>4, <1>6
    <2> QED BY ONLY <2>1, <2>2, SameNode, Zenon
  <1> QED BY <1>2, <1>3, <1>9 DEF Up, r

\* What is built of a list is what is selected of it.
LEMMA SelectedOfList ==
  ASSUME WorldInv, MapInv, pc \in Building, NEW o \in world, NEW v \in Lists, o[3] \in found[v]
  PROVE  Selected(o, Base) <=>
           /\ o[3] \in Pass(v)
           /\ ClusterInclude \/ o[3] \notin ClusterResources \ DefaultClusters
           /\ o[4] \in Namespaces(o[3])
           /\ <<o[3], o[5]>> \notin DefaultObjects
  <1>1. /\ Base["NamespaceKind"] \in Filt
        /\ filters["NamespaceKind"] = PreHandle(Base["NamespaceKind"], DefaultSpaces)
        /\ filters["ClusterKind"] = Base["ClusterKind"]
    <2>1. /\ "NamespaceKind" \in FilterKinds
          /\ "ClusterKind" \in FilterKinds \ {"ResourceKind", "NamespaceKind"}
      BY KindsAre
    <2>2. Base["ClusterKind"] = asked["ClusterKind"] /\ Base["NamespaceKind"] \in Filt
      BY <2>1, BaseType
    <2> QED BY <2>1, <2>2 DEF MapInv
  <1>2. o[3] \in Pass(v)
          <=> Passes(Base["ResourceKind"], o[3]) /\ o[3] \notin DefaultResources
    BY DEF Pass
  <1>3. ClusterInclude <=> Base["ClusterKind"] # NoFilter /\ Base["ClusterKind"].include
    BY <1>1 DEF ClusterInclude
  <1>4. /\ o[4] \in Spaces \cup {ClusterLevel}
        /\ o[4] = ClusterLevel <=> o[3] \in ClusterResources
    BY DEF WorldInv
  <1>5. Admits(filters["NamespaceKind"], o[4])
          <=> Passes(Base["NamespaceKind"], o[4]) /\ o[4] \notin DefaultSpaces
    BY <1>1, PreHandleAdmits
  <1>6. CASE o[3] \in ClusterResources
    <2>1. o[4] \in Namespaces(o[3])
      BY <1>4, <1>6 DEF Namespaces
    <2> QED BY <1>2, <1>3, <1>6, <2>1 DEF Selected
  <1>7. CASE o[3] \notin ClusterResources
    <2>1. o[4] \in Namespaces(o[3]) <=> Admits(filters["NamespaceKind"], o[4])
      BY <1>4, <1>7 DEF Namespaces
    <2> QED BY <1>2, <1>5, <1>7, <2>1 DEF Selected
  <1> QED BY <1>6, <1>7

\* A version is built: what it adds is wanted, and what is wanted of its list
\* is added or its list failed.
LEMMA BuildVersionStep ==
  ASSUME TreesInv, BuildVersion, BusyInv', meant' = meant
  PROVE  TreesInv'
  <1> DEFINE v == vs[j]
             gv == GroupVersions[v]
             rs == {r \in apis[v] : \/ ClusterInclude
                                    \/ r \notin ClusterResources \ DefaultClusters}
             nodes == {gv} \cup UNION {{gv \o <<r, n>> : n \in Namespaces(r)} : r \in rs}
             objects(ok) == {o \in world : /\ IsPrefix(gv, o)
                                           /\ o[3] \in ok /\ o[4] \in Namespaces(o[3])
                                           /\ <<o[3], o[5]>> \notin DefaultObjects}
  <1>1. /\ pc = "build" /\ j <= Len(vs) /\ pc' = "namespaces"
        /\ UNCHANGED <<world, found, asked, filters, backups, apis, vs, size, j, loaded, todo>>
    BY DEF BuildVersion, lists
  <1>2. PICK failed \in SUBSET rs :
          /\ tree' = tree \cup WithParents(nodes \cup objects(rs \ failed))
          /\ gaps' = gaps \cup {gv \o <<r>> : r \in failed}
    BY DEF BuildVersion
  <1>3. WorldInv /\ MapInv /\ pc \in Building
    BY <1>1 DEF TreesInv, Building
  <1>4. /\ vs \in [Lists -> Lists] /\ apis \in [Lists -> SUBSET STRING] /\ j \in Lists
        /\ <<>> \in tree /\ Objects(tree) \subseteq Wanted /\ Covered(tree, gaps, j)
        /\ Grown(tree, 2, <<>>, 2) /\ \A x \in Lists : Filtered(x)
        /\ \A w \in Lists : Pass(w) = {} \/ \E x \in Lists : vs[x] = w
        /\ j \in 1..(Len(GroupVersions) + 1)
    <2>1. BuildInv
      BY DEF TreesInv
    <2>2. /\ vs \in [Lists -> Lists] /\ j \in 1..(Len(GroupVersions) + 1)
      BY <1>1, <2>1 DEF BuildInv, Building
    <2>3. Len(vs) = Len(GroupVersions)
      BY <2>2, ListsAre
    <2>4. j \in Lists
      BY <1>1, <2>2, <2>3, ListsAre
    <2> QED BY <1>1, <2>1, <2>4 DEF BuildInv, Building
  <1>5. /\ v \in Lists /\ gv \in Node /\ Len(gv) = 2 /\ apis[v] = Pass(v)
        /\ apis[v] \subseteq STRING
    BY <1>4, ListsAre DEF Filtered
  <1> HIDE DEF v, gv
  <1>6. ASSUME NEW n \in nodes
        PROVE  n \in Node /\ Len(n) <= 5 /\ IsPrefix(gv, n) /\ Len(n) # 5
    <2>0. 2 <= 5 /\ 2 # 5 /\ 4 <= 5 /\ 4 # 5
      OBVIOUS
    <2>1. CASE n = gv
      <3>1. gv \in Node /\ IsPrefix(gv, gv) /\ Len(gv) = 2
        BY <1>5, PrefixReflexive
      <3> QED BY <2>0, <2>1, <3>1, Zenon
    <2>2. CASE n # gv
      <3>1. PICK r \in rs : \E s \in Namespaces(r) : n = gv \o <<r, s>>
        BY <2>2
      <3>0. PICK s \in Namespaces(r) : n = gv \o <<r, s>>
        BY <3>1
      <3>2. r \in STRING /\ s \in STRING
        BY <1>5, WorldsAssumption DEF Namespaces
      <3>3. <<r, s>> \in Node /\ Len(<<r, s>>) = 2
        BY <3>2, ShortNodes
      <3>4. n \in Node /\ Len(n) = Len(gv) + Len(<<r, s>>) /\ IsPrefix(gv, n)
        BY <1>5, <3>0, <3>3, Below
      <3>5. Len(n) = 4
        BY <1>5, <3>3, <3>4
      <3> QED BY <2>0, <3>4, <3>5, Zenon
    <2> QED BY <2>1, <2>2, Zenon
  <1>7. \A o \in world : o \in Leaf
    BY <1>3 DEF WorldInv
  <1>8. ASSUME NEW o \in objects(rs \ failed)
        PROVE  o \in Node /\ Len(o) <= 5 /\ IsPrefix(gv, o) /\ Len(o) = 5
    BY <1>7, LeafFacts
  <1> DEFINE obj == objects(rs \ failed)
  <1>9. /\ Shaped(tree') /\ <<>> \in tree' /\ Objects(tree') = Objects(tree) \cup obj
        /\ Grown(tree', 2, gv, 5)
    <2> DEFINE N == nodes \cup obj
    <2>1. N \in SUBSET Node /\ \A n \in N : Len(n) <= 5 /\ IsPrefix(gv, n)
      BY <1>6, <1>8
    <2>2. Objects(N) = obj
      BY <1>6, <1>8 DEF Objects
    <2>3. tree' = tree \cup WithParents(N)
      BY <1>2
    <2> HIDE DEF N, obj
    <2>4. Shaped(tree)
      BY <1>3 DEF WorldInv
    <2> QED BY <1>4, <1>5, <2>1, <2>2, <2>3, <2>4, BuildGrows
  <1>10. obj \subseteq Wanted
    <2> SUFFICES ASSUME NEW o \in obj PROVE o \in Wanted
      OBVIOUS
    <2>1. /\ o \in world /\ o[3] \in rs /\ o[4] \in Namespaces(o[3])
          /\ <<o[3], o[5]>> \notin DefaultObjects
      OBVIOUS
    <2>2. /\ o[3] \in Pass(v)
          /\ (ClusterInclude \/ o[3] \notin ClusterResources \ DefaultClusters)
      BY <1>5, <2>1
    <2>3. o[3] \in found[v]
      BY <2>2 DEF Pass
    <2>4. Selected(o, Base)
      BY <1>3, <1>5, <2>1, <2>2, <2>3, SelectedOfList
    <2> QED BY <2>1, <2>4 DEF Wanted
  <1>11. ASSUME NEW o \in Wanted, gv = SubSeq(o, 1, 2), o[3] \in found[v]
         PROVE  o \in obj \/ SubSeq(o, 1, 3) \in gaps'
    <2>1. o \in world /\ o \in Leaf /\ Selected(o, Base)
      BY <1>7 DEF Wanted
    <2>2. /\ o[3] \in Pass(v)
          /\ ClusterInclude \/ o[3] \notin ClusterResources \ DefaultClusters
          /\ o[4] \in Namespaces(o[3])
          /\ <<o[3], o[5]>> \notin DefaultObjects
      BY <1>3, <1>5, <1>11, <2>1, SelectedOfList
    <2>3. o[3] \in rs
      BY <1>5, <2>2
    <2>4. IsPrefix(gv, o)
      <3>1. o \in Node /\ 2 \in 0..Len(o)
        BY <2>1, LeafFacts
      <3> QED BY <1>5, <1>11, <3>1, PrefixIsUp DEF Up
    <2>5. CASE o[3] \in failed
      <3>1. gv \o <<o[3]>> = SubSeq(o, 1, 3)
        BY <1>5, <2>1, <2>4, ResourceOf
      <3> QED BY <1>2, <2>5, <3>1
    <2>6. CASE o[3] \notin failed
      BY <2>1, <2>2, <2>3, <2>4, <2>6
    <2> QED BY <2>5, <2>6
  <1> HIDE DEF obj, rs, nodes
  <1>12. /\ Base' = Base /\ Wanted' = Wanted /\ Version' = gv
         /\ \A w : Pass(w)' = Pass(w)
    BY <1>1 DEF Base, Spent, Wanted, Version, Pass, v, gv
  <1>13. Covered(tree', gaps', j + 1)
    <2> SUFFICES ASSUME NEW o \in Wanted, NEW w \in Lists, NEW x \in Lists,
                        x < j + 1, vs[x] = w, GroupVersions[w] = SubSeq(o, 1, 2), o[3] \in found[w]
                 PROVE  o \in tree' \/ SubSeq(o, 1, 3) \in gaps'
      BY <1>1, <1>12 DEF Covered
    <2>1. CASE x < j
      <3>1. o \in tree \/ SubSeq(o, 1, 3) \in gaps
        BY <1>4, <2>1 DEF Covered
      <3> QED BY <1>2, <3>1
    <2>2. CASE x = j
      <3>1. o \in obj \/ SubSeq(o, 1, 3) \in gaps'
        BY <1>11, <2>2 DEF v, gv
      <3>2. obj \subseteq Objects(tree') /\ Objects(tree') \subseteq tree'
        BY <1>9 DEF Objects
      <3> QED BY <3>1, <3>2
    <2>3. x < j \/ x = j
      BY <1>4, ListsAre
    <2> QED BY <2>1, <2>2, <2>3
  <1>14. WorldInv'
    BY <1>1, <1>3, <1>9 DEF WorldInv
  <1>15. MapInv'
    BY <1>1, <1>3, <1>12 DEF MapInv, Building
  <1>16. BuildInv'
    <2>1. \A x \in Lists : Filtered(x)'
      <3>1. ASSUME NEW x \in Lists PROVE Filtered(x) => Filtered(x)'
        BY <1>1 DEF Filtered, Pass, Base, Spent
      <3> QED BY <1>4, <3>1
    <2>2. \A w \in Lists : Pass(w)' = {} \/ \E x \in Lists : vs'[x] = w
      BY <1>1, <1>4, <1>12
    <2>3. Objects(tree)' \subseteq Wanted'
      BY <1>4, <1>9, <1>10, <1>12 DEF Objects
    <2>4. Grown(tree, 2, Version, 5)'
      BY <1>9, <1>12 DEF Grown, Alive, Objects
    <2>5. Covered(tree, gaps, j + 1)'
      BY <1>1, <1>12, <1>13 DEF Covered
    <2> QED BY <1>1, <1>4, <1>9, <2>1, <2>2, <2>3, <2>4, <2>5 DEF BuildInv
  <1> QED BY <1>1, <1>14, <1>15, <1>16 DEF TreesInv, LoopInv, DoneInv, FilterInv

\* Then its namespaces, its resources and the version itself are pruned.
LEMMA PruneVersionStep ==
  ASSUME TreesInv, BuildPrune, BusyInv', meant' = meant
  PROVE  TreesInv'
  <1> DEFINE gv == Version
  <1>1. PICK level \in {2, 3, 4} :
          /\ pc = IF level = 4 THEN "namespaces" ELSE IF level = 3 THEN "resources" ELSE "versions"
          /\ pc' = IF level = 4 THEN "resources" ELSE IF level = 3 THEN "versions" ELSE "build"
          /\ tree' = Prune(tree, gv, level)
          /\ j' = IF level = 2 THEN j + 1 ELSE j
          /\ UNCHANGED <<world, found, asked, filters, backups, apis, vs, size, gaps>>
    <2>1. CASE PruneVersion("namespaces", 4, "resources")
      BY <2>1 DEF PruneVersion, Version
    <2>2. CASE PruneVersion("resources", 3, "versions")
      BY <2>2 DEF PruneVersion, Version
    <2>3. CASE PruneVersion("versions", 2, "build")
      BY <2>3 DEF PruneVersion, Version
    <2> QED BY <2>1, <2>2, <2>3 DEF BuildPrune
  <1>2. WorldInv /\ MapInv /\ pc \in Building \ {"filtrate", "build"}
        /\ pc' \in Building \ {"filtrate", "namespaces"}
    BY <1>1 DEF TreesInv, Building
  <1>3. /\ vs \in [Lists -> Lists] /\ apis \in [Lists -> SUBSET STRING] /\ j \in Lists
        /\ \A x \in Lists : Filtered(x)
        /\ \A w \in Lists : Pass(w) = {} \/ \E x \in Lists : vs[x] = w
        /\ <<>> \in tree /\ Objects(tree) \subseteq Wanted /\ Covered(tree, gaps, j + 1)
        /\ Grown(tree, 2, gv, level + 1)
    <2>1. BuildInv
      BY DEF TreesInv
    <2>2. Grown(tree, 2, gv, level + 1)
      <3>1. CASE level = 4
        <4>1. Grown(tree, 2, gv, 5)
          BY <1>1, <2>1, <3>1 DEF BuildInv, Building
        <4> QED BY <3>1, <4>1
      <3>2. CASE level = 3
        <4>1. Grown(tree, 2, gv, 4)
          BY <1>1, <2>1, <3>2 DEF BuildInv, Building
        <4> QED BY <3>2, <4>1
      <3>3. CASE level = 2
        <4>1. Grown(tree, 2, gv, 3)
          BY <1>1, <2>1, <3>3 DEF BuildInv, Building
        <4> QED BY <3>3, <4>1
      <3> QED BY <3>1, <3>2, <3>3
    <2> QED BY <1>2, <2>1, <2>2 DEF BuildInv
  <1>4. gv \in Node /\ Len(gv) = 2
    BY <1>3, ListsAre DEF Version
  <1> HIDE DEF gv
  <1>5. /\ Shaped(tree') /\ <<>> \in tree' /\ Objects(tree') = Objects(tree)
        /\ Grown(tree', 2, gv, level)
    <2>1. Shaped(tree) /\ level \in 1..4 /\ 2 \in Nat
      BY <1>2 DEF WorldInv
    <2> QED BY <1>1, <1>3, <1>4, <2>1, PruneKeeps
  <1>6. /\ Base' = Base /\ Wanted' = Wanted
        /\ \A w : Pass(w)' = Pass(w)
        /\ level # 2 => Version' = gv
    BY <1>1 DEF Base, Spent, Wanted, Version, Pass, gv
  <1>7. Covered(tree', gaps', j + 1)
    <2> SUFFICES ASSUME NEW o \in Wanted, NEW w \in Lists, NEW x \in Lists,
                        x < j + 1, vs[x] = w, GroupVersions[w] = SubSeq(o, 1, 2), o[3] \in found[w]
                 PROVE  o \in tree' \/ SubSeq(o, 1, 3) \in gaps'
      BY <1>1, <1>6 DEF Covered
    <2>1. o \in tree \/ SubSeq(o, 1, 3) \in gaps
      BY <1>3 DEF Covered
    <2>2. Len(o) = 5
      BY <1>2, LeafFacts DEF WorldInv, Wanted
    <2> QED BY <1>1, <1>5, <2>1, <2>2 DEF Objects
  <1>8. WorldInv'
    BY <1>1, <1>2, <1>5 DEF WorldInv
  <1>9. MapInv'
    BY <1>1, <1>2, <1>6 DEF MapInv, Building
  <1>10. BuildInv'
    <2>1. \A x \in Lists : Filtered(x)'
      <3>1. ASSUME NEW x \in Lists PROVE Filtered(x) => Filtered(x)'
        BY <1>1 DEF Filtered, Pass, Base, Spent
      <3> QED BY <1>3, <3>1
    <2>2. \A w \in Lists : Pass(w)' = {} \/ \E x \in Lists : vs'[x] = w
      BY <1>1, <1>3, <1>6
    <2>3. Objects(tree)' \subseteq Wanted'
      BY <1>3, <1>5, <1>6 DEF Objects
    <2>4. j' \in 1..(Len(GroupVersions) + 1) /\ (pc' # "build" => j' \in Lists)
      BY <1>1, <1>3, ListsAre
    <2>5. Covered(tree, gaps, IF pc = "build" THEN j ELSE j + 1)'
      <3>1. (IF pc' = "build" THEN j' ELSE j' + 1) = j + 1
        BY <1>1, <1>3, ListsAre
      <3> QED BY <1>1, <1>6, <1>7, <3>1 DEF Covered
    <2>6. CASE level = 4
      <3>1. Grown(tree, 2, Version, 4)'
        BY <1>5, <1>6, <2>6 DEF Grown, Alive, Objects
      <3>2. pc' = "resources"
        BY <1>1, <2>6
      <3> QED BY <1>1, <1>3, <1>5, <2>1, <2>2, <2>3, <2>4, <2>5, <3>1, <3>2 DEF BuildInv
    <2>7. CASE level = 3
      <3>1. Grown(tree, 2, Version, 3)'
        BY <1>5, <1>6, <2>7 DEF Grown, Alive, Objects
      <3>2. pc' = "versions"
        BY <1>1, <2>7
      <3> QED BY <1>1, <1>3, <1>5, <2>1, <2>2, <2>3, <2>4, <2>5, <3>1, <3>2 DEF BuildInv
    <2>8. CASE level = 2
      <3>1. Grown(tree, 2, <<>>, 2)'
        BY <1>5, <2>8 DEF Grown, Alive, Objects
      <3>2. pc' = "build"
        BY <1>1, <2>8
      <3> QED BY <1>1, <1>3, <1>5, <2>1, <2>2, <2>3, <2>4, <2>5, <3>1, <3>2 DEF BuildInv
    <2> QED BY <2>6, <2>7, <2>8
  <1> QED BY <1>1, <1>2, <1>8, <1>9, <1>10
        DEF TreesInv, LoopInv, DoneInv, FilterInv, Building

\* When all versions are built the groups are pruned, and the tree is exact.
LEMMA BuildDoneStep ==
  ASSUME TreesInv, BuildDone, BusyInv', meant' = meant
  PROVE  TreesInv'
  <1>1. /\ pc = "build" /\ j > Len(vs) /\ pc' = "built"
        /\ tree' = Prune(tree, <<>>, 1)
        /\ filters' = [filters EXCEPT !["NamespaceKind"] = NoFilter]
        /\ UNCHANGED <<world, found, asked, backups, apis, vs, gaps, loaded, todo>>
    BY DEF BuildDone, lists
  <1>2. WorldInv /\ MapInv /\ BuildInv
    BY DEF TreesInv
  <1>3. /\ vs \in [Lists -> Lists] /\ j \in 1..(Len(GroupVersions) + 1)
        /\ \A x \in Lists : Filtered(x)
        /\ \A w \in Lists : Pass(w) = {} \/ \E x \in Lists : vs[x] = w
        /\ <<>> \in tree /\ Objects(tree) \subseteq Wanted /\ Covered(tree, gaps, j)
        /\ Grown(tree, 2, <<>>, 2)
    BY <1>1, <1>2 DEF BuildInv, Building
  <1>4. \A x \in Lists : x < j
    <2>1. Len(vs) = Len(GroupVersions)
      BY <1>3, ListsAre
    <2> QED BY <1>1, <1>3, <2>1, ListsAre
  <1>5. /\ Shaped(tree') /\ <<>> \in tree' /\ Objects(tree') = Objects(tree)
        /\ Grown(tree', 1, <<>>, 1)
    <2>1. Grown(tree, 1, <<>>, 2)
      <3>1. ASSUME NEW n \in tree, Len(n) >= 1, IsPrefix(<<>>, n) => Len(n) >= 2
            PROVE  Alive(tree, n)
        <4>1. IsPrefix(<<>>, n)
          BY <1>2, RootNode DEF WorldInv, Shaped
        <4> QED BY <1>3, <3>1, <4>1 DEF Grown
      <3> QED BY <3>1 DEF Grown
    <2>2. Shaped(tree) /\ <<>> \in Node /\ 1 \in Nat /\ 1 \in 1..4 /\ 1 + 1 = 2
      BY <1>2, RootNode DEF WorldInv
    <2>3. Grown(tree, 1, <<>>, 1 + 1)
      BY <2>1, <2>2
    <2> QED BY <1>1, <1>3, <2>2, <2>3, PruneKeeps
  <1>6. tree' = WithParents(Objects(tree'))
    <2>1. ASSUME NEW n \in tree', n # <<>>
          PROVE  \E o \in Objects(tree') : IsPrefix(n, o)
      <3>1. n \in Node /\ Len(n) \in Nat
        BY <1>5, PrefixReflexive DEF Shaped
      <3>2. Len(n) # 0
        BY <2>1, <3>1, RootNode
      <3>3. Len(n) >= 1
        BY <3>1, <3>2
      <3> QED BY <1>5, <3>3 DEF Grown, Alive
    <2> QED BY <1>5, <2>1, ParentsOfObjects
  <1>7. Base' = Base /\ Wanted' = Wanted
    BY <1>1 DEF Base, Spent, Wanted
  <1>8. BackupExact'
    <2>1. Objects(tree') \subseteq Wanted
      BY <1>3, <1>5
    <2>2. ASSUME NEW o \in Wanted PROVE o \in Objects(tree') \/ SubSeq(o, 1, 3) \in gaps
      <3>1. o \in world /\ Selected(o, Base) /\ Len(o) = 5
        BY <1>2, LeafFacts DEF Wanted, WorldInv
      <3>2. PICK w \in Lists : GroupVersions[w] = SubSeq(o, 1, 2) /\ o[3] \in found[w]
        BY <1>2, <3>1 DEF WorldInv
      <3>3. o[3] \in Pass(w)
        BY <3>1, <3>2 DEF Selected, Pass
      <3>4. PICK x \in Lists : vs[x] = w
        BY <1>3, <3>3
      <3>5. o \in tree \/ SubSeq(o, 1, 3) \in gaps
        BY <1>3, <1>4, <3>2, <3>4 DEF Covered
      <3> QED BY <1>5, <3>1, <3>5 DEF Objects
    <2>3. Wanted' = {o \in world' : Selected(o, IF backups' = 1 THEN asked' ELSE Spent')}
      BY DEF Wanted, Base
    <2> QED BY <1>1, <1>7, <2>1, <2>2, <2>3 DEF BackupExact, Objects
  <1>9. WorldInv'
    BY <1>1, <1>2, <1>5 DEF WorldInv
  <1>10. filters' = Spent
    <2>1. /\ "ResourceKind" \in FilterKinds /\ "NamespaceKind" \in FilterKinds
          /\ filters \in [FilterKinds -> Filt] /\ filters["ResourceKind"] = NoFilter
          /\ \A kind \in FilterKinds \ {"ResourceKind", "NamespaceKind"} :
               filters[kind] = asked[kind]
      BY <1>1, <1>2, KindsAre DEF MapInv, Building
    <2>2. asked \in [FilterKinds -> Filt] /\ NoFilter \in Filt
      BY <1>2, NoFilterType DEF WorldInv
    <2>3. \A kind \in FilterKinds : filters'[kind] = Spent[kind]
      BY <1>1, <2>1, <2>2 DEF Spent
    <2>4. filters' \in [FilterKinds -> Filt] /\ Spent \in [FilterKinds -> Filt]
      BY <1>1, <2>1, <2>2 DEF Spent
    <2> QED BY <2>3, <2>4
  <1>11. MapInv'
    BY <1>1, <1>2, <1>10 DEF MapInv, Building, Spent
  <1> QED BY <1>1, <1>6, <1>8, <1>9, <1>11
        DEF TreesInv, LoopInv, BuildInv, DoneInv, FilterInv, Building
-----------------------------------------------------------------------------
(* The restore.                                                            *)

\* A restore begins with the tree of what it has unpacked, and no filter has
\* been applied to it.
LEMMA RestoreFromStep ==
  ASSUME TreesInv, NEW L \in SUBSET Leaf, NEW S, NEW H, L = S \cup H,
         RestoreFrom(S, H), meant' = meant
  PROVE  TreesInv'
  <1>1. /\ pc \in {"idle", "built", "compared"} /\ pc' = "filter"
        /\ loaded' = L /\ tree' = WithParents(L) /\ todo' = Present(filters)
        /\ UNCHANGED <<world, found, asked, filters, backups>>
    BY DEF RestoreFrom, Begin
  <1>2. WorldInv /\ MapInv
    BY DEF TreesInv
  <1>3. WorldInv'
    <2>1. L \in SUBSET Node /\ \A o \in L : Len(o) <= 5
      BY LeafFacts
    <2>2. Shaped(tree')
      BY <1>1, <2>1, ParentsShaped
    <2> QED BY <1>1, <1>2, <2>2 DEF WorldInv
  <1>4. MapInv'
    BY <1>1, <1>2 DEF MapInv, Building, Spent
  <1>5. FilterInv'
    <2>1. Present(filters)' = Present(filters)
      BY <1>1 DEF Present
    <2>2. Present(filters)' \ todo' = {}
      BY <1>1, <2>1
    <2>3. Left({})' = L
      BY <1>1 DEF Left
    <2> QED BY <1>1, <2>1, <2>2, <2>3 DEF FilterInv
  <1> QED BY <1>1, <1>3, <1>4, <1>5
        DEF TreesInv, BusyInv, LoopInv, BuildInv, DoneInv, Building

\* One more filter: what is left is what it leaves, too.
LEMMA DeepFiltrateStep ==
  ASSUME TreesInv, NEW kind, DeepFiltrateResources(kind), meant' = meant
  PROVE  TreesInv'
  <1> DEFINE judged == {n \in tree : GetKind(n) = kind}
             kept == {n \in judged : Admits(filters[kind], GetName(n))}
             left == Trim(tree, judged, kept)
             applied == Present(filters) \ todo
             L == Left(applied)
             M == Left(applied \cup {kind})
  <1>1. /\ pc = "filter" /\ kind \in todo /\ todo' = todo \ {kind}
        /\ pc' = IF left = {} THEN "panic" ELSE "filter"
        /\ tree' = left
        /\ UNCHANGED <<world, found, asked, filters, backups, loaded>>
    BY DEF DeepFiltrateResources
  <1>2. /\ WorldInv /\ MapInv
        /\ loaded \subseteq Leaf /\ todo \subseteq Present(filters)
        /\ tree = WithParents(L)
        /\ L # {} \/ applied \subseteq {"ClusterRoot"}
    BY <1>1 DEF TreesInv, FilterInv
  <1>3. L \in SUBSET Leaf /\ M = {o \in L : Leaves(kind, o)}
    BY <1>2 DEF Left
  <1>4. Shaped(tree) /\ <<>> \in tree
    <2>1. L \in SUBSET Node /\ \A o \in L : Len(o) <= 5
      BY <1>3, LeafFacts
    <2> QED BY <1>2, <2>1, ParentsShaped
  <1> HIDE DEF L, M
  <1>5. kind \in FilterKinds
    BY <1>1, <1>2 DEF Present
  <1>6. \/ M # {} /\ left = WithParents(M)
        \/ M = {} /\ left = {}
        \/ M = {} /\ L = {} /\ kind = "ClusterRoot" /\ left = {<<>>}
    <2>1. CASE kind = "ClusterKind"
      <3>1. \A i \in 1..6 : NodeKinds[i] # kind
        BY <2>1, KindsAre
      <3>2. judged = {}
        <4>1. ASSUME NEW n \in tree PROVE Len(n) + 1 \in 1..6
          <5>1. n \in Node /\ Len(n) <= 5
            BY <1>4 DEF Shaped
          <5>2. Len(n) \in Nat
            BY <5>1, PrefixReflexive
          <5> QED BY <5>1, <5>2
        <4> QED BY <3>1, <4>1 DEF GetKind
      <3>3. left = {}
        <4>1. left = Trimmed(tree, judged, kept, <<>>)
          BY <1>4, TrimIs
        <4> QED BY <3>2, <4>1 DEF Trimmed, Deciding
      <3>4. M = {}
        BY <1>3, <3>1 DEF Leaves
      <3> QED BY <3>3, <3>4
    <2>2. ASSUME NEW level \in 0..5, kind = NodeKinds[level + 1]
          PROVE  \/ M # {} /\ left = WithParents(M)
                 \/ M = {} /\ left = {}
                 \/ M = {} /\ L = {} /\ kind = "ClusterRoot" /\ left = {<<>>}
      <3>1. judged = {n \in tree : Len(n) = level}
        <4>1. ASSUME NEW n \in tree PROVE GetKind(n) = kind <=> Len(n) = level
          <5>1. n \in Node /\ Len(n) <= 5
            BY <1>4 DEF Shaped
          <5>2. Len(n) \in Nat
            BY <5>1, PrefixReflexive
          <5>3. Len(n) + 1 \in 1..6 /\ level + 1 \in 1..6
            BY <5>1, <5>2
          <5>4. NodeKinds[Len(n) + 1] = NodeKinds[level + 1] <=> Len(n) + 1 = level + 1
            BY <5>3, KindsAre
          <5>5. Len(n) + 1 = level + 1 <=> Len(n) = level
            BY <5>2
          <5> QED BY <2>2, <5>4, <5>5 DEF GetKind
        <4> QED BY <4>1
      <3>2. ASSUME NEW o \in L PROVE Leaves(kind, o) <=> Up(o, level) \in kept
        <4>1. o \in Node /\ level \in 0..Len(o) /\ Len(o) = 5
          BY <1>3, LeafFacts
        <4>2. /\ Up(o, level) \in Node /\ Len(Up(o, level)) = level
              /\ IsPrefix(Up(o, level), o)
          BY <4>1, UpIsPrefix
        <4>3. Up(o, level) \in tree
          <5>1. L \in SUBSET Node
            BY <1>3 DEF Leaf
          <5>2. tree = ListParents(L)
            BY <1>2, <5>1, ParentsAre
          <5> QED BY <4>2, <5>2 DEF ListParents
        <4>4. Up(o, level) \in kept <=> Admits(filters[kind], GetName(Up(o, level)))
          BY <3>1, <4>2, <4>3
        <4>5. level + 1 \in 1..6 /\ level + 1 - 1 = level
          OBVIOUS
        <4>6. \A l \in 1..6 : kind = NodeKinds[l] <=> l = level + 1
          BY <2>2, <4>5, KindsAre
        <4>7. Leaves(kind, o) <=> Admits(filters[kind], GetName(SubSeq(o, 1, level)))
          BY <4>5, <4>6 DEF Leaves
        <4> QED BY <4>4, <4>7 DEF Up
      <3>3. M = {o \in L : Up(o, level) \in kept}
        BY <1>3, <3>2
      <3> HIDE DEF kept
      <3>4. /\ M # {} => left = WithParents(M)
            /\ M = {} => left = {} \/ (L = {} /\ level = 0 /\ left = {<<>>})
        <4>1. L \in SUBSET Leaf /\ tree = WithParents(L)
          BY <1>2, <1>3
        <4>2. judged \in SUBSET tree /\ \A n \in tree : n \in judged <=> Len(n) = level
          BY <3>1
        <4>3. M \in SUBSET L /\ \A o \in L : o \in M <=> Up(o, level) \in kept
          BY <3>3
        <4> HIDE DEF judged
        <4>4. Filters(L, level, kept, tree, judged, M)
          BY <4>1, <4>2, <4>3, FilterTrims
        <4> QED BY <4>4 DEF Filters
      <3>5. level = 0 => kind = "ClusterRoot"
        BY <2>2 DEF NodeKinds
      <3> QED BY <3>4, <3>5
    <2>3. kind # "ClusterKind" => \E level \in 0..5 : kind = NodeKinds[level + 1]
      <3>1. ASSUME kind # "ClusterKind"
            PROVE  \E level \in 0..5 : kind = NodeKinds[level + 1]
        <4>1. PICK i \in 1..6 : kind = NodeKinds[i]
          BY <1>5, <3>1, KindsAre
        <4>2. i - 1 \in 0..5 /\ (i - 1) + 1 = i
          OBVIOUS
        <4> QED BY <4>1, <4>2
      <3> QED BY <3>1
    <2> QED BY <2>1, <2>2, <2>3
  <1>7. /\ Present(filters)' = Present(filters)
        /\ \A ks : Left(ks)' = Left(ks)
    BY <1>1 DEF Present, Left, Leaves
  <1>8. Present(filters) \ todo' = applied \cup {kind}
    BY <1>1, <1>2
  <1>9. WithParents({}) = {<<>>}
    BY DEF WithParents
  <1>10. M \in SUBSET Leaf
    BY <1>3
  <1>11. WithParents(M) # {}
    BY DEF WithParents
  <1>12. FilterInv'
    <2>1. CASE left = {}
      <3>1. M = {}
        BY <1>6, <1>11, <2>1
      <3>2. Left(Present(filters)) \subseteq M
        BY <1>1, <1>2 DEF Left, M
      <3>3. pc' = "panic"
        BY <1>1, <2>1
      <3> QED BY <1>7, <3>1, <3>2, <3>3 DEF FilterInv
    <2>2. CASE left # {}
      <3>1. pc' = "filter" /\ left = WithParents(M)
        BY <1>1, <1>6, <1>9, <2>2
      <3>2. M # {} \/ applied \cup {kind} \subseteq {"ClusterRoot"}
        BY <1>2, <1>6, <2>2
      <3>3. loaded' \subseteq Leaf /\ todo' \subseteq Present(filters)
        BY <1>1, <1>2
      <3>4. (Present(filters) \ todo)' = applied \cup {kind}
        BY <1>7, <1>8
      <3>5. Left(Present(filters) \ todo)' = M
        <4>1. \A ks : ks = applied \cup {kind} => Left(ks)' = M
          BY <1>7 DEF M
        <4> HIDE DEF applied, left
        <4> QED BY <3>4, <4>1
      <3> HIDE DEF applied, left
      <3> QED BY <1>1, <1>7, <3>1, <3>2, <3>3, <3>4, <3>5 DEF FilterInv
    <2> QED BY <2>1, <2>2
  <1>13. Shaped(tree')
    <2>1. CASE left = {}
      BY <1>1, <2>1 DEF Shaped
    <2>2. CASE left # {}
      <3>1. M \in SUBSET Node /\ \A o \in M : Len(o) <= 5
        BY <1>10, LeafFacts
      <3> QED BY <1>1, <1>6, <1>9, <2>2, <3>1, ParentsShaped
    <2> QED BY <2>1, <2>2
  <1>14. WorldInv'
    BY <1>1, <1>2, <1>13 DEF WorldInv
  <1>15. MapInv'
    BY <1>1, <1>2 DEF MapInv, Building, Spent
  <1> QED BY <1>1, <1>12, <1>14, <1>15
        DEF TreesInv, BusyInv, LoopInv, BuildInv, DoneInv, Building

\* The comparison, if it comes to its end.
LEMMA ComparedStep ==
  ASSUME TreesInv, Compare, meant' = meant, pc' = "compared"
  PROVE  TreesInv'
  <1>1. /\ pc = "filter" /\ todo = {} /\ pc' = "compared"
        /\ UNCHANGED <<world, found, asked, filters, backups>>
    BY DEF Compare
  <1>2. PICK current \in Snapshots, passed \in SUBSET tree :
          /\ \A n \in passed : Len(n) = 4 /\ n \notin WithParents(current)
          /\ tree' = {<<>>} \cup Trim(tree, passed \cup Objects(tree),
                                            passed \cup (Objects(tree) \ current))
    BY DEF Compare
  <1> DEFINE L == Left(Present(filters) \ todo)
             M == L \ current
  <1>3. WorldInv /\ MapInv /\ L \in SUBSET Leaf /\ tree = WithParents(L)
    BY <1>1 DEF TreesInv, FilterInv, Left
  <1>4. current \in SUBSET Leaf
    <2>1. \A u \in Worlds : u \subseteq Leaf
      BY WorldsAssumption DEF Leaf, Node
    <2> QED BY <2>1 DEF Snapshots
  <1> HIDE DEF L
  <1>5. Objects(tree) = L
    BY <1>3, ObjectsOfParents
  <1>6. tree' = WithParents(M)
    <2>1. \A n \in passed : n \in WithParents(L) /\ Len(n) = 4 /\ n \notin WithParents(current)
      BY <1>2, <1>3
    <2>2. {<<>>} \cup Trim(WithParents(L), passed \cup L, passed \cup (L \ current)) = WithParents(M)
      BY <1>3, <1>4, <2>1, CompareTrims
    <2> QED BY <1>2, <1>3, <1>5, <2>2
  <1>7. M \in SUBSET Leaf
    BY <1>3
  <1> HIDE DEF M
  <1>8. tree' = WithParents(Objects(tree')) /\ Shaped(tree')
    <2>1. Objects(tree') = M
      BY <1>6, <1>7, ObjectsOfParents
    <2>2. M \in SUBSET Node /\ \A o \in M : Len(o) <= 5
      BY <1>7, LeafFacts
    <2>3. Shaped(tree')
      BY <1>6, <2>2, ParentsShaped
    <2> QED BY <1>6, <2>1, <2>3
  <1>9. WorldInv'
    BY <1>1, <1>3, <1>8 DEF WorldInv
  <1>10. MapInv'
    BY <1>1, <1>3 DEF MapInv, Building, Spent
  <1>11. DoneInv'
    BY <1>1, <1>8 DEF DoneInv, Objects
  <1> QED BY <1>1, <1>9, <1>10, <1>11
        DEF TreesInv, BusyInv, LoopInv, BuildInv, FilterInv, Building

\* The comparison, also when it ends the process.
LEMMA CompareStep ==
  ASSUME TreesInv, Compare, meant' = meant
  PROVE  TreesInv'
  <1>1. CASE pc' = "compared"
    BY <1>1, ComparedStep
  <1>2. CASE pc' # "compared"
    <2>1. /\ pc = "filter" /\ pc' = "died"
          /\ UNCHANGED <<world, found, asked, filters, backups, tree>>
      BY <1>2 DEF Compare
    <2>2. WorldInv'
      BY <2>1 DEF TreesInv, WorldInv, Shaped
    <2>3. MapInv'
      BY <2>1 DEF TreesInv, MapInv, Building, Spent
    <2> QED BY <2>1, <2>2, <2>3
          DEF TreesInv, BusyInv, LoopInv, BuildInv, DoneInv, FilterInv, Building
  <1> QED BY <1>1, <1>2
-----------------------------------------------------------------------------
(* Every step.                                                             *)

\* Steps that have nothing to do with building, and do not begin to.
LEMMA IdleStep ==
  ASSUME TreesInv, pc \notin Building, UNCHANGED vars, meant' = meant
  PROVE  TreesInv'
  <1>1. BusyInv'
    BY DEF BusyInv, vars, Building
  <1>2. \A s \in Slots : meant'[s] \subseteq Leaf
    BY DEF TreesInv, WorldInv
  <1> QED BY <1>1, <1>2, StillStep

\* The building goes on at its place until the tree is built.
LEMMA BuildKeeps ==
  ASSUME TreesInv, Build
  PROVE  TreesInv'
  <1>1. /\ FiltrateResource \/ FiltrateResourceDone \/ BuildVersion \/ BuildPrune \/ BuildDone
        /\ pc' # "built" => agenda' = agenda
        /\ At("build", "tree") /\ meant' = meant
    BY DEF Build
  <1>2. BusyInv'
    BY <1>1 DEF BusyInv, Building, At
  <1> QED BY <1>1, <1>2, FiltrateResourceStep, FiltrateResourceDoneStep, BuildVersionStep,
       PruneVersionStep, BuildDoneStep

\* Discovery is followed by the building.
LEMMA DiscoverKeeps ==
  ASSUME TreesInv, FilesInv, Discover
  PROVE  TreesInv'
  <1>1. PICK p \in Places : Here(p)
    BY DEF FilesInv
  <1>2. p = 22 /\ 21 \in Places /\ agenda' = Rest(21)
    BY <1>1, Going, Where DEF Here, Discover, Places, After
  <1>3. Rest(21) # <<>> /\ Head(Rest(21)) = Entry(21)
    <2>1. 21 # 0
      OBVIOUS
    <2> QED BY <1>2, <2>1, Heads DEF Entry
  <1>4. Entry(21) = <<"build", "tree">>
    BY Entries
  <1>5. BusyInv'
    BY <1>2, <1>3, <1>4 DEF BusyInv, At
  <1> QED BY <1>5, BackupStep DEF Discover

\* What is unpacked is some of what the archive was meant to hold.
LEMMA UnpackKeeps ==
  ASSUME TreesInv, FilesInv', Unpack
  PROVE  TreesInv'
  <1>1. CASE Abandon
    <2>1. pc \notin Building /\ meant' = meant
      BY NotBuilding DEF TreesInv, Unpack
    <2> QED BY <1>1, <2>1, AbandonStep
  <1>2. CASE ~Abandon
    <2>1. PICK S, H : RestoreFrom(S, H)
      BY <1>2 DEF Unpack
    <2>2. loaded' = S \cup H /\ pc' = "filter" /\ meant' = meant
      BY <2>1 DEF RestoreFrom, Begin, Unpack
    <2>3. loaded' \subseteq meant'[slot'] /\ slot' \in Slots
      BY <2>2 DEF FilesInv, Here, Reading, Worked, Typed
    <2>4. S \cup H \in SUBSET Leaf
      <3>1. \A s \in Slots : meant'[s] \subseteq Leaf
        BY <2>2 DEF TreesInv, WorldInv
      <3> QED BY <2>2, <2>3, <3>1
    <2> QED BY <2>1, <2>2, <2>4, RestoreFromStep
  <1> QED BY <1>1, <1>2

\* What the store is meant to hold are the objects of a tree.
LEMMA CheckExistKeeps ==
  ASSUME TreesInv, FilesInv, CheckExist
  PROVE  TreesInv'
  <1>1. pc \notin Building /\ UNCHANGED vars
    BY NotBuilding DEF CheckExist, TreesInv
  <1>2. BusyInv'
    BY <1>1 DEF BusyInv, vars, Building
  <1>3. Objects(tree) \subseteq Leaf
    BY DEF TreesInv, WorldInv, Shaped, Objects, Leaf
  <1>4. meant' = meant \/ meant' = [meant EXCEPT ![slot] = Objects(tree)]
    BY DEF CheckExist
  <1>5. DOMAIN meant = Slots
    BY DEF FilesInv, Here, Typed
  <1>6. \A s \in Slots : meant'[s] \subseteq Leaf
    <2>1. \A s \in Slots : meant[s] \subseteq Leaf
      BY DEF TreesInv, WorldInv
    <2>2. \A s \in Slots : meant'[s] = meant[s] \/ meant'[s] = Objects(tree)
      BY <1>4, <1>5
    <2> QED BY <1>3, <2>1, <2>2
  <1> QED BY <1>1, <1>2, <1>6, StillStep

\* Every step of every action keeps the invariant.
LEMMA TreesInvNext ==
  ASSUME TreesInv, FilesInv, FilesInv', [NextFiles]_allVars
  PROVE  TreesInv'
  <1>0. BusyInv
    BY DEF TreesInv
  <1>1. CASE \E kind \in {"backup", "restore"}, name \in Names : BeginMission(kind, name)
    <2>1. agenda = <<>> /\ UNCHANGED vars /\ meant' = meant
      BY <1>1 DEF BeginMission
    <2>2. pc \notin Building
      BY <1>0, <2>1 DEF BusyInv, At
    <2> QED BY <2>1, <2>2, IdleStep
  <1>2. CASE OpenLog
    <2>1. pc \notin Building
      BY <1>0, <1>2, NotBuilding DEF OpenLog
    <2> QED BY <1>2, <2>1, IdleStep DEF OpenLog
  <1>3. CASE CallFails
    <2>1. pc \notin Building
      BY <1>0, <1>3, NotBuilding DEF CallFails
    <2> QED BY <1>3, <2>1, AbandonStep DEF CallFails
  <1>4. CASE Discover
    BY <1>4, DiscoverKeeps
  <1>5. CASE Build
    BY <1>5, BuildKeeps
  <1>6. CASE Find
    <2>1. pc \notin Building
      BY <1>0, <1>6, NotBuilding DEF Find
    <2> QED BY <1>6, <2>1, IdleStep DEF Find
  <1>7. CASE Fetch
    <2>1. pc \notin Building
      BY <1>0, <1>7, NotBuilding DEF Fetch
    <2> QED BY <1>7, <2>1, IdleStep DEF Fetch
  <1>8. CASE Unpack
    BY <1>8, UnpackKeeps
  <1>9. CASE Filter
    <2>1. pc \notin Building
      BY <1>0, <1>9, NotBuilding DEF Filter
    <2>2. CASE UNCHANGED vars
      BY <1>9, <2>1, <2>2, IdleStep DEF Filter
    <2>3. CASE \E kind \in FilterKinds : DeepFiltrateResources(kind)
      BY <1>9, <2>3, DeepFiltrateStep DEF Filter
    <2> QED BY <1>9, <2>2, <2>3 DEF Filter
  <1>10. CASE ApplyAndRename
    BY <1>10, CompareStep DEF ApplyAndRename
  <1>11. CASE CheckExist
    BY <1>11, CheckExistKeeps
  <1>12. CASE \E file \in Archived \cup {"log", "status"} :
                Write(file) \/ Pack(file) \/ Upload(file) \/ Ship(file)
    <2>1. PICK file \in Archived \cup {"log", "status"} :
            Write(file) \/ Pack(file) \/ Upload(file) \/ Ship(file)
      BY <1>12
    <2>2. PICK step \in {"write", "pack", "upload", "ship"}, arg \in {file, "tree"} : At(step, arg)
      BY <2>1 DEF Write, Pack, Upload, Ship
    <2>3. pc \notin Building
      BY <1>0, <2>2, NotBuilding
    <2>4. UNCHANGED vars /\ meant' = meant
      BY <2>1 DEF Write, Pack, Upload, Ship
    <2> QED BY <2>3, <2>4, IdleStep
  <1>13. CASE \E kind \in {"log", "core", "down"} : DeleteDir(kind)
    <2>1. PICK kind \in {"log", "core", "down"} : DeleteDir(kind)
      BY <1>13
    <2>2. pc \notin Building
      BY <1>0, <2>1, NotBuilding DEF DeleteDir
    <2> QED BY <2>1, <2>2, IdleStep DEF DeleteDir
  <1>14. CASE Restart
    BY <1>14, RestartKeeps
  <1>15. CASE Kill
    <2>1. agenda' = <<RestartStep>> /\ UNCHANGED vars /\ meant' = meant
      BY <1>15 DEF Kill
    <2>2. BusyInv'
      BY <2>1 DEF BusyInv, At, RestartStep
    <2>3. \A s \in Slots : meant'[s] \subseteq Leaf
      BY <2>1 DEF TreesInv, WorldInv
    <2> QED BY <2>1, <2>2, <2>3, StillStep
  <1>16. CASE UNCHANGED allVars
    <2>1. UNCHANGED vars /\ meant' = meant /\ agenda' = agenda
      BY <1>16 DEF allVars, files
    <2>2. BusyInv'
      BY <1>0, <2>1 DEF BusyInv, At, vars, Building
    <2>3. \A s \in Slots : meant'[s] \subseteq Leaf
      BY <2>1 DEF TreesInv, WorldInv
    <2> QED BY <2>1, <2>2, <2>3, StillStep
  <1> QED BY <1>1, <1>2, <1>3, <1>4, <1>5, <1>6, <1>7, <1>8, <1>9, <1>10, <1>11, <1>12, <1>13,
       <1>14, <1>15, <1>16 DEF NextFiles, Mission
-----------------------------------------------------------------------------
(* The theorems.                                                           *)

\* So it always holds.
LEMMA TreesAlways == SpecFiles => []TreesInv
  BY TreesInvInit, TreesInvNext, FilesAlways, PTL DEF SpecFiles

\* A finished tree has no node without an object: TreeOfObjects of Trees, for
\* every cluster, discovery and map of filters.
THEOREM TreesOfObjects == SpecFiles => []TreeOfObjects
  <1>1. TreesInv => TreeOfObjects
    BY DEF TreesInv, DoneInv, TreeOfObjects
  <1> QED BY <1>1, TreesAlways, PTL

\* The first backup has what its filters let through of all lists that did not
\* fail, and later ones what the map that is left lets through: BackupExact.
THEOREM TreesBackupExact == SpecFiles => []BackupExact
  <1>1. TreesInv => BackupExact
    BY DEF TreesInv, DoneInv, BackupExact
  <1> QED BY <1>1, TreesAlways, PTL

\* The filters of a restore leave what all of them let through, in whatever
\* order they come: FilterExact.
THEOREM TreesFilterExact == SpecFiles => []FilterExact
  <1>1. ASSUME TreesInv PROVE FilterExact
    <2>1. pc = "panic" => Left(Present(filters)) = {}
      BY <1>1 DEF TreesInv, FilterInv
    <2>2. ASSUME pc = "filter", todo = {}
          PROVE  /\ tree = WithParents(Left(Present(filters)))
                 /\ Left(Present(filters)) # {} \/ Present(filters) \subseteq {"ClusterRoot"}
      <3>1. Present(filters) \ todo = Present(filters)
        BY <2>2
      <3> QED BY <1>1, <2>2, <3>1 DEF TreesInv, FilterInv
    <2> QED BY <2>1, <2>2 DEF FilterExact, Left
  <1> QED BY <1>1, TreesAlways, PTL
==============================================================================
