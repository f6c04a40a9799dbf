-------------------------- MODULE HashTableProofs --------------------------
(***************************************************************************)
(* The table for every number of lists and every hash: the lists stay      *)
(* sorted, free of duplicates and of their size, and together they are a   *)
(* dictionary.                                                             *)
(***************************************************************************)
EXTENDS HashTable, TLAPS, FiniteSetTheorems, WellFoundedInduction

Lists == [nodes : Seq(Entry), size : Nat]

(* Sorted from any place to any later one. *)
Ascending(q) == \A i, j \in 1 .. Len(q) : i < j => q[i].key < q[j].key

(* A list that holds keys with hash h. *)
Good(l, h) ==
  /\ l \in Lists
  /\ l.size = Len(l.nodes)
  /\ \A j \in 1 .. Len(l.nodes) : hash_function(l.nodes[j].key) = h
  /\ Ascending(l.nodes)

Indexed(t) == t = [i \in Index |-> t[i]]

(* A table with a good list at every index. *)
AllGood(t) ==
  /\ Indexed(t)
  /\ \A i \in Index : Good(t[i], i)

(* The inductive invariant: every list is sorted, has its size and only keys
   of its own.  No key can then be in two lists, or twice in one. *)
TableInv ==
  /\ AllGood(lists)
  /\ running \in BOOLEAN
  /\ answer.call[1] \in {"create", "put", "get", "remove", "size", "get_keys",
                         "destroy"}
-----------------------------------------------------------------------------
(* A set of numbers that is not empty has a least one. *)
LEMMA LeastNatural ==
  ASSUME NEW S \in SUBSET Nat, S # {}
  PROVE  \E n \in S : \A m \in S : n <= m
<1>1. IsWellFoundedOn(OpToRel(<, Nat), Nat)
  BY NatLessThanWellFounded
<1>2. PICK n \in S : \A m \in S : ~ (<<m, n>> \in OpToRel(<, Nat))
  BY <1>1, WFMin
<1>3. \A m \in S : ~ (m < n)
  BY <1>2 DEF OpToRel
<1> QED
  BY <1>3

(* A set that has 0 and with each number the next has them all. *)
LEMMA UpTo ==
  ASSUME NEW m \in Nat, NEW P, 0 \in P,
         \A n \in 1 .. m : n - 1 \in P => n \in P
  PROVE  \A n \in 0 .. m : n \in P
<1> DEFINE rest == {n \in 0 .. m : n \notin P}
<1> SUFFICES ASSUME rest # {}
             PROVE  FALSE
  OBVIOUS
<1>1. PICK n \in rest : \A k \in rest : n <= k
  <2>1. rest \in SUBSET Nat
    OBVIOUS
  <2> HIDE DEF rest
  <2> QED
    BY <2>1, LeastNatural
<1>2. n \in 1 .. m /\ n - 1 \in 0 .. m
  BY <1>1
<1>3. n - 1 \in P
  BY <1>1, <1>2
<1> QED
  BY <1>1, <1>2, <1>3

(* A loop of m steps: it starts with base, and step[n] is its n-th step. *)
IsLoop(f, m, X, base, step) ==
  /\ f \in [0 .. m -> X]
  /\ f[0] = base
  /\ \A n \in 1 .. m : f[n] = step[n][f[n - 1]]

(* Every loop has a value after each of its steps.  It takes the place of the
   induction theorems of the library, which have operators as parameters:
   every recursive function of HashTable is shown to exist with it, and UpTo
   then shows what it computes. *)
LEMMA Recursion ==
  ASSUME NEW m \in Nat, NEW X, NEW base \in X, NEW step \in [1 .. m -> [X -> X]]
  PROVE  \E f : IsLoop(f, m, X, base, step)
<1> DEFINE Loop(k, f) == IsLoop(f, k, X, base, step)
           P == {k \in 0 .. m : \E f : Loop(k, f)}
<1>1. 0 \in P
  <2>1. Loop(0, [n \in 0 .. 0 |-> base])
    BY DEF IsLoop
  <2> HIDE DEF Loop
  <2> QED
    BY <2>1
<1>2. ASSUME NEW k \in 1 .. m, k - 1 \in P
      PROVE  k \in P
  <2>1. PICK f : Loop(k - 1, f)
    BY <1>2
  <2> DEFINE g == [n \in 0 .. k |-> IF n = k THEN step[k][f[k - 1]] ELSE f[n]]
  <2>2. f[k - 1] \in X /\ step[k] \in [X -> X]
    BY <2>1 DEF IsLoop
  <2>3. g \in [0 .. k -> X]
    BY <2>1, <2>2 DEF IsLoop
  <2>4. g[0] = base
    BY <2>1 DEF IsLoop
  <2>5. ASSUME NEW n \in 1 .. k
        PROVE  g[n] = step[n][g[n - 1]]
    <3>1. g[n - 1] = f[n - 1]
      OBVIOUS
    <3>2. CASE n = k
      BY <3>1, <3>2
    <3>3. CASE n # k
      <4>1. n \in 1 .. k - 1
        BY <3>3
      <4> QED
        BY <2>1, <3>1, <4>1 DEF IsLoop
    <3> QED
      BY <3>2, <3>3
  <2> HIDE DEF g
  <2>6. Loop(k, g)
    BY <2>3, <2>4, <2>5 DEF IsLoop
  <2> HIDE DEF Loop
  <2> QED
    BY <2>6
<1> HIDE DEF P
<1>3. \A k \in 0 .. m : k \in P
  BY <1>1, <1>2, UpTo
<1> QED
  BY <1>3 DEF P
-----------------------------------------------------------------------------
(* The scans.  Both stop at the first place that they look for. *)
LEMMA FirstPlace ==
  ASSUME NEW n \in Nat, NEW places \in SUBSET (1 .. n), places # {}
  PROVE  Min(places) \in places /\ \A i \in places : Min(places) <= i
<1>1. places \in SUBSET Nat
  OBVIOUS
<1>2. \E i \in places : \A j \in places : i =< j
  BY <1>1, LeastNatural
<1> QED
  BY <1>2 DEF Min

LEMMA FindFirst ==
  ASSUME NEW l \in Lists, NEW k
  PROVE  /\ Find(l, k) \in 0 .. Len(l.nodes)
         /\ Find(l, k) = 0 => \A j \in 1 .. Len(l.nodes) : l.nodes[j].key # k
         /\ Find(l, k) # 0 => /\ l.nodes[Find(l, k)].key = k
                              /\ \A j \in 1 .. Find(l, k) - 1 : l.nodes[j].key # k
<1> DEFINE n == Len(l.nodes)
           places == {j \in 1 .. n : l.nodes[j].key = k}
<1>1. n \in Nat
  BY DEF Lists
<1>2. Find(l, k) = IF places # {} THEN Min(places) ELSE 0
  BY DEF Find, SelectInSeq
<1> HIDE DEF n
<1>3. CASE places = {}
  BY <1>1, <1>2, <1>3 DEF n
<1>4. CASE places # {}
  <2>1. places \in SUBSET (1 .. n)
    OBVIOUS
  <2> HIDE DEF places
  <2>2. Min(places) \in places /\ \A i \in places : Min(places) <= i
    BY <1>1, <1>4, <2>1, FirstPlace
  <2>3. Find(l, k) \in places /\ \A i \in places : Find(l, k) <= i
    BY <1>2, <1>4, <2>2
  <2>4. Find(l, k) \in 1 .. n /\ l.nodes[Find(l, k)].key = k
    BY <2>3 DEF places
  <2>5. ASSUME NEW j \in 1 .. Find(l, k) - 1
        PROVE  l.nodes[j].key # k
    <3>1. j \in 1 .. n /\ ~ (Find(l, k) <= j)
      BY <1>1, <2>4
    <3> QED
      BY <2>3, <3>1 DEF places
  <2> QED
    BY <1>1, <2>4, <2>5 DEF n
<1> QED
  BY <1>3, <1>4

LEMMA KeysNatural ==
  /\ \A e \in Entry : e.key \in Nat /\ e.key \in Key /\ e.block \in Block
  /\ \A q \in Seq(Entry) : \A j \in 1 .. Len(q) : q[j] \in Entry /\ q[j].key \in Nat
<1>1. \A e \in Entry : e.key \in Nat /\ e.key \in Key /\ e.block \in Block
  BY TableAssumption DEF Entry
<1>2. \A q \in Seq(Entry) : \A j \in 1 .. Len(q) : q[j] \in Entry
  OBVIOUS
<1> QED
  BY <1>1, <1>2

LEMMA PlaceFirst ==
  ASSUME NEW l \in Lists, NEW e \in Entry
  PROVE  /\ Place(l, e) \in 1 .. Len(l.nodes) + 1
         /\ \A j \in 1 .. Place(l, e) - 1 : l.nodes[j].key < e.key
         /\ Place(l, e) <= Len(l.nodes) => l.nodes[Place(l, e)].key >= e.key
<1> DEFINE n == Len(l.nodes)
           places == {j \in 1 .. n : l.nodes[j].key >= e.key}
           stop == SelectInSeq(l.nodes, LAMBDA f : f.key >= e.key)
<1>1. n \in Nat /\ e.key \in Nat /\ \A j \in 1 .. n : l.nodes[j].key \in Nat
  BY KeysNatural DEF Lists
<1>2. /\ stop = IF places # {} THEN Min(places) ELSE 0
      /\ Place(l, e) = IF stop = 0 THEN n + 1 ELSE stop
  BY DEF Place, SelectInSeq
<1> HIDE DEF n, stop
<1>3. CASE places = {}
  BY SMTT(30), <1>1, <1>2, <1>3 DEF n
<1>4. CASE places # {}
  <2>1. places \in SUBSET (1 .. n)
    OBVIOUS
  <2> HIDE DEF places
  <2>2. Min(places) \in places /\ \A i \in places : Min(places) <= i
    BY <1>1, <1>4, <2>1, FirstPlace
  <2>3. stop = Min(places)
    BY <1>2, <1>4
  <2>7. Min(places) \in 1 .. n
    BY <2>1, <2>2
  <2>8. stop \in 1 .. n /\ stop # 0
    BY <1>1, <2>3, <2>7
  <2>4. Place(l, e) = stop /\ stop \in places /\ \A i \in places : stop <= i
    BY <1>2, <2>2, <2>3, <2>8
  <2>5. l.nodes[stop].key >= e.key
    BY <2>4 DEF places
  <2>6. ASSUME NEW j \in 1 .. stop - 1
        PROVE  l.nodes[j].key < e.key
    <3>1. j \in 1 .. n /\ ~ (stop <= j)
      BY <1>1, <2>8
    <3>2. ~ (l.nodes[j].key >= e.key)
      BY <2>4, <3>1 DEF places
    <3> QED
      BY <1>1, <3>1, <3>2
  <2> QED
    BY <1>1, <2>4, <2>5, <2>6, <2>8 DEF n
<1> QED
  BY <1>3, <1>4

(* What the changes make of the nodes. *)
LEMMA ConcatNodes ==
  ASSUME NEW S, NEW a \in Seq(S), NEW b \in Seq(S)
  PROVE  /\ a \o b \in Seq(S) /\ Len(a \o b) = Len(a) + Len(b)
         /\ \A j \in 1 .. Len(a) : (a \o b)[j] = a[j]
         /\ \A j \in Nat : j > Len(a) /\ j <= Len(a) + Len(b) =>
              (a \o b)[j] = b[j - Len(a)]
  OBVIOUS

LEMMA InsertNodes ==
  ASSUME NEW q \in Seq(Entry), NEW p \in 1 .. Len(q) + 1, NEW e \in Entry
  PROVE  /\ InsertAt(q, p, e) \in Seq(Entry)
         /\ Len(InsertAt(q, p, e)) = Len(q) + 1
         /\ \A j \in 1 .. Len(q) + 1 : InsertAt(q, p, e)[j] =
              IF j < p THEN q[j] ELSE IF j = p THEN e ELSE q[j - 1]
<1> DEFINE left == SubSeq(q, 1, p - 1)
           right == SubSeq(q, p, Len(q))
           mid == left \o <<e>>
<1>1. Len(q) \in Nat /\ p \in Nat
  OBVIOUS
<1>2. left \in Seq(Entry) /\ Len(left) = p - 1 /\ \A j \in 1 .. p - 1 : left[j] = q[j]
  OBVIOUS
<1>3. /\ right \in Seq(Entry) /\ Len(right) = Len(q) - p + 1
      /\ \A j \in 1 .. Len(q) - p + 1 : right[j] = q[p + j - 1]
  OBVIOUS
<1>4. InsertAt(q, p, e) = mid \o right
  BY DEF InsertAt
<1> HIDE DEF left, right
<1>5. /\ mid \in Seq(Entry) /\ Len(mid) = p
      /\ \A j \in 1 .. p : mid[j] = IF j < p THEN q[j] ELSE e
  BY <1>1, <1>2
<1> HIDE DEF mid
<1>6. /\ mid \o right \in Seq(Entry) /\ Len(mid \o right) = Len(q) + 1
      /\ \A j \in 1 .. Len(q) + 1 :
           (mid \o right)[j] = IF j <= p THEN mid[j] ELSE right[j - p]
  <2>1. /\ mid \o right \in Seq(Entry) /\ Len(mid \o right) = Len(mid) + Len(right)
        /\ \A j \in 1 .. Len(mid) : (mid \o right)[j] = mid[j]
        /\ \A j \in Nat : j > Len(mid) /\ j <= Len(mid) + Len(right) =>
             (mid \o right)[j] = right[j - Len(mid)]
    BY <1>3, <1>5, ConcatNodes
  <2>2. Len(mid) = p /\ Len(mid) + Len(right) = Len(q) + 1
    BY <1>1, <1>3, <1>5
  <2> QED
    BY <1>1, <2>1, <2>2
<1>7. ASSUME NEW j \in 1 .. Len(q) + 1, j > p
      PROVE  right[j - p] = q[j - 1]
  <2>1. j - p \in 1 .. Len(q) - p + 1 /\ p + (j - p) - 1 = j - 1
    BY <1>1, <1>7
  <2> QED
    BY <1>3, <2>1
<1> QED
  BY <1>1, <1>4, <1>5, <1>6, <1>7

LEMMA RemoveNodes ==
  ASSUME NEW q \in Seq(Entry), NEW p \in 1 .. Len(q)
  PROVE  /\ RemoveAt(q, p) \in Seq(Entry)
         /\ Len(RemoveAt(q, p)) = Len(q) - 1
         /\ \A j \in 1 .. Len(q) - 1 : RemoveAt(q, p)[j] =
              IF j < p THEN q[j] ELSE q[j + 1]
<1> DEFINE left == SubSeq(q, 1, p - 1)
           right == SubSeq(q, p + 1, Len(q))
<1>1. Len(q) \in Nat /\ p \in Nat
  OBVIOUS
<1>2. left \in Seq(Entry) /\ Len(left) = p - 1 /\ \A j \in 1 .. p - 1 : left[j] = q[j]
  OBVIOUS
<1>3. /\ right \in Seq(Entry) /\ Len(right) = Len(q) - p
      /\ \A j \in 1 .. Len(q) - p : right[j] = q[p + j]
  OBVIOUS
<1>4. RemoveAt(q, p) = left \o right
  BY DEF RemoveAt
<1> HIDE DEF left, right
<1>5. /\ left \o right \in Seq(Entry) /\ Len(left \o right) = Len(q) - 1
      /\ \A j \in 1 .. Len(q) - 1 :
           (left \o right)[j] = IF j < p THEN left[j] ELSE right[j - (p - 1)]
  <2>1. /\ left \o right \in Seq(Entry) /\ Len(left \o right) = Len(left) + Len(right)
        /\ \A j \in 1 .. Len(left) : (left \o right)[j] = left[j]
        /\ \A j \in Nat : j > Len(left) /\ j <= Len(left) + Len(right) =>
             (left \o right)[j] = right[j - Len(left)]
    BY <1>2, <1>3, ConcatNodes
  <2>2. Len(left) = p - 1 /\ Len(left) + Len(right) = Len(q) - 1
    BY <1>1, <1>2, <1>3
  <2> QED
    BY SMTT(30), <1>1, <2>1, <2>2
<1>6. ASSUME NEW j \in 1 .. Len(q) - 1, ~ (j < p)
      PROVE  right[j - (p - 1)] = q[j + 1]
  <2>1. j - (p - 1) \in 1 .. Len(q) - p /\ p + (j - (p - 1)) = j + 1
    BY <1>1, <1>6
  <2> QED
    BY <1>3, <2>1
<1>7. ASSUME NEW j \in 1 .. Len(q) - 1
      PROVE  (left \o right)[j] = IF j < p THEN q[j] ELSE q[j + 1]
  <2>1. CASE j < p
    <3>1. j \in 1 .. p - 1
      BY <1>1, <2>1
    <3> QED
      BY <1>2, <1>5, <2>1, <3>1
  <2>2. CASE ~ (j < p)
    BY <1>5, <1>6, <2>2
  <2> QED
    BY <2>1, <2>2
<1> QED
  BY <1>4, <1>5, <1>7

LEMMA ReplaceNodes ==
  ASSUME NEW q \in Seq(Entry), NEW p \in 1 .. Len(q), NEW e \in Entry
  PROVE  /\ [q EXCEPT ![p] = e] \in Seq(Entry)
         /\ Len([q EXCEPT ![p] = e]) = Len(q)
         /\ \A j \in 1 .. Len(q) : [q EXCEPT ![p] = e][j] = IF j = p THEN e ELSE q[j]
  OBVIOUS
-----------------------------------------------------------------------------
(* The block that a list has for a key. *)
Val(l, k) == IF list_get(l, k) = NULL THEN NULL ELSE list_get(l, k).block

LEMMA NodesOf ==
  ASSUME NEW l, NEW h, Good(l, h)
  PROVE  /\ l.nodes \in Seq(Entry) /\ Len(l.nodes) \in Nat
         /\ \A j \in 1 .. Len(l.nodes) :
              /\ l.nodes[j] \in Entry /\ l.nodes[j].key \in Nat
              /\ hash_function(l.nodes[j].key) = h
         /\ \A i, j \in 1 .. Len(l.nodes) : l.nodes[i].key = l.nodes[j].key => i = j
<1>1. l.nodes \in Seq(Entry)
  BY DEF Good, Lists
<1>2. \A j \in 1 .. Len(l.nodes) : l.nodes[j] \in Entry /\ l.nodes[j].key \in Nat
  BY <1>1, KeysNatural
<1>3. ASSUME NEW i \in 1 .. Len(l.nodes), NEW j \in 1 .. Len(l.nodes),
             l.nodes[i].key = l.nodes[j].key
      PROVE  i = j
  <2>1. ~ (i < j) /\ ~ (j < i)
    BY <1>2, <1>3 DEF Good, Ascending
  <2> QED
    BY <2>1
<1> QED
  BY <1>1, <1>2, <1>3 DEF Good

LEMMA ValIs ==
  ASSUME NEW l, NEW h, Good(l, h), NEW k
  PROVE  /\ \A j \in 1 .. Len(l.nodes) :
              l.nodes[j].key = k => Find(l, k) = j /\ Val(l, k) = l.nodes[j].block
         /\ (\A j \in 1 .. Len(l.nodes) : l.nodes[j].key # k)
              => Find(l, k) = 0 /\ Val(l, k) = NULL
         /\ list_get(l, k) = NULL <=> Find(l, k) = 0
         /\ Val(l, k) = NULL <=> Find(l, k) = 0
<1>1. l \in Lists
  BY DEF Good
<1>2. /\ Find(l, k) \in 0 .. Len(l.nodes)
      /\ Find(l, k) = 0 => \A j \in 1 .. Len(l.nodes) : l.nodes[j].key # k
      /\ Find(l, k) # 0 => l.nodes[Find(l, k)].key = k
  BY <1>1, FindFirst
<1>3. Find(l, k) # 0 => Find(l, k) \in 1 .. Len(l.nodes)
  BY <1>2, NodesOf
<1>4. \A e \in Entry : e # NULL /\ e.block # NULL
  BY KeysNatural, TableAssumption DEF Entry
<1>5. list_get(l, k) = IF Find(l, k) = 0 THEN NULL ELSE l.nodes[Find(l, k)]
  BY DEF list_get
<1>6. Find(l, k) # 0 => /\ list_get(l, k) \in Entry
                        /\ list_get(l, k) = l.nodes[Find(l, k)]
  BY <1>3, <1>5, NodesOf
<1>7. /\ Find(l, k) = 0 => Val(l, k) = NULL
      /\ Find(l, k) # 0 => /\ Val(l, k) = l.nodes[Find(l, k)].block
                           /\ Val(l, k) # NULL /\ list_get(l, k) # NULL
  BY <1>4, <1>5, <1>6 DEF Val
<1>8. ASSUME NEW j \in 1 .. Len(l.nodes), l.nodes[j].key = k
      PROVE  Find(l, k) = j /\ Find(l, k) # 0
  <2>1. Find(l, k) # 0
    BY <1>2, <1>8
  <2>2. Find(l, k) = j
    BY <1>2, <1>3, <1>8, <2>1, NodesOf
  <2> QED
    BY <2>1, <2>2
<1>9. (\A j \in 1 .. Len(l.nodes) : l.nodes[j].key # k) => Find(l, k) = 0
  BY <1>2, <1>3
<1> QED
  BY <1>5, <1>7, <1>8, <1>9

(* A node gets another block: list_add with a key that is there, and
   entry_replace. *)
LEMMA ReplaceGood ==
  ASSUME NEW l, NEW h, Good(l, h), NEW p \in 1 .. Len(l.nodes),
         NEW e \in Entry, e.key = l.nodes[p].key
  PROVE  LET r == [nodes |-> ReplaceAt(l.nodes, p, e), size |-> l.size] IN
         /\ Good(r, h)
         /\ \A k : Val(r, k) = IF k = e.key THEN e.block ELSE Val(l, k)
<1> DEFINE q == l.nodes
           n == Len(q)
           r == [nodes |-> ReplaceAt(q, p, e), size |-> l.size]
<1>1. l \in Lists /\ q \in Seq(Entry) /\ n \in Nat
  BY NodesOf DEF Good
<1>2. r.nodes = [q EXCEPT ![p] = e] /\ r.size = l.size
  BY DEF ReplaceAt
<1>3. /\ r.nodes \in Seq(Entry) /\ Len(r.nodes) = n
      /\ \A j \in 1 .. n : r.nodes[j] = IF j = p THEN e ELSE q[j]
  BY <1>1, <1>2, ReplaceNodes
<1>4. r \in Lists
  BY <1>1, <1>3 DEF Lists
<1> HIDE DEF r
<1>5. \A j \in 1 .. n : r.nodes[j].key = q[j].key
  BY <1>3
<1>6. Good(r, h)
  <2>1. r.size = Len(r.nodes)
    BY <1>2, <1>3 DEF Good
  <2>2. \A j \in 1 .. n : hash_function(q[j].key) = h
    BY DEF Good
  <2>3. \A i, j \in 1 .. n : i < j => q[i].key < q[j].key
    BY DEF Good, Ascending
  <2> HIDE DEF q
  <2>4. Ascending(r.nodes)
    BY <1>3, <1>5, <2>3 DEF Ascending
  <2> QED
    BY <1>3, <1>4, <1>5, <2>1, <2>2, <2>4 DEF Good
<1>7. ASSUME NEW k
      PROVE  Val(r, k) = IF k = e.key THEN e.block ELSE Val(l, k)
  <2>1. CASE k = e.key
    BY <1>3, <1>5, <1>6, <2>1, ValIs
  <2>2. CASE k # e.key
    <3>1. CASE \E j \in 1 .. n : q[j].key = k
      <4>1. PICK j \in 1 .. n : q[j].key = k
        BY <3>1
      <4>2. j # p
        BY <2>2, <4>1
      <4>3. Val(r, k) = r.nodes[j].block
        BY <1>3, <1>5, <1>6, <4>1, ValIs
      <4>4. Val(l, k) = q[j].block
        BY <4>1, ValIs
      <4> QED
        BY <1>3, <2>2, <4>2, <4>3, <4>4
    <3>2. CASE \A j \in 1 .. n : q[j].key # k
      <4>1. Val(r, k) = NULL
        BY <1>3, <1>5, <1>6, <3>2, ValIs
      <4>2. Val(l, k) = NULL
        BY <3>2, ValIs
      <4> QED
        BY <2>2, <4>1, <4>2
    <3> QED
      BY <3>1, <3>2
  <2> QED
    BY <2>1, <2>2
<1> QED
  BY <1>6, <1>7 DEF r

(* A node with a new key goes to its place in the order. *)
LEMMA InsertGood ==
  ASSUME NEW l, NEW h, Good(l, h), NEW e \in Entry, hash_function(e.key) = h,
         NEW p \in 1 .. Len(l.nodes) + 1,
         \A j \in 1 .. Len(l.nodes) : IF j < p THEN l.nodes[j].key < e.key
                                               ELSE e.key < l.nodes[j].key
  PROVE  LET r == [nodes |-> InsertAt(l.nodes, p, e), size |-> l.size + 1] IN
         /\ Good(r, h)
         /\ \A k : Val(r, k) = IF k = e.key THEN e.block ELSE Val(l, k)
<1> DEFINE q == l.nodes
           n == Len(q)
           s == InsertAt(q, p, e)
           r == [nodes |-> s, size |-> l.size + 1]
<1>1. q \in Seq(Entry) /\ n \in Nat /\ \A j \in 1 .. n : q[j].key \in Nat
  BY NodesOf
<1>2. l.size = n /\ p \in 1 .. n + 1
  BY DEF Good
<1>3. /\ q \in Seq(Entry) /\ n \in Nat /\ l.size = n /\ p \in 1 .. n + 1
      /\ p \in Nat /\ e.key \in Nat /\ \A j \in 1 .. n : q[j].key \in Nat
  <2>1. e.key \in Nat
    BY KeysNatural
  <2> HIDE DEF n, q
  <2> QED
    BY <1>1, <1>2, <2>1
<1>4. /\ s \in Seq(Entry) /\ Len(s) = n + 1
      /\ \A j \in 1 .. n + 1 :
           s[j] = IF j < p THEN q[j] ELSE IF j = p THEN e ELSE q[j - 1]
  <2>1. q \in Seq(Entry) /\ p \in 1 .. Len(q) + 1
    BY <1>1
  <2> HIDE DEF q
  <2> QED
    BY <2>1, InsertNodes
<1>5. \A j \in 1 .. n : IF j < p THEN q[j].key < e.key ELSE e.key < q[j].key
  OBVIOUS
<1>6. \A j \in 1 .. n : hash_function(q[j].key) = h
  BY DEF Good
<1>7. \A i, j \in 1 .. n : i < j => q[i].key < q[j].key
  BY DEF Good, Ascending
<1> HIDE DEF q, n, s
<1>8. ASSUME NEW j \in 1 .. n + 1
      PROVE  /\ j < p => j \in 1 .. n /\ s[j] = q[j]
             /\ j = p => s[j] = e
             /\ j > p => j - 1 \in 1 .. n /\ ~ (j - 1 < p) /\ s[j] = q[j - 1]
  <2>1. CASE j < p
    <3>1. j \in 1 .. n
      BY <1>3, <2>1
    <3>2. s[j] = q[j]
      BY <1>4, <2>1
    <3> QED
      BY <1>3, <2>1, <3>1, <3>2
  <2>2. CASE j = p
    <3>1. s[j] = e
      BY <1>3, <1>4, <2>2
    <3> QED
      BY <1>3, <2>2, <3>1
  <2>3. CASE j > p
    <3>1. j - 1 \in 1 .. n /\ ~ (j - 1 < p) /\ ~ (j < p) /\ j # p
      BY <1>3, <2>3
    <3>2. s[j] = q[j - 1]
      BY <1>4, <3>1
    <3> QED
      BY <3>1, <3>2
  <2> QED
    BY <1>3, <2>1, <2>2, <2>3
<1>9. ASSUME NEW i \in 1 .. n + 1, NEW j \in 1 .. n + 1, i < j
      PROVE  s[i].key < s[j].key
  <2>1. CASE j < p
    <3>1. i < p
      BY <1>3, <1>9, <2>1
    <3>2. i \in 1 .. n /\ j \in 1 .. n /\ s[i] = q[i] /\ s[j] = q[j]
      BY <1>8, <2>1, <3>1
    <3> QED
      BY <1>7, <1>9, <3>2
  <2>2. CASE j = p
    <3>1. i < p /\ i \in 1 .. n /\ s[i] = q[i] /\ s[j] = e
      BY <1>8, <1>9, <2>2
    <3> QED
      BY <1>5, <3>1
  <2>3. CASE j > p
    <3>1. j - 1 \in 1 .. n /\ ~ (j - 1 < p) /\ s[j] = q[j - 1]
      BY <1>8, <2>3
    <3>2. CASE i < p
      <4>1. i \in 1 .. n /\ s[i] = q[i]
        BY <1>8, <3>2
      <4>2. i < j - 1
        BY <1>3, <3>1, <3>2
      <4> QED
        BY <1>7, <3>1, <4>1, <4>2
    <3>3. CASE i = p
      <4>1. s[i] = e
        BY <1>8, <3>3
      <4> QED
        BY <1>5, <3>1, <4>1
    <3>4. CASE i > p
      <4>1. i - 1 \in 1 .. n /\ s[i] = q[i - 1]
        BY <1>8, <3>4
      <4>2. i - 1 < j - 1
        BY <1>9
      <4> QED
        BY <1>7, <3>1, <4>1, <4>2
    <3> QED
      BY <1>3, <3>2, <3>3, <3>4
  <2> QED
    BY <1>3, <2>1, <2>2, <2>3
<1>10. ASSUME NEW j \in 1 .. n + 1
       PROVE  hash_function(s[j].key) = h
  <2>1. CASE j < p
    BY <1>6, <1>8, <2>1
  <2>2. CASE j = p
    BY <1>8, <2>2
  <2>3. CASE j > p
    BY <1>6, <1>8, <2>3
  <2> QED
    BY <1>3, <2>1, <2>2, <2>3
<1>11. Good(r, h)
  BY <1>3, <1>4, <1>9, <1>10 DEF Good, Lists, Ascending
<1>12. \A j \in 1 .. n : \E i \in 1 .. n + 1 : s[i] = q[j]
  <2> TAKE j \in 1 .. n
  <2>1. CASE j < p
    <3>1. j \in 1 .. n + 1
      BY <1>3
    <3>2. s[j] = q[j]
      BY <1>4, <2>1, <3>1
    <3> QED
      BY <3>1, <3>2
  <2>2. CASE ~ (j < p)
    <3>1. j + 1 \in 1 .. n + 1 /\ s[j + 1] = q[(j + 1) - 1] /\ (j + 1) - 1 = j
      BY <1>3, <1>4, <2>2
    <3> QED
      BY <3>1
  <2> QED
    BY <2>1, <2>2
<1>13. \A i \in 1 .. n + 1 : s[i] = e \/ \E j \in 1 .. n : s[i] = q[j]
  <2> TAKE i \in 1 .. n + 1
  <2>1. CASE i > p
    <3>1. i - 1 \in 1 .. n /\ s[i] = q[i - 1]
      BY <1>3, <1>4, <2>1
    <3> QED
      BY <3>1
  <2>2. CASE i < p
    BY <1>3, <1>4, <2>2
  <2> QED
    BY <1>3, <1>4, <2>1, <2>2
<1>14. p \in 1 .. n + 1 /\ s[p] = e
  BY <1>3, <1>4
<1>15. r.nodes = s /\ l.nodes = q /\ Len(q) = n /\ Len(s) = n + 1
  BY <1>4 DEF n, q
<1> HIDE DEF r
<1>16. ASSUME NEW k
       PROVE  Val(r, k) = IF k = e.key THEN e.block ELSE Val(l, k)
  <2>1. CASE k = e.key
    BY <1>11, <1>14, <1>15, <2>1, ValIs
  <2>2. CASE k # e.key /\ \E j \in 1 .. n : q[j].key = k
    <3>1. PICK j \in 1 .. n : q[j].key = k
      BY <2>2
    <3>2. PICK i \in 1 .. n + 1 : s[i] = q[j]
      BY <1>12
    <3>3. Val(r, k) = s[i].block /\ Val(l, k) = q[j].block
      BY <1>11, <1>15, <3>1, <3>2, ValIs
    <3> QED
      BY <2>2, <3>2, <3>3
  <2>3. CASE k # e.key /\ \A j \in 1 .. n : q[j].key # k
    <3>1. \A i \in 1 .. n + 1 : s[i].key # k
      BY <1>13, <2>3
    <3>2. Val(r, k) = NULL /\ Val(l, k) = NULL
      BY <1>11, <1>15, <2>3, <3>1, ValIs
    <3> QED
      BY <2>3, <3>2
  <2> QED
    BY <2>1, <2>2, <2>3
<1> QED
  BY <1>11, <1>16 DEF r, s, q

LEMMA RemoveGood ==
  ASSUME NEW l, NEW h, Good(l, h), NEW p \in 1 .. Len(l.nodes)
  PROVE  LET r == [nodes |-> RemoveAt(l.nodes, p), size |-> l.size - 1] IN
         /\ Good(r, h)
         /\ \A k : Val(r, k) = IF k = l.nodes[p].key THEN NULL ELSE Val(l, k)
<1> DEFINE q == l.nodes
           n == Len(q)
           s == RemoveAt(q, p)
           r == [nodes |-> s, size |-> l.size - 1]
<1>1. /\ q \in Seq(Entry) /\ n \in Nat \ {0} /\ l.size = n /\ p \in 1 .. n
      /\ \A j \in 1 .. n : q[j].key \in Nat
  BY NodesOf DEF Good
<1>2. /\ s \in Seq(Entry) /\ Len(s) = n - 1
      /\ \A j \in 1 .. n - 1 : s[j] = IF j < p THEN q[j] ELSE q[j + 1]
  BY <1>1, RemoveNodes
<1>3. \A j \in 1 .. n : hash_function(q[j].key) = h
  BY DEF Good
<1>4. \A i, j \in 1 .. n : i < j => q[i].key < q[j].key
  BY DEF Good, Ascending
<1> HIDE DEF q, n, s
<1>5. \A i \in 1 .. n - 1 :
        \E j \in 1 .. n : /\ j = (IF i < p THEN i ELSE i + 1)
                          /\ s[i] = q[j] /\ j # p
  <2> TAKE i \in 1 .. n - 1
  <2>1. CASE i < p
    BY <1>1, <1>2, <2>1
  <2>2. CASE ~ (i < p)
    <3>1. i + 1 \in 1 .. n /\ i + 1 # p /\ s[i] = q[i + 1]
      BY <1>1, <1>2, <2>2
    <3> QED
      BY <2>2, <3>1
  <2> QED
    BY <2>1, <2>2
<1>6. ASSUME NEW i \in 1 .. n - 1, NEW j \in 1 .. n - 1, i < j
      PROVE  s[i].key < s[j].key
  <2>1. PICK a \in 1 .. n : a = (IF i < p THEN i ELSE i + 1) /\ s[i] = q[a]
    BY <1>5
  <2>2. PICK b \in 1 .. n : b = (IF j < p THEN j ELSE j + 1) /\ s[j] = q[b]
    BY <1>5
  <2>3. a < b
    BY <1>1, <1>6, <2>1, <2>2
  <2> QED
    BY <1>4, <2>1, <2>2, <2>3
<1>7. \A i \in 1 .. n - 1 : hash_function(s[i].key) = h
  BY <1>3, <1>5
<1>8. Good(r, h)
  BY <1>1, <1>2, <1>6, <1>7 DEF Good, Lists, Ascending
<1>9. ASSUME NEW j \in 1 .. n, j # p
      PROVE  \E i \in 1 .. n - 1 : s[i] = q[j]
  <2>1. CASE j < p
    <3>1. j \in 1 .. n - 1 /\ s[j] = q[j]
      BY <1>1, <1>2, <2>1
    <3> QED
      BY <3>1
  <2>2. CASE j > p
    <3>1. j - 1 \in 1 .. n - 1 /\ s[j - 1] = q[(j - 1) + 1] /\ (j - 1) + 1 = j
      BY <1>1, <1>2, <2>2
    <3> QED
      BY <3>1
  <2> QED
    BY <1>1, <1>9, <2>1, <2>2
<1>10. r.nodes = s /\ l.nodes = q /\ Len(q) = n /\ Len(s) = n - 1
  BY <1>2 DEF n, q
<1>11. \A j \in 1 .. n : q[j].key = q[p].key => j = p
  BY <1>1, <1>10, NodesOf
<1> HIDE DEF r
<1>12. ASSUME NEW k
       PROVE  Val(r, k) = IF k = q[p].key THEN NULL ELSE Val(l, k)
  <2>1. CASE k = q[p].key
    <3>1. \A i \in 1 .. n - 1 : s[i].key # k
      BY <1>5, <1>11, <2>1
    <3> QED
      BY <1>8, <1>10, <2>1, <3>1, ValIs
  <2>2. CASE k # q[p].key /\ \E j \in 1 .. n : q[j].key = k
    <3>1. PICK j \in 1 .. n : q[j].key = k
      BY <2>2
    <3>2. PICK i \in 1 .. n - 1 : s[i] = q[j]
      BY <1>9, <2>2, <3>1
    <3>3. Val(r, k) = s[i].block /\ Val(l, k) = q[j].block
      BY <1>8, <1>10, <3>1, <3>2, ValIs
    <3> QED
      BY <2>2, <3>2, <3>3
  <2>3. CASE k # q[p].key /\ \A j \in 1 .. n : q[j].key # k
    <3>1. \A i \in 1 .. n - 1 : s[i].key # k
      BY <1>5, <2>3
    <3>2. Val(r, k) = NULL /\ Val(l, k) = NULL
      BY <1>8, <1>10, <2>3, <3>1, ValIs
    <3> QED
      BY <2>3, <3>2
  <2> QED
    BY <2>1, <2>2, <2>3
<1> QED
  BY <1>8, <1>12 DEF r, s, q

(* list_add, in all of its three cases. *)
LEMMA AddGood ==
  ASSUME NEW l, NEW h, Good(l, h), NEW e \in Entry, hash_function(e.key) = h
  PROVE  /\ Good(list_add(l, e), h)
         /\ \A k : Val(list_add(l, e), k) = IF k = e.key THEN e.block ELSE Val(l, k)
<1> DEFINE q == l.nodes
           n == Len(q)
           p == Place(l, e)
<1>1. /\ l \in Lists /\ q \in Seq(Entry) /\ n \in Nat /\ l.size = n
      /\ \A j \in 1 .. n : q[j].key \in Nat
  BY NodesOf DEF Good
<1>2. e.key \in Nat
  BY KeysNatural
<1>3. /\ p \in 1 .. n + 1
      /\ \A j \in 1 .. p - 1 : q[j].key < e.key
      /\ p <= n => q[p].key >= e.key
  BY <1>1, PlaceFirst
<1>4. list_add(l, e) =
        IF l.size = 0 THEN [nodes |-> <<e>>, size |-> 1]
        ELSE IF p <= n /\ q[p].key = e.key
        THEN [nodes |-> ReplaceAt(q, p, e), size |-> l.size]
        ELSE [nodes |-> InsertAt(q, p, e), size |-> l.size + 1]
  BY <1>1 DEF list_add, Lists
<1>5. CASE l.size = 0
  <2> DEFINE r == [nodes |-> <<e>>, size |-> 1]
  <2>1. list_add(l, e) = r
    BY <1>4, <1>5
  <2>2. r.nodes \in Seq(Entry) /\ Len(r.nodes) = 1 /\ r.nodes[1] = e /\ r.size = 1
    OBVIOUS
  <2>3. r \in Lists
    BY DEF Lists
  <2> HIDE DEF r
  <2>4. Good(r, h)
    BY <2>2, <2>3 DEF Good, Ascending
  <2>5. n = 0
    BY <1>1, <1>5
  <2>6. ASSUME NEW k
        PROVE  Val(r, k) = IF k = e.key THEN e.block ELSE Val(l, k)
    <3>1. CASE k = e.key
      BY <2>2, <2>4, <3>1, ValIs
    <3>2. CASE k # e.key
      <4>1. Val(r, k) = NULL
        <5>1. \A j \in 1 .. Len(r.nodes) : r.nodes[j].key # k
          BY <2>2, <3>2
        <5> QED
          BY <2>4, <5>1, ValIs
      <4>2. Val(l, k) = NULL
        <5>1. \A j \in 1 .. Len(l.nodes) : l.nodes[j].key # k
          BY <2>5
        <5> QED
          BY <5>1, ValIs
      <4> QED
        BY <3>2, <4>1, <4>2
    <3> QED
      BY <3>1, <3>2
  <2> QED
    BY <2>1, <2>4, <2>6
<1>6. CASE l.size # 0 /\ p <= n /\ q[p].key = e.key
  <2>1. p \in 1 .. Len(l.nodes) /\ e.key = l.nodes[p].key
    <3>1. p \in 1 .. n
      <4> HIDE DEF p, n, q
      <4> QED
        BY <1>1, <1>3, <1>6
    <3> QED
      BY <1>6, <3>1
  <2>2. list_add(l, e) = [nodes |-> ReplaceAt(q, p, e), size |-> l.size]
    BY <1>4, <1>6
  <2> HIDE DEF p
  <2> QED
    BY <2>1, <2>2, ReplaceGood
<1>7. CASE l.size # 0 /\ ~ (p <= n /\ q[p].key = e.key)
  <2>1. ASSUME NEW j \in 1 .. n
        PROVE  IF j < p THEN q[j].key < e.key ELSE e.key < q[j].key
    <3>1. \A i \in 1 .. n : p < i => q[p].key < q[i].key
      BY <1>3 DEF Good, Ascending
    <3> HIDE DEF p, n, q
    <3>2. CASE j < p
      BY <1>1, <1>3, <3>2
    <3>3. CASE ~ (j < p)
      <4>1. p \in 1 .. n /\ p <= j
        BY <1>1, <1>3, <3>3
      <4>2. e.key < q[p].key
        BY <1>1, <1>2, <1>3, <1>7, <4>1
      <4>3. e.key < q[j].key
        <5>1. CASE j = p
          BY <4>2, <5>1
        <5>2. CASE j # p
          <6>1. q[p].key < q[j].key
            BY <1>1, <3>1, <4>1, <5>2
          <6> QED
            BY <1>1, <1>2, <4>1, <4>2, <6>1
        <5> QED
          BY <5>1, <5>2
      <4> QED
        BY <3>3, <4>3
    <3> QED
      BY <3>2, <3>3
  <2>2. list_add(l, e) = [nodes |-> InsertAt(q, p, e), size |-> l.size + 1]
    BY <1>4, <1>7
  <2> HIDE DEF p
  <2> QED
    BY <1>3, <2>1, <2>2, InsertGood
<1> QED
  BY <1>5, <1>6, <1>7

LEMMA PutGood ==
  ASSUME NEW l, NEW k \in Key, NEW b \in Block, Good(l, hash_function(k))
  PROVE  LET r == IF list_get(l, k) # NULL THEN entry_replace(l, k, b)
                  ELSE list_add(l, [key |-> k, block |-> b])
         IN  /\ Good(r, hash_function(k))
             /\ \A j : Val(r, j) = IF j = k THEN b ELSE Val(l, j)
<1> DEFINE e == [key |-> k, block |-> b]
           p == Find(l, k)
<1>1. e \in Entry /\ e.key = k /\ e.block = b
  BY DEF Entry
<1>2. CASE list_get(l, k) # NULL
  <2>1. p \in 1 .. Len(l.nodes) /\ e.key = l.nodes[p].key
    <3>1. l \in Lists /\ Len(l.nodes) \in Nat
      BY NodesOf DEF Good
    <3>2. p # 0
      BY <1>2, ValIs
    <3>3. p \in 0 .. Len(l.nodes) /\ l.nodes[p].key = k
      BY <3>1, <3>2, FindFirst
    <3> HIDE DEF p
    <3> QED
      BY <1>1, <3>1, <3>2, <3>3
  <2>2. entry_replace(l, k, b) = [nodes |-> ReplaceAt(l.nodes, p, e), size |-> l.size]
    <3>1. l \in Lists
      BY DEF Good
    <3> QED
      BY <3>1 DEF entry_replace, ReplaceAt, Lists
  <2> HIDE DEF p, e
  <2>3. /\ Good(entry_replace(l, k, b), hash_function(k))
        /\ \A j : Val(entry_replace(l, k, b), j) = IF j = e.key THEN e.block ELSE Val(l, j)
    BY <1>1, <2>1, <2>2, ReplaceGood
  <2> QED
    BY <1>1, <1>2, <2>3
<1>3. CASE list_get(l, k) = NULL
  <2> HIDE DEF e
  <2>1. /\ Good(list_add(l, e), hash_function(k))
        /\ \A j : Val(list_add(l, e), j) = IF j = k THEN b ELSE Val(l, j)
    BY <1>1, AddGood
  <2> QED
    BY <1>3, <2>1 DEF e
<1> QED
  BY <1>2, <1>3

(* list_remove leaves the other keys alone. *)
LEMMA DropGood ==
  ASSUME NEW l, NEW h, Good(l, h), NEW k
  PROVE  /\ Good(list_remove(l, k), h)
         /\ \A j : Val(list_remove(l, k), j) = IF j = k THEN NULL ELSE Val(l, j)
<1> DEFINE p == Find(l, k)
<1>1. l \in Lists /\ Len(l.nodes) \in Nat
  BY NodesOf DEF Good
<1>2. CASE p = 0
  <2>1. list_remove(l, k) = l
    BY <1>2 DEF list_remove
  <2>2. Val(l, k) = NULL
    BY <1>2, ValIs
  <2> QED
    BY <2>1, <2>2
<1>3. CASE p # 0
  <2>1. p \in 1 .. Len(l.nodes) /\ l.nodes[p].key = k
    <3>1. p \in 0 .. Len(l.nodes) /\ l.nodes[p].key = k
      BY <1>1, <1>3, FindFirst
    <3> HIDE DEF p
    <3> QED
      BY <1>1, <1>3, <3>1
  <2>2. list_remove(l, k) = [nodes |-> RemoveAt(l.nodes, p), size |-> l.size - 1]
    BY <1>3 DEF list_remove
  <2> HIDE DEF p
  <2> QED
    BY <2>1, <2>2, RemoveGood
<1> QED
  BY <1>2, <1>3

LEMMA EmptyGood ==
  ASSUME NEW h
  PROVE  Good(list_create, h) /\ \A k : Val(list_create, k) = NULL
<1>1. /\ list_create.nodes = <<>> /\ list_create.size = 0 /\ list_create \in Lists
      /\ Len(list_create.nodes) = 0
  BY DEF list_create, Lists
<1>2. Good(list_create, h)
  BY <1>1 DEF Good, Ascending
<1>3. \A k : \A j \in 1 .. Len(list_create.nodes) : list_create.nodes[j].key # k
  BY <1>1
<1> QED
  BY <1>2, <1>3, ValIs

LEMMA OnlyEmpty ==
  ASSUME NEW l, NEW h, Good(l, h), \A k : Val(l, k) = NULL
  PROVE  l = list_create
<1>1. l.nodes \in Seq(Entry) /\ Len(l.nodes) \in Nat
  BY NodesOf
<1>2. \A j \in 1 .. Len(l.nodes) : FALSE
  <2> TAKE j \in 1 .. Len(l.nodes)
  <2>1. l.nodes[j].block = NULL
    BY ValIs
  <2>2. l.nodes[j].block \in Block
    BY <1>1, KeysNatural
  <2> QED
    BY <2>1, <2>2, TableAssumption
<1>3. Len(l.nodes) = 0
  BY <1>1, <1>2
<1>4. l.nodes = <<>> /\ l.size = 0
  BY <1>1, <1>3 DEF Good
<1> QED
  BY <1>4 DEF Good, Lists, list_create

(* table_destroy takes every key out of a list, and nothing is left. *)
LEMMA NothingLeft ==
  ASSUME NEW l, NEW h, Good(l, h)
  PROVE  Without(l, list_get_keys(l)) = list_create
<1> DEFINE q == l.nodes
           n == Len(q)
           keys == list_get_keys(l)
           X == {x \in Lists : Good(x, h)}
           After(g) == g = [m \in 0 .. Len(keys) |->
                              IF m = 0 THEN l ELSE list_remove(g[m - 1], keys[m])]
           f == CHOOSE g : After(g)
<1>1. n \in Nat /\ l.size = n /\ l \in X
  BY NodesOf DEF Good
<1>2. keys = [i \in 1 .. n |-> q[i].key] /\ Len(keys) = n
  BY <1>1 DEF list_get_keys
<1>3. Without(l, keys) = f[n]
  BY <1>2 DEF Without
<1> HIDE DEF q, n, keys
<1>4. \A k : \A x \in X : list_remove(x, k) \in X
  BY DropGood DEF Good
<1>5. \E g : After(g)
  <2> DEFINE step == [m \in 1 .. n |-> [x \in X |-> list_remove(x, keys[m])]]
  <2>1. step \in [1 .. n -> [X -> X]]
    BY <1>4
  <2>2. \A m \in 1 .. n, x \in X : step[m][x] = list_remove(x, keys[m])
    OBVIOUS
  <2> HIDE DEF step, X
  <2>3. PICK g \in [0 .. n -> X] : g[0] = l /\ \A m \in 1 .. n : g[m] = step[m][g[m - 1]]
    <3>1. \E g : IsLoop(g, n, X, l, step)
      BY <1>1, <2>1, Recursion
    <3> QED
      BY <3>1 DEF IsLoop
  <2>4. ASSUME NEW m \in 0 .. n
        PROVE  g[m] = IF m = 0 THEN l ELSE list_remove(g[m - 1], keys[m])
    <3>1. CASE m = 0
      BY <2>3, <3>1
    <3>2. CASE m # 0
      <4>1. m \in 1 .. n /\ m - 1 \in 0 .. n
        BY <1>1, <3>2
      <4>2. g[m - 1] \in X /\ g[m] = step[m][g[m - 1]]
        BY <2>3, <4>1
      <4> QED
        BY <2>2, <3>2, <4>1, <4>2
    <3> QED
      BY <3>1, <3>2
  <2>5. g = [m \in 0 .. n |-> IF m = 0 THEN l ELSE list_remove(g[m - 1], keys[m])]
    BY <2>3, <2>4
  <2> QED
    BY ZenonT(40), <1>2, <2>5
<1>6. After(f)
  BY <1>5
<1> HIDE DEF f
<1>7. /\ f[0] = l
      /\ \A m \in 1 .. n : f[m] = list_remove(f[m - 1], keys[m])
  <2>1. f = [m \in 0 .. n |-> IF m = 0 THEN l ELSE list_remove(f[m - 1], keys[m])]
    BY <1>2, <1>6
  <2> QED
    BY <1>1, <2>1
<1> DEFINE P == {m \in 0 .. n :
                   /\ f[m] \in X
                   /\ \A k : Val(f[m], k) = IF \E i \in 1 .. m : keys[i] = k
                                            THEN NULL ELSE Val(l, k)}
<1>8. 0 \in P
  BY <1>1, <1>7
<1>9. ASSUME NEW m \in 1 .. n, m - 1 \in P
      PROVE  m \in P
  <2>1. f[m - 1] \in X /\ Good(f[m - 1], h)
    BY <1>9
  <2>2. f[m] \in X
    BY <1>4, <1>7, <2>1
  <2>3. ASSUME NEW k
        PROVE  Val(f[m], k) = IF \E i \in 1 .. m : keys[i] = k THEN NULL ELSE Val(l, k)
    <3>1. Val(f[m], k) = IF k = keys[m] THEN NULL ELSE Val(f[m - 1], k)
      BY <1>7, <2>1, DropGood
    <3>2. Val(f[m - 1], k) =
            IF \E i \in 1 .. m - 1 : keys[i] = k THEN NULL ELSE Val(l, k)
      BY <1>9
    <3>3. (\E i \in 1 .. m : keys[i] = k)
            <=> k = keys[m] \/ \E i \in 1 .. m - 1 : keys[i] = k
      BY <1>1
    <3> QED
      BY <3>1, <3>2, <3>3
  <2> QED
    BY <2>2, <2>3
<1> HIDE DEF P
<1>10. n \in P
  <2>1. \A m \in 0 .. n : m \in P
    BY <1>1, <1>8, <1>9, UpTo
  <2> QED
    BY <1>1, <2>1
<1>11. ASSUME NEW k
       PROVE  Val(f[n], k) = NULL
  <2>1. Val(f[n], k) = IF \E i \in 1 .. n : keys[i] = k THEN NULL ELSE Val(l, k)
    BY <1>10 DEF P
  <2>2. CASE \A i \in 1 .. n : keys[i] # k
    <3>1. \A j \in 1 .. Len(l.nodes) : l.nodes[j].key # k
      BY <1>2, <2>2 DEF q, n
    <3>2. Val(l, k) = NULL
      BY <3>1, ValIs
    <3> QED
      BY <2>1, <3>2
  <2> QED
    BY <2>1, <2>2
<1>12. Good(f[n], h)
  BY <1>10 DEF P
<1>13. f[n] = list_create
  BY <1>11, <1>12, OnlyEmpty
<1> QED
  BY <1>3, <1>13 DEF keys
-----------------------------------------------------------------------------
(* The block that a table has for a key. *)
At(t, k) ==
  IF hash_function(k) \in Index THEN Val(t[hash_function(k)], k) ELSE NULL

(* A list gets another one in its place that differs in one key. *)
LEMMA OneList ==
  ASSUME NEW t, AllGood(t), NEW k \in Key,
         NEW r, NEW v, Good(r, hash_function(k)),
         \A j : Val(r, j) = IF j = k THEN v ELSE Val(t[hash_function(k)], j),
         hash_function(k) \in Index,
         NEW s, Indexed(s),
         \A i \in Index : s[i] = IF i = hash_function(k) THEN r ELSE t[i]
  PROVE  /\ AllGood(s)
         /\ \A j \in Key : At(s, j) = IF j = k THEN v ELSE At(t, j)
<1> DEFINE h == hash_function(k)
<1>1. AllGood(s)
  BY DEF AllGood
<1>2. ASSUME NEW j \in Key
      PROVE  At(s, j) = IF j = k THEN v ELSE At(t, j)
  <2>1. CASE hash_function(j) = h
    BY <2>1 DEF At
  <2>2. CASE hash_function(j) # h
    <3>1. j # k
      BY <2>2
    <3>2. hash_function(j) \in Index => s[hash_function(j)] = t[hash_function(j)]
      BY <2>2
    <3> QED
      BY <3>1, <3>2 DEF At
  <2> QED
    BY <2>1, <2>2
<1> QED
  BY <1>1, <1>2

(* What the calls that write do to the table. *)
LEMMA PutEffect ==
  ASSUME AllGood(lists), NEW k \in Key, NEW b \in Block, table_put(k, b)
  PROVE  /\ AllGood(lists')
         /\ \A j \in Key : At(lists', j) = IF j = k THEN b ELSE At(lists, j)
<1> DEFINE h == hash_function(k)
           l == lists[h]
           r == IF list_get(l, k) # NULL THEN entry_replace(l, k, b)
                ELSE list_add(l, [key |-> k, block |-> b])
<1>1. h \in Index
  BY DEF table_put
<1>2. Good(l, h)
  BY <1>1 DEF AllGood
<1>3. lists' = [lists EXCEPT ![h] = r]
  BY DEF table_put
<1>4. Good(r, h) /\ \A j : Val(r, j) = IF j = k THEN b ELSE Val(l, j)
  <2> HIDE DEF l
  <2> QED
    BY <1>2, PutGood
<1> HIDE DEF r
<1>5. /\ Indexed(lists')
      /\ \A i \in Index : lists'[i] = IF i = h THEN r ELSE lists[i]
  <2> HIDE DEF h
  <2> QED
    BY <1>3 DEF AllGood, Indexed
<1> QED
  BY <1>1, <1>4, <1>5, OneList

LEMMA RemoveEffect ==
  ASSUME AllGood(lists), NEW k \in Key, table_remove(k)
  PROVE  /\ AllGood(lists')
         /\ \A j \in Key : At(lists', j) = IF j = k THEN NULL ELSE At(lists, j)
<1> DEFINE h == hash_function(k)
           l == lists[h]
           r == list_remove(l, k)
<1>1. h \in Index
  BY DEF table_remove
<1>2. Good(l, h)
  BY <1>1 DEF AllGood
<1>3. lists' = [lists EXCEPT ![h] = r]
  BY DEF table_remove
<1>4. Good(r, h) /\ \A j : Val(r, j) = IF j = k THEN NULL ELSE Val(l, j)
  <2> HIDE DEF l
  <2> QED
    BY <1>2, DropGood
<1> HIDE DEF r
<1>5. /\ Indexed(lists')
      /\ \A i \in Index : lists'[i] = IF i = h THEN r ELSE lists[i]
  <2> HIDE DEF h
  <2> QED
    BY <1>3 DEF AllGood, Indexed
<1> QED
  BY <1>1, <1>4, <1>5, OneList

LEMMA DestroyEffect ==
  ASSUME AllGood(lists), table_destroy
  PROVE  AllGood(lists') /\ \A k : At(lists', k) = NULL
<1>1. lists' = [i \in Index |-> Without(lists[i], list_get_keys(lists[i]))]
  BY DEF table_destroy
<1>2. \A i \in Index : lists'[i] = list_create
  <2> TAKE i \in Index
  <2>1. Good(lists[i], i)
    BY DEF AllGood
  <2>2. Without(lists[i], list_get_keys(lists[i])) = list_create
    BY <2>1, NothingLeft
  <2> QED
    BY <1>1, <2>2
<1>3. lists' = [i \in Index |-> lists'[i]]
  BY <1>1
<1> QED
  BY <1>2, <1>3, EmptyGood DEF AllGood, Indexed, At

LEMMA InitEffect ==
  ASSUME Init
  PROVE  AllGood(lists) /\ \A k : At(lists, k) = NULL
<1>1. lists = [i \in Index |-> lists[i]] /\ \A i \in Index : lists[i] = list_create
  BY DEF Init
<1> QED
  BY <1>1, EmptyGood DEF AllGood, Indexed, At
-----------------------------------------------------------------------------
LEMMA TableStep ==
  ASSUME TableInv, [Next]_vars
  PROVE  TableInv'
<1> DEFINE Calls == {"create", "put", "get", "remove", "size", "get_keys", "destroy"}
<1>1. /\ AllGood(lists) /\ running \in BOOLEAN /\ answer.call[1] \in Calls
  BY DEF TableInv
<1>2. CASE UNCHANGED vars
  BY <1>1, <1>2 DEF vars, TableInv, AllGood, Indexed
<1>3. CASE \E k \in Key, b \in Block : table_put(k, b)
  <2>1. PICK k \in Key, b \in Block : table_put(k, b)
    BY <1>3
  <2>2. AllGood(lists')
    BY <1>1, <2>1, PutEffect
  <2>3. running' = running /\ answer'.call[1] = "put"
    BY <2>1 DEF table_put, Returns
  <2> QED
    BY <1>1, <2>2, <2>3 DEF TableInv
<1>4. CASE \E k \in Key : table_remove(k)
  <2>1. PICK k \in Key : table_remove(k)
    BY <1>4
  <2>2. AllGood(lists')
    BY <1>1, <2>1, RemoveEffect
  <2>3. running' = running /\ answer'.call[1] = "remove"
    BY <2>1 DEF table_remove, Returns
  <2> QED
    BY <1>1, <2>2, <2>3 DEF TableInv
<1>5. CASE table_destroy
  <2>1. AllGood(lists')
    BY <1>1, <1>5, DestroyEffect
  <2>2. running' = FALSE /\ answer'.call[1] = "destroy"
    BY <1>5 DEF table_destroy, Returns
  <2> QED
    BY <2>1, <2>2 DEF TableInv
<1>6. CASE \E k \in Key : table_put_null(k) \/ table_get(k)
  <2>1. lists' = lists /\ running' = running /\ answer'.call[1] \in {"put", "get"}
    BY <1>6 DEF table_put_null, table_get, Returns
  <2> QED
    BY <1>1, <2>1 DEF TableInv
<1>7. CASE \E k \in Key : Stray(k)
  <2>1. PICK k \in Key : Stray(k)
    BY <1>7
  <2>2. lists' = lists
    BY <2>1 DEF Stray
  <2>3. running' = running \/ running' = FALSE
    BY <2>1 DEF Stray
  <2>4. answer' = answer \/ answer'.call[1] \in {"put", "get", "remove"}
    BY <2>1 DEF Stray, Returns
  <2> QED
    BY <1>1, <2>2, <2>3, <2>4 DEF TableInv
<1>8. CASE table_size \/ table_get_keys
  <2>1. lists' = lists /\ running' = running /\ answer'.call[1] \in {"size", "get_keys"}
    BY <1>8 DEF table_size, table_get_keys, Returns
  <2> QED
    BY <1>1, <2>1 DEF TableInv
<1> QED
  BY <1>2, <1>3, <1>4, <1>5, <1>6, <1>7, <1>8 DEF Next

(* In every state each list is good: its keys are in order, belong to it, and are
   as many as its size says, after any calls of table_put, table_del and the
   others. *)
THEOREM TableInvariant == Spec => []TableInv
<1>1. Init => TableInv
  BY InitEffect DEF Init, TableInv
<1>2. TableInv /\ [Next]_vars => TableInv'
  BY TableStep
<1> QED
  BY <1>1, <1>2, PTL DEF Spec

(* The lists are lists of entries, and the flags what they should be. *)
THEOREM TypeCorrect == Spec => []TypeOK
<1>1. TableInv => TypeOK
  BY DEF TableInv, AllGood, Indexed, Good, Lists, TypeOK
<1> QED
  BY <1>1, TableInvariant, PTL

(* Whatever calls came before, list_add and list_remove kept every list
   sorted, and no key is in a list that is not its own. *)
THEOREM Ordered == Spec => []ListsOrdered
<1>1. ASSUME TableInv, NEW i \in Index
      PROVE  /\ \A j \in DOMAIN lists[i].nodes : hash_function(lists[i].nodes[j].key) = i
             /\ \A j \in 1 .. Len(lists[i].nodes) - 1 :
                  lists[i].nodes[j].key < lists[i].nodes[j + 1].key
  <2> DEFINE q == lists[i].nodes
  <2>1. Good(lists[i], i)
    BY <1>1 DEF TableInv, AllGood
  <2>2. q \in Seq(Entry) /\ Len(q) \in Nat
    BY <2>1, NodesOf
  <2>3. \A j \in DOMAIN q : hash_function(q[j].key) = i
    BY <2>1, <2>2 DEF Good
  <2>4. \A j, m \in 1 .. Len(q) : j < m => q[j].key < q[m].key
    BY <2>1 DEF Good, Ascending
  <2> HIDE DEF q
  <2>5. \A j \in 1 .. Len(q) - 1 : q[j].key < q[j + 1].key
    BY <2>2, <2>4
  <2> QED
    BY <2>3, <2>5 DEF q
<1>2. TableInv => ListsOrdered
  BY <1>1 DEF ListsOrdered
<1> QED
  BY <1>2, TableInvariant, PTL

(* The size that list_add and list_remove count is the number of nodes. *)
THEOREM Sizes == Spec => []SizesExact
<1>1. TableInv => SizesExact
  BY DEF TableInv, AllGood, Good, SizesExact
<1> QED
  BY <1>1, TableInvariant, PTL
-----------------------------------------------------------------------------
(* Counting: s names every member of S once. *)
Enumerates(s, S) ==
  /\ s \in Seq(S)
  /\ \A i, j \in 1 .. Len(s) : s[i] = s[j] => i = j
  /\ \A x \in S : \E i \in 1 .. Len(s) : s[i] = x

LEMMA EnumerationCounts ==
  ASSUME NEW S, NEW s, Enumerates(s, S)
  PROVE  /\ IsFiniteSet(S) /\ Cardinality(S) = Len(s) /\ Len(s) \in Nat
         /\ s \in SetToSeqs(S)
<1> DEFINE n == Len(s)
<1>1. s \in Seq(S) /\ n \in Nat /\ s \in [1 .. n -> S]
  BY DEF Enumerates
<1>2. \A i, j \in 1 .. n : s[i] = s[j] => i = j
  BY DEF Enumerates
<1>3. \A x \in S : \E i \in 1 .. n : s[i] = x
  BY DEF Enumerates
<1> HIDE DEF n
<1>4. s \in Bijection(1 .. n, S)
  BY <1>1, <1>2, <1>3 DEF Bijection, Injection, Surjection, IsInjective
<1>5. ExistsBijection(1 .. n, S)
  BY <1>4 DEF ExistsBijection
<1>6. Cardinality(S) = n
  BY <1>1, <1>5, FS_CountingElements
<1>7. IsFiniteSet(S)
  BY <1>1, <1>5, FS_NatBijection
<1>8. s \in SetToSeqs(S)
  BY <1>1, <1>2, <1>6 DEF SetToSeqs
<1> QED
  BY <1>1, <1>6, <1>7, <1>8 DEF n

LEMMA EnumerationsJoin ==
  ASSUME NEW A, NEW B, NEW a, NEW b, Enumerates(a, A), Enumerates(b, B),
         \A x \in A : x \notin B
  PROVE  Enumerates(a \o b, A \cup B)
<1> DEFINE m == Len(a)
           n == Len(b)
           c == a \o b
<1>1. /\ m \in Nat /\ n \in Nat
      /\ a \in Seq(A \cup B) /\ b \in Seq(A \cup B)
  BY DEF Enumerates
<1>2. /\ \A i \in 1 .. m : a[i] \in A
      /\ \A i \in 1 .. n : b[i] \in B
      /\ \A i, j \in 1 .. m : a[i] = a[j] => i = j
      /\ \A i, j \in 1 .. n : b[i] = b[j] => i = j
      /\ \A x \in A : \E i \in 1 .. m : a[i] = x
      /\ \A x \in B : \E i \in 1 .. n : b[i] = x
  BY DEF Enumerates
<1>3. /\ c \in Seq(A \cup B) /\ Len(c) = m + n
      /\ \A j \in 1 .. m : c[j] = a[j]
      /\ \A j \in Nat : j > m /\ j <= m + n => c[j] = b[j - m]
  BY <1>1, ConcatNodes
<1> HIDE DEF m, n, c
<1>4. \A i \in 1 .. m + n : i > m => i - m \in 1 .. n /\ c[i] = b[i - m]
  BY <1>1, <1>3
<1>5. \A i \in 1 .. m + n : ~ (i > m) => i \in 1 .. m /\ c[i] = a[i]
  BY <1>1, <1>3
<1>6. ASSUME NEW i \in 1 .. m + n, NEW j \in 1 .. m + n, c[i] = c[j]
      PROVE  i = j
  <2>1. CASE i > m /\ j > m
    <3>1. i - m = j - m
      BY <1>2, <1>4, <1>6, <2>1
    <3> QED
      BY <1>1, <3>1
  <2>2. CASE ~ (i > m) /\ ~ (j > m)
    BY <1>2, <1>5, <1>6, <2>2
  <2>3. CASE i > m /\ ~ (j > m)
    <3>1. c[i] \in B /\ c[j] \in A
      BY <1>2, <1>4, <1>5, <2>3
    <3> QED
      BY <1>6, <3>1
  <2>4. CASE ~ (i > m) /\ j > m
    <3>1. c[i] \in A /\ c[j] \in B
      BY <1>2, <1>4, <1>5, <2>4
    <3> QED
      BY <1>6, <3>1
  <2> QED
    BY <2>1, <2>2, <2>3, <2>4
<1>7. ASSUME NEW x \in A \cup B
      PROVE  \E i \in 1 .. m + n : c[i] = x
  <2>1. CASE x \in A
    <3>1. PICK i \in 1 .. m : a[i] = x
      BY <1>2, <2>1
    <3>2. i \in 1 .. m + n /\ c[i] = x
      BY <1>1, <1>3, <3>1
    <3> QED
      BY <3>2
  <2>2. CASE x \in B
    <3>1. PICK i \in 1 .. n : b[i] = x
      BY <1>2, <2>2
    <3>2. m + i \in 1 .. m + n /\ (m + i) - m = i /\ m + i > m
      BY <1>1
    <3>3. c[m + i] = x
      BY <1>4, <3>1, <3>2
    <3> QED
      BY <3>2, <3>3
  <2> QED
    BY <2>1, <2>2
<1> QED
  BY <1>3, <1>6, <1>7 DEF Enumerates, c

(* The keys that a table holds in its list i, and in its first m lists. *)
KeysIn(t, i) == {k \in Key : hash_function(k) = i /\ Val(t[i], k) # NULL}
KeysBefore(t, m) == {k \in Key : hash_function(k) \in 0 .. m - 1 /\ At(t, k) # NULL}

LEMMA ListKeys ==
  ASSUME NEW t, AllGood(t), NEW i \in Index
  PROVE  /\ Enumerates(list_get_keys(t[i]), KeysIn(t, i))
         /\ Len(list_get_keys(t[i])) = t[i].size
<1> DEFINE l == t[i]
           q == l.nodes
           n == Len(q)
           s == [j \in 1 .. n |-> q[j].key]
           K == KeysIn(t, i)
<1>1. Good(l, i)
  BY DEF AllGood
<1> HIDE DEF l
<1>2. /\ q \in Seq(Entry) /\ n \in Nat /\ l.size = n
      /\ \A j \in 1 .. n : q[j] \in Entry /\ hash_function(q[j].key) = i
      /\ \A j, m \in 1 .. n : q[j].key = q[m].key => j = m
  BY <1>1, NodesOf DEF Good
<1>3. list_get_keys(l) = s
  BY <1>2 DEF list_get_keys
<1>4. Len(s) = n /\ \A j \in 1 .. n : s[j] = q[j].key
  BY <1>2
<1>5. K = {k \in Key : hash_function(k) = i /\ Val(l, k) # NULL}
  BY DEF KeysIn, l
<1>6. ASSUME NEW j \in 1 .. n
      PROVE  q[j].key \in K
  <2>1. Val(l, q[j].key) = q[j].block
    BY <1>1, ValIs
  <2>2. q[j].key \in Key /\ q[j].block \in Block
    BY <1>2, KeysNatural
  <2> QED
    BY <1>2, <1>5, <2>1, <2>2, TableAssumption
<1>7. ASSUME NEW k \in K
      PROVE  \E j \in 1 .. n : q[j].key = k
  <2>1. Val(l, k) # NULL
    BY <1>5
  <2> QED
    BY <1>1, <2>1, ValIs
<1>8. Enumerates(s, K)
  <2> HIDE DEF K, q, n
  <2>1. s \in Seq(K)
    BY <1>2, <1>4, <1>6
  <2> HIDE DEF s
  <2>2. \A j, m \in 1 .. Len(s) : s[j] = s[m] => j = m
    BY <1>2, <1>4
  <2>3. ASSUME NEW k \in K
        PROVE  \E j \in 1 .. Len(s) : s[j] = k
    <3>1. PICK j \in 1 .. n : q[j].key = k
      BY <1>7
    <3> QED
      BY <1>4, <3>1
  <2> QED
    BY <2>1, <2>2, <2>3 DEF Enumerates
<1> QED
  BY <1>2, <1>3, <1>4, <1>8 DEF l

LEMMA KeysBeforeNext ==
  ASSUME NEW t, AllGood(t), NEW m \in 1 .. n_lists
  PROVE  /\ m - 1 \in Index
         /\ KeysBefore(t, m) = KeysBefore(t, m - 1) \cup KeysIn(t, m - 1)
         /\ \A k \in KeysBefore(t, m - 1) : k \notin KeysIn(t, m - 1)
<1>1. n_lists \in Nat
  BY TableAssumption
<1>2. /\ m - 1 \in Index
      /\ \A h : h \in 0 .. m - 1 <=> h \in 0 .. (m - 1) - 1 \/ h = m - 1
      /\ m - 1 \notin 0 .. (m - 1) - 1
  BY <1>1 DEF Index
<1>3. \A k : hash_function(k) = m - 1 => At(t, k) = Val(t[m - 1], k)
  BY <1>2 DEF At
<1> QED
  BY <1>2, <1>3 DEF KeysBefore, KeysIn

LEMMA KeysBeforeAll ==
  ASSUME NEW t
  PROVE  /\ KeysBefore(t, 0) = {}
         /\ KeysBefore(t, n_lists) = {k \in Key : At(t, k) # NULL}
<1>1. \A h : h \notin 0 .. 0 - 1
  OBVIOUS
<1>2. KeysBefore(t, 0) = {}
  BY <1>1 DEF KeysBefore
<1>3. KeysBefore(t, n_lists) = {k \in Key : At(t, k) # NULL}
  BY DEF KeysBefore, At, Index
<1> QED
  BY <1>2, <1>3

(* table_get_keys: the keys of the lists, one list after the other. *)
LEMMA KeysOnce ==
  ASSUME NEW t, AllGood(t)
  PROVE  Enumerates(FlattenSeq([i \in 1 .. n_lists |-> list_get_keys(t[i - 1])]),
                    {k \in Key : At(t, k) # NULL})
<1> DEFINE n == n_lists
           segs == [i \in 1 .. n |-> list_get_keys(t[i - 1])]
           Flat(g) == g = [i \in 1 .. Len(segs) |->
                             IF i = 1 THEN segs[i] ELSE g[i - 1] \o segs[i]]
           f == CHOOSE g : Flat(g)
           X == Seq(Key)
<1>1. n \in Nat /\ n # 0 /\ Len(segs) = n
  BY TableAssumption
<1>2. FlattenSeq(segs) = f[n]
  BY <1>1 DEF FlattenSeq
<1>3. ASSUME NEW i \in 1 .. n
      PROVE  Enumerates(segs[i], KeysIn(t, i - 1)) /\ segs[i] \in X
  <2>1. Enumerates(segs[i], KeysIn(t, i - 1))
    <3>1. segs[i] = list_get_keys(t[i - 1])
      OBVIOUS
    <3> HIDE DEF segs
    <3> QED
      BY <3>1, KeysBeforeNext, ListKeys
  <2> HIDE DEF segs
  <2>2. segs[i] \in Seq(KeysIn(t, i - 1)) /\ KeysIn(t, i - 1) \subseteq Key
    BY <2>1 DEF Enumerates, KeysIn
  <2> QED
    BY <2>1, <2>2
<1> HIDE DEF n, segs
<1>4. \E g : Flat(g)
  <2> DEFINE step == [j \in 1 .. n - 1 |-> [x \in X |-> x \o segs[j + 1]]]
  <2>1. \A j \in 1 .. n - 1 : segs[j + 1] \in X
    BY <1>1, <1>3
  <2>2. step \in [1 .. n - 1 -> [X -> X]]
    BY <2>1
  <2>3. \A j \in 1 .. n - 1 : \A x \in X : step[j][x] = x \o segs[j + 1]
    OBVIOUS
  <2>4. segs[1] \in X /\ n - 1 \in Nat
    BY <1>1, <1>3
  <2> HIDE DEF step, X
  <2>5. PICK g \in [0 .. n - 1 -> X] :
          g[0] = segs[1] /\ \A j \in 1 .. n - 1 : g[j] = step[j][g[j - 1]]
    <3>1. \E g : IsLoop(g, n - 1, X, segs[1], step)
      BY <2>2, <2>4, Recursion
    <3> QED
      BY <3>1 DEF IsLoop
  <2> DEFINE d == [i \in 1 .. n |-> g[i - 1]]
  <2>6. ASSUME NEW i \in 1 .. n
        PROVE  d[i] = IF i = 1 THEN segs[i] ELSE d[i - 1] \o segs[i]
    <3>1. CASE i = 1
      BY <1>1, <2>5, <3>1
    <3>2. CASE i # 1
      <4>1. i - 1 \in 1 .. n - 1 /\ (i - 1) - 1 \in 0 .. n - 1 /\ (i - 1) + 1 = i
        BY <1>1, <3>2
      <4>2. g[(i - 1) - 1] \in X /\ g[i - 1] = step[i - 1][g[(i - 1) - 1]]
        BY <2>5, <4>1
      <4>3. g[i - 1] = g[(i - 1) - 1] \o segs[i]
        BY <2>3, <4>1, <4>2
      <4>4. d[i] = g[i - 1] /\ d[i - 1] = g[(i - 1) - 1]
        BY <1>1, <3>2
      <4> QED
        BY <3>2, <4>3, <4>4
    <3> QED
      BY <3>1, <3>2
  <2>7. d = [i \in 1 .. n |-> d[i]]
    OBVIOUS
  <2> HIDE DEF d
  <2>8. d = [i \in 1 .. n |-> IF i = 1 THEN segs[i] ELSE d[i - 1] \o segs[i]]
    BY <2>6, <2>7
  <2> QED
    BY <1>1, <2>8
<1>5. Flat(f)
  BY <1>4
<1> HIDE DEF f
<1>6. /\ f[1] = segs[1]
      /\ \A i \in 1 .. n : i # 1 => f[i] = f[i - 1] \o segs[i]
  <2>1. f = [i \in 1 .. n |-> IF i = 1 THEN segs[i] ELSE f[i - 1] \o segs[i]]
    BY <1>1, <1>5
  <2>2. 1 \in 1 .. n
    BY <1>1
  <2>3. f[1] = segs[1]
    BY <2>1, <2>2
  <2>4. ASSUME NEW i \in 1 .. n, i # 1
        PROVE  f[i] = f[i - 1] \o segs[i]
    BY <2>1, <2>4
  <2> QED
    BY <2>3, <2>4
<1> DEFINE P == {j \in 0 .. n - 1 : Enumerates(f[j + 1], KeysBefore(t, j + 1))}
<1>7. 0 \in P
  <2>1. KeysBefore(t, 1) = KeysIn(t, 0)
    <3>1. 1 \in 1 .. n_lists /\ 1 - 1 = 0
      BY <1>1 DEF n
    <3>2. KeysBefore(t, 1) = KeysBefore(t, 1 - 1) \cup KeysIn(t, 1 - 1)
      BY <3>1, KeysBeforeNext
    <3>3. KeysBefore(t, 1) = {} \cup KeysIn(t, 0)
      BY <3>1, <3>2, KeysBeforeAll
    <3> QED
      BY <3>3
  <2>2. Enumerates(segs[1], KeysIn(t, 1 - 1))
    BY <1>1, <1>3
  <2>3. 1 - 1 = 0 /\ 0 + 1 = 1 /\ 0 \in 0 .. n - 1
    BY <1>1
  <2> QED
    BY <1>6, <2>1, <2>2, <2>3
<1>8. ASSUME NEW j \in 1 .. n - 1, j - 1 \in P
      PROVE  j \in P
  <2>1. /\ j + 1 \in 1 .. n /\ j + 1 # 1 /\ (j + 1) - 1 = j /\ (j - 1) + 1 = j
        /\ j \in 0 .. n - 1
    BY <1>1
  <2>2. f[j + 1] = f[j] \o segs[j + 1]
    BY <1>6, <2>1
  <2>3. Enumerates(f[j], KeysBefore(t, j))
    BY <1>8, <2>1
  <2>4. Enumerates(segs[j + 1], KeysIn(t, j))
    BY <1>3, <2>1
  <2>5. /\ KeysBefore(t, j + 1) = KeysBefore(t, j) \cup KeysIn(t, j)
        /\ \A k \in KeysBefore(t, j) : k \notin KeysIn(t, j)
    <3>1. j + 1 \in 1 .. n_lists
      BY <2>1 DEF n
    <3>2. /\ KeysBefore(t, j + 1) =
               KeysBefore(t, (j + 1) - 1) \cup KeysIn(t, (j + 1) - 1)
          /\ \A k \in KeysBefore(t, (j + 1) - 1) : k \notin KeysIn(t, (j + 1) - 1)
      BY <3>1, KeysBeforeNext
    <3> QED
      BY <2>1, <3>2
  <2>6. Enumerates(f[j] \o segs[j + 1], KeysBefore(t, j) \cup KeysIn(t, j))
    BY <2>3, <2>4, <2>5, EnumerationsJoin
  <2> QED
    BY <2>1, <2>2, <2>5, <2>6
<1> HIDE DEF P
<1>9. n - 1 \in P
  <2>1. n - 1 \in Nat /\ n - 1 \in 0 .. n - 1
    BY <1>1
  <2>2. \A j \in 0 .. n - 1 : j \in P
    BY <1>7, <1>8, <2>1, UpTo
  <2> QED
    BY <2>1, <2>2
<1>10. Enumerates(f[n], KeysBefore(t, n))
  <2>1. (n - 1) + 1 = n
    BY <1>1
  <2> QED
    BY <1>9, <2>1 DEF P
<1> QED
  BY <1>2, <1>10, KeysBeforeAll DEF segs, n

(* table_size: the sizes of the lists make the number of the keys. *)
LEMMA SizesAdd ==
  ASSUME NEW t, AllGood(t)
  PROVE  LET sum[m \in 0 .. n_lists] ==
               IF m = 0 THEN 0 ELSE sum[m - 1] + t[m - 1].size
         IN  sum[n_lists] = Cardinality({k \in Key : At(t, k) # NULL})
<1> DEFINE n == n_lists
           Adds(g) == g = [m \in 0 .. n |-> IF m = 0 THEN 0 ELSE g[m - 1] + t[m - 1].size]
           f == CHOOSE g : Adds(g)
<1>1. n \in Nat
  BY TableAssumption
<1>2. ASSUME NEW m \in 1 .. n
      PROVE  /\ t[m - 1].size \in Nat
             /\ IsFiniteSet(KeysIn(t, m - 1))
             /\ Cardinality(KeysIn(t, m - 1)) = t[m - 1].size
  <2>1. m - 1 \in Index
    BY KeysBeforeNext
  <2>2. /\ Enumerates(list_get_keys(t[m - 1]), KeysIn(t, m - 1))
        /\ Len(list_get_keys(t[m - 1])) = t[m - 1].size
    BY <2>1, ListKeys
  <2> QED
    BY <2>2, EnumerationCounts
<1> HIDE DEF n
<1>3. \E g : Adds(g)
  <2> DEFINE step == [m \in 1 .. n |-> [x \in Nat |-> x + t[m - 1].size]]
  <2>1. step \in [1 .. n -> [Nat -> Nat]]
    BY <1>2
  <2>2. \A m \in 1 .. n : \A x \in Nat : step[m][x] = x + t[m - 1].size
    OBVIOUS
  <2> HIDE DEF step
  <2>3. PICK g \in [0 .. n -> Nat] : g[0] = 0 /\ \A m \in 1 .. n : g[m] = step[m][g[m - 1]]
    <3>1. \E g : IsLoop(g, n, Nat, 0, step)
      BY <1>1, <2>1, Recursion
    <3> QED
      BY <3>1 DEF IsLoop
  <2>4. ASSUME NEW m \in 0 .. n
        PROVE  g[m] = IF m = 0 THEN 0 ELSE g[m - 1] + t[m - 1].size
    <3>1. CASE m = 0
      BY <2>3, <3>1
    <3>2. CASE m # 0
      <4>1. m \in 1 .. n /\ m - 1 \in 0 .. n
        BY <1>1, <3>2
      <4>2. g[m - 1] \in Nat /\ g[m] = step[m][g[m - 1]]
        BY <2>3, <4>1
      <4> QED
        BY <2>2, <3>2, <4>1, <4>2
    <3> QED
      BY <3>1, <3>2
  <2>5. g = [m \in 0 .. n |-> IF m = 0 THEN 0 ELSE g[m - 1] + t[m - 1].size]
    BY <2>3, <2>4
  <2> QED
    BY <2>5
<1>4. Adds(f)
  BY <1>3
<1> HIDE DEF f
<1>5. f[0] = 0 /\ \A m \in 1 .. n : f[m] = f[m - 1] + t[m - 1].size
  BY <1>1, <1>4
<1> DEFINE P == {m \in 0 .. n : /\ IsFiniteSet(KeysBefore(t, m))
                                /\ f[m] = Cardinality(KeysBefore(t, m))}
<1>6. 0 \in P
  BY <1>1, <1>5, KeysBeforeAll, FS_EmptySet
<1>7. ASSUME NEW m \in 1 .. n, m - 1 \in P
      PROVE  m \in P
  <2> DEFINE A == KeysBefore(t, m - 1)
             B == KeysIn(t, m - 1)
  <2>1. IsFiniteSet(A) /\ f[m - 1] = Cardinality(A)
    BY <1>7
  <2>2. IsFiniteSet(B) /\ f[m] = f[m - 1] + Cardinality(B)
    BY <1>2, <1>5
  <2>3. KeysBefore(t, m) = A \cup B /\ A \cap B = {}
    <3>1. m \in 1 .. n_lists
      BY DEF n
    <3> QED
      BY <3>1, KeysBeforeNext
  <2>4. m \in 0 .. n
    BY <1>1
  <2> HIDE DEF A, B
  <2>5. IsFiniteSet(A \cup B) /\ Cardinality(A \cup B) = f[m]
    <3>1. /\ IsFiniteSet(A \cup B)
          /\ Cardinality(A \cup B) = Cardinality(A) + Cardinality(B) - Cardinality(A \cap B)
      BY <2>1, <2>2, FS_Union
    <3>2. Cardinality(A) \in Nat /\ Cardinality(B) \in Nat /\ Cardinality(A \cap B) = 0
      BY <2>1, <2>2, <2>3, FS_CardinalityType, FS_EmptySet
    <3> QED
      BY <2>1, <2>2, <3>1, <3>2
  <2> QED
    BY <2>3, <2>4, <2>5
<1> HIDE DEF P
<1>8. n \in P
  <2>1. \A m \in 0 .. n : m \in P
    BY <1>1, <1>6, <1>7, UpTo
  <2> QED
    BY <1>1, <2>1
<1>9. f[n] = Cardinality({k \in Key : At(t, k) # NULL})
  BY <1>8, KeysBeforeAll DEF P, n
<1> QED
  BY <1>9 DEF f, n
-----------------------------------------------------------------------------
(* The refinement: map[k] is what At has for k. *)
LEMMA LookupIs ==
  /\ \A k : Lookup(k) = At(lists, k)
  /\ \A k : Lookup(k)' = At(lists', k)
  BY DEF Lookup, At, Val

LEMMA DictionaryInit == Init => D!Init
<1>1. ASSUME Init
      PROVE  /\ [k \in Key |-> Lookup(k)] = [k \in Key |-> NULL]
             /\ running = TRUE /\ answer = [call |-> <<"create">>, ret |-> 0]
  BY <1>1, InitEffect, LookupIs DEF Init
<1> QED
  BY <1>1 DEF D!Init

LEMMA PutRefines ==
  ASSUME AllGood(lists), NEW k \in Key, NEW b \in Block, table_put(k, b)
  PROVE  D!Put(k, b) /\ UNCHANGED running
<1>1. \A j \in Key : Lookup(j)' = IF j = k THEN b ELSE Lookup(j)
  BY PutEffect, LookupIs
<1>2. [j \in Key |-> Lookup(j)]' = [[j \in Key |-> Lookup(j)] EXCEPT ![k] = b]
  BY <1>1
<1>3. answer' = [call |-> <<"put", k, b>>, ret |-> 0] /\ running' = running
  BY DEF table_put, Returns
<1> QED
  BY <1>2, <1>3 DEF D!Put, D!Returns

LEMMA RemoveRefines ==
  ASSUME AllGood(lists), NEW k \in Key, table_remove(k)
  PROVE  D!Delete(k) /\ UNCHANGED running
<1> DEFINE h == hash_function(k)
<1>1. \A j \in Key : Lookup(j)' = IF j = k THEN NULL ELSE Lookup(j)
  BY RemoveEffect, LookupIs
<1>2. [j \in Key |-> Lookup(j)]' = [[j \in Key |-> Lookup(j)] EXCEPT ![k] = NULL]
  BY <1>1
<1>3. h \in Index /\ Good(lists[h], h)
  BY DEF table_remove, AllGood
<1>4. list_get(lists[h], k) = NULL <=> Lookup(k) = NULL
  <2>1. list_get(lists[h], k) = NULL <=> Val(lists[h], k) = NULL
    BY <1>3, ValIs
  <2> QED
    BY <1>3, <2>1, LookupIs DEF At
<1>5. /\ answer' = [call |-> <<"remove", k>>,
                    ret  |-> IF list_get(lists[h], k) = NULL THEN 1 ELSE 0]
      /\ running' = running
  BY DEF table_remove, Returns
<1>6. [j \in Key |-> Lookup(j)][k] = Lookup(k)
  OBVIOUS
<1> QED
  BY <1>2, <1>4, <1>5, <1>6 DEF D!Delete, D!Returns

LEMMA SameMap ==
  ASSUME lists' = lists
  PROVE  [j \in Key |-> Lookup(j)]' = [j \in Key |-> Lookup(j)]
<1>1. \A j : Lookup(j)' = Lookup(j)
  BY LookupIs
<1> QED
  BY <1>1

LEMMA GetRefines ==
  ASSUME NEW k \in Key, table_get(k)
  PROVE  D!Get(k) /\ UNCHANGED running
<1> DEFINE h == hash_function(k)
<1>1. [j \in Key |-> Lookup(j)]' = [j \in Key |-> Lookup(j)] /\ running' = running
  BY SameMap DEF table_get
<1>2. answer' = [call |-> <<"get", k>>, ret |-> Lookup(k)]
  <2>1. h \in Index
    BY DEF table_get
  <2>2. answer' = [call |-> <<"get", k>>, ret |-> Val(lists[h], k)]
    BY DEF table_get, Returns, Val
  <2> QED
    BY <2>1, <2>2, LookupIs DEF At
<1> QED
  BY <1>1, <1>2 DEF D!Get, D!Returns

LEMMA PutNullRefines ==
  ASSUME NEW k \in Key, table_put_null(k)
  PROVE  D!PutNothing(k) /\ UNCHANGED running
<1>1. [j \in Key |-> Lookup(j)]' = [j \in Key |-> Lookup(j)] /\ running' = running
  BY SameMap DEF table_put_null
<1> QED
  BY <1>1 DEF table_put_null, Returns, D!PutNothing, D!Returns

LEMMA StrayRefines ==
  ASSUME NEW k \in Key, Stray(k)
  PROVE  D!Refuse(k)
<1>1. [j \in Key |-> Lookup(j)]' = [j \in Key |-> Lookup(j)]
  BY SameMap DEF Stray
<1>2. k \in {j \in Key : hash_function(j) \notin Index}
  BY DEF Stray
<1> QED
  BY <1>1, <1>2 DEF Stray, Returns, D!Refuse, D!Returns

LEMMA DestroyRefines ==
  ASSUME AllGood(lists), table_destroy
  PROVE  D!Destroy
<1>1. [j \in Key |-> Lookup(j)]' = [j \in Key |-> NULL]
  BY DestroyEffect, LookupIs
<1>2. \E r \in {0, -1} : answer' = [call |-> <<"destroy">>, ret |-> r]
  BY DEF table_destroy, Returns
<1>3. running' = FALSE
  BY DEF table_destroy
<1> QED
  BY <1>1, <1>2, <1>3 DEF D!Destroy, D!Returns

(* Dictionary has the operators of the library under names of its own. *)
LEMMA SameCardinality == \A S : D!Cardinality(S) = Cardinality(S)
  BY DEF D!Cardinality, Cardinality

LEMMA SameSetToSeqs == \A S : D!SetToSeqs(S) = SetToSeqs(S)
  BY SameCardinality DEF D!SetToSeqs, SetToSeqs

LEMMA SizeRefines ==
  ASSUME AllGood(lists), table_size
  PROVE  D!Size /\ UNCHANGED running
<1>1. [j \in Key |-> Lookup(j)]' = [j \in Key |-> Lookup(j)] /\ running' = running
  BY SameMap DEF table_size
<1>2. D!Keys = {k \in Key : At(lists, k) # NULL}
  BY LookupIs DEF D!Keys
<1>3. answer' = [call |-> <<"size">>,
                 ret  |-> Cardinality({k \in Key : At(lists, k) # NULL})]
  BY SizesAdd DEF table_size, Returns
<1> QED
  BY <1>1, <1>2, <1>3, SameCardinality DEF D!Size, D!Returns

LEMMA GetKeysRefines ==
  ASSUME AllGood(lists), table_get_keys
  PROVE  D!GetKeys /\ UNCHANGED running
<1>1. [j \in Key |-> Lookup(j)]' = [j \in Key |-> Lookup(j)] /\ running' = running
  BY SameMap DEF table_get_keys
<1>2. D!Keys = {k \in Key : At(lists, k) # NULL}
  BY LookupIs DEF D!Keys
<1>3. AllKeys \in SetToSeqs({k \in Key : At(lists, k) # NULL})
  <2>1. Enumerates(AllKeys, {k \in Key : At(lists, k) # NULL})
    BY KeysOnce DEF AllKeys
  <2> QED
    BY <2>1, EnumerationCounts
<1>4. answer' = [call |-> <<"get_keys">>, ret |-> AllKeys]
  BY DEF table_get_keys, Returns
<1> QED
  BY <1>1, <1>2, <1>3, <1>4, SameSetToSeqs DEF D!GetKeys

LEMMA TableRefines ==
  ASSUME TableInv, [Next]_vars
  PROVE  [D!Next]_D!dvars
<1>1. AllGood(lists)
  BY DEF TableInv
<1>2. CASE UNCHANGED vars
  BY <1>2, SameMap DEF vars, D!dvars
<1>3. CASE Next
  <2>1. running
    BY <1>3 DEF Next
  <2>2. CASE \E k \in Key, b \in Block : table_put(k, b)
    BY <1>1, <2>1, <2>2, PutRefines DEF D!Next
  <2>3. CASE \E k \in Key : table_put_null(k)
    BY <2>1, <2>3, PutNullRefines DEF D!Next
  <2>4. CASE \E k \in Key : table_get(k)
    BY <2>1, <2>4, GetRefines DEF D!Next
  <2>5. CASE \E k \in Key : table_remove(k)
    BY <1>1, <2>1, <2>5, RemoveRefines DEF D!Next
  <2>6. CASE \E k \in Key : Stray(k)
    BY <2>1, <2>6, StrayRefines DEF D!Next
  <2>7. CASE table_size
    BY <1>1, <2>1, <2>7, SizeRefines DEF D!Next
  <2>8. CASE table_get_keys
    BY <1>1, <2>1, <2>8, GetKeysRefines DEF D!Next
  <2>9. CASE table_destroy
    BY <1>1, <2>1, <2>9, DestroyRefines DEF D!Next
  <2> QED
    BY <1>3, <2>2, <2>3, <2>4, <2>5, <2>6, <2>7, <2>8, <2>9 DEF Next
<1> QED
  BY <1>2, <1>3

(* Whatever collides and however many lists there are, the lists together are
   the dictionary that table.h promises: every call of table.c returns and
   changes what a call of the dictionary does. *)
THEOREM Implements == Spec => IsDictionary
<1>1. Init => D!Init
  BY DictionaryInit
<1>2. TableInv /\ [Next]_vars => [D!Next]_D!dvars
  BY TableRefines
<1> QED
  BY <1>1, <1>2, TableInvariant, PTL DEF Spec, IsDictionary, D!Spec
=============================================================================
