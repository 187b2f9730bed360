---------------------------- MODULE Heap_proofs ----------------------------
(***************************************************************************)
(* Proof that the heap is a bag that gives its least entry, for any number *)
(* of entries, any priorities and any size of the array.                   *)
(*                                                                         *)
(* The argument: no entry comes after its children, except at the place    *)
(* the loop has come to.  Towards the root that place may be less than its *)
(* parent, away from the root it may be more than its children; in both    *)
(* cases its parent and its children are in order, so that a swap moves    *)
(* the exception and makes no other.  The root is the least of all since   *)
(* the first entry that is less would have a parent that is less.          *)
(***************************************************************************)
EXTENDS Heap, WellFoundedInduction, TLAPS

Le(i, j) == Priority[data[i]] <= Priority[data[j]]

TypeOK == /\ len \in Nat /\ cap \in Nat /\ len <= cap
          /\ data \in [0..(cap - 1) -> Entries \cup {None}]
          /\ \A i \in 0..(len - 1) : data[i] \in Entries
          /\ call \in {"none", "insert", "remove", "up"}
          /\ k \in Nat /\ (k < len \/ k = 0)
          /\ call = "insert" => k < len
          /\ call \in {"none", "remove"} => k = 0
          /\ nfails \in Nat

Distinct == \A i, j \in 0..(len - 1) : data[i] = data[j] => i = j

\* The pair of i and its parent that the loop has yet to look at.
Open(i) == \/ call = "insert" /\ i = k
           \/ call \in {"remove", "up"} /\ Parent(i) = k

Ordered == \A i \in 1..(len - 1) : Open(i) \/ Le(Parent(i), i)

Bridged == call # "none" /\ k > 0 =>
             \A i \in 1..(len - 1) : Parent(i) = k => Le(Parent(k), i)

IInv == TypeOK /\ Distinct /\ Ordered /\ Bridged
-----------------------------------------------------------------------------
USE PriorityAssumption, BoundsAssumption

\* Every place but the root is a child of its parent, which comes before it.
LEMMA ParentFacts ==
  ASSUME NEW i \in Nat, i > 0
  PROVE  /\ Parent(i) \in Nat /\ Parent(i) < i
         /\ i = 2 * Parent(i) + 1 \/ i = 2 * Parent(i) + 2
BY DEF Parent

LEMMA ChildFacts ==
  ASSUME NEW i \in Nat
  PROVE  Parent(2 * i + 1) = i /\ Parent(2 * i + 2) = i
BY DEF Parent

\* The smallest of a place and its children.
LEMMA SmallestFacts ==
  ASSUME NEW n \in Nat, NEW i \in Nat, NEW h,
         \A c \in {i, 2 * i + 1, 2 * i + 2} : c < n => h[c] \in Entries,
         i < n \/ i = 0
  PROVE  LET s == Smallest(h, n, i)
         IN  /\ s \in Nat
             /\ s # i => /\ s \in {2 * i + 1, 2 * i + 2} /\ s < n
                         /\ Less(h[s], h[i])
             /\ n > 0 => \A c \in {2 * i + 1, 2 * i + 2} :
                            c < n => Priority[h[s]] <= Priority[h[c]]
<1>1. CASE n = 0
  BY <1>1 DEF Smallest
<1>2. CASE i < n
  <2>1. \A c \in {i, 2 * i + 1, 2 * i + 2} : c < n => Priority[h[c]] \in Int
    BY <1>2
  <2> QED  BY <1>2, <2>1 DEF Smallest, Less
<1> QED  BY <1>1, <1>2

\* In every set of places there is a first one.
Before == {ss \in Nat \X Nat : ss[1] < ss[2]}

LEMMA BeforeIsWellFounded == IsWellFoundedOn(Before, Nat)
BY NatLessThanWellFounded DEF OpToRel, Before

\* The root is the least: the first place with an entry that is less would be
\* a child of a place with an entry that is less.
LEMMA RootIsLeast ==
  ASSUME IInv, call = "none", NEW j \in 0..(len - 1)
  PROVE  Le(0, j)
<1> DEFINE Lower == {i \in 0..(len - 1) : Priority[data[i]] < Priority[data[0]]}
<1>1. \A i \in 0..(len - 1) : Priority[data[i]] \in Int
  BY DEF IInv, TypeOK
<1>2. CASE Lower = {}
  BY <1>1, <1>2 DEF Le, IInv, TypeOK
<1>3. CASE Lower # {}
  <2>1. Lower \subseteq Nat
    BY DEF IInv, TypeOK
  <2>2. PICK m \in Lower : \A i \in Lower : <<i, m>> \notin Before
    BY <1>3, <2>1, BeforeIsWellFounded, WFMin
  <2>3. \A i \in Lower : ~(i < m)
    BY <2>1, <2>2 DEF Before
  <2>4. m \in Nat /\ m > 0 /\ m < len /\ Priority[data[m]] < Priority[data[0]]
    BY <1>1 DEF IInv, TypeOK
  <2>5. Le(Parent(m), m)
    BY <2>4 DEF IInv, Ordered, Open, TypeOK
  <2>6. Parent(m) \in 0..(len - 1) /\ Parent(m) < m
    BY <2>4, ParentFacts DEF IInv, TypeOK
  <2>7. Parent(m) \in Lower
    BY <1>1, <2>4, <2>5, <2>6 DEF Le, IInv, TypeOK
  <2> QED  BY <2>3, <2>6, <2>7
<1> QED  BY <1>2, <1>3
-----------------------------------------------------------------------------
LEMMA InitIInv == Init => IInv
BY DEF Init, IInv, TypeOK, Distinct, Ordered, Bridged, Empty

\* A swap of two places in use keeps the entries, each once.
LEMMA SwapKeeps ==
  ASSUME IInv, NEW a \in 0..(len - 1), NEW b \in 0..(len - 1), a # b,
         data' = Swap(data, a, b), UNCHANGED <<len, cap>>
  PROVE  /\ data' \in [0..(cap' - 1) -> Entries \cup {None}]
         /\ \A i \in 0..(len' - 1) : data'[i] \in Entries
         /\ Distinct'
         /\ In' = In
         /\ data'[a] = data[b] /\ data'[b] = data[a]
         /\ \A i \in 0..(len - 1) : i # a /\ i # b => data'[i] = data[i]
<1>1. /\ len \in Nat /\ cap \in Nat /\ len <= cap
      /\ data \in [0..(cap - 1) -> Entries \cup {None}]
      /\ \A i \in 0..(len - 1) : data[i] \in Entries
  BY DEF IInv, TypeOK
<1>2. /\ data' \in [0..(cap - 1) -> Entries \cup {None}]
      /\ data'[a] = data[b] /\ data'[b] = data[a]
      /\ \A i \in 0..(len - 1) : i # a /\ i # b => data'[i] = data[i]
  BY <1>1 DEF Swap
<1>3. \A i \in 0..(len - 1) : data'[i] \in Entries
  BY <1>1, <1>2
<1>4. Distinct'
  BY <1>2 DEF IInv, Distinct
<1>5. In' = In
  <2>1. \A i \in 0..(len - 1) : \E j \in 0..(len - 1) : data'[i] = data[j]
    BY <1>2
  <2>2. \A i \in 0..(len - 1) : \E j \in 0..(len - 1) : data[i] = data'[j]
    BY <1>2
  <2> QED  BY <2>1, <2>2 DEF In
<1> QED  BY <1>2, <1>3, <1>4, <1>5
-----------------------------------------------------------------------------
LEMMA InsertStep ==
  ASSUME IInv, NEW e \in Entries \ In, Insert(e)
  PROVE  IInv' /\ In' = In \cup {e}
<1>1. /\ len \in Nat /\ cap \in Nat /\ len <= cap
      /\ data \in [0..(cap - 1) -> Entries \cup {None}]
      /\ \A i \in 0..(len - 1) : data[i] \in Entries
      /\ nfails \in Nat
  BY DEF IInv, TypeOK
<1>2. /\ call = "none" /\ call' = "insert" /\ k' = len /\ len' = len + 1
      /\ UNCHANGED nfails
  BY DEF Insert
<1>3. /\ cap' \in Nat /\ len' <= cap'
      /\ data' \in [0..(cap' - 1) -> Entries \cup {None}]
      /\ data'[len] = e
      /\ \A i \in 0..(len - 1) : data'[i] = data[i]
  <2>1. CASE len < cap /\ UNCHANGED cap /\ data' = [data EXCEPT ![len] = e]
    BY <1>1, <1>2, <2>1
  <2>2. CASE /\ len >= cap /\ cap' = (len + 1) * 2
             /\ data' = [Grown EXCEPT ![len] = e]
    <3>1. /\ Grown \in [0..(cap' - 1) -> Entries \cup {None}]
          /\ \A i \in 0..(len - 1) : Grown[i] = data[i]
      BY <1>1, <2>2 DEF Grown
    <3>2. /\ len \in 0..(cap' - 1)
          /\ \A i \in 0..(len - 1) : i \in 0..(cap' - 1) /\ i # len
      BY <1>1, <2>2
    <3>3. /\ data' \in [0..(cap' - 1) -> Entries \cup {None}]
          /\ data'[len] = e
          /\ \A i \in 0..(len - 1) : data'[i] = data[i]
      BY <2>2, <3>1, <3>2
    <3>4. cap' \in Nat /\ len' <= cap'
      BY <1>1, <1>2, <2>2
    <3> QED  BY <3>3, <3>4
  <2> QED  BY <2>1, <2>2 DEF Insert
<1>4. \A i \in 0..(len' - 1) : i = len \/ i \in 0..(len - 1)
  BY <1>1, <1>2
<1>5. TypeOK'
  <2>1. \A i \in 0..(len' - 1) : data'[i] \in Entries
    BY <1>1, <1>3, <1>4
  <2>2. len' \in Nat /\ k' \in Nat /\ k' < len' /\ nfails' \in Nat
    BY <1>1, <1>2
  <2> QED  BY <1>2, <1>3, <2>1, <2>2 DEF TypeOK
<1>6. Distinct'
  <2>1. \A i \in 0..(len - 1) : data[i] # e
    BY DEF In
  <2> SUFFICES ASSUME NEW i \in 0..(len' - 1), NEW j \in 0..(len' - 1),
                      data'[i] = data'[j]
               PROVE  i = j
    BY DEF Distinct
  <2>2. i = len <=> j = len
    BY <1>3, <1>4, <2>1
  <2> QED  BY <1>3, <1>4, <2>2 DEF Distinct, IInv
<1>7. Ordered'
  <2> SUFFICES ASSUME NEW i \in 1..(len' - 1), i # len
               PROVE  Priority[data'[Parent(i)]] <= Priority[data'[i]]
    BY <1>2 DEF Ordered, Open, Le
  <2>1. /\ i \in 1..(len - 1) /\ i \in 0..(len - 1)
        /\ Parent(i) \in 0..(len - 1)
    BY <1>1, <1>2, ParentFacts
  <2>2. Le(Parent(i), i)
    BY <1>2, <2>1 DEF IInv, Ordered, Open
  <2> QED  BY <1>3, <2>1, <2>2 DEF Le
<1>8. Bridged'
  <2>1. \A i \in 1..(len' - 1) : Parent(i) # len
    BY <1>1, <1>2, ParentFacts
  <2> QED  BY <1>2, <2>1 DEF Bridged
<1>9. In' = In \cup {e}
  <2>1. In' = {data'[i] : i \in 0..(len' - 1)}
    BY DEF In
  <2>2. len \in 0..(len' - 1) /\ \A i \in 0..(len - 1) : i \in 0..(len' - 1)
    BY <1>1, <1>2
  <2>3. ASSUME NEW x \in In'  PROVE x \in In \cup {e}
    BY <2>1, <2>3, <1>3, <1>4 DEF In
  <2>4. ASSUME NEW x \in In \cup {e}  PROVE x \in In'
    BY <2>1, <2>2, <2>4, <1>3 DEF In
  <2> QED  BY <2>3, <2>4
<1> QED  BY <1>5, <1>6, <1>7, <1>8, <1>9 DEF IInv

LEMMA RemoveStep ==
  ASSUME IInv, Remove
  PROVE  /\ IInv'
         /\ data[0] \in In /\ In' = In \ {data[0]} /\ out' = data[0]
         /\ \A x \in In : Priority[data[0]] <= Priority[x]
<1>1. /\ len \in Nat /\ cap \in Nat /\ len <= cap
      /\ data \in [0..(cap - 1) -> Entries \cup {None}]
      /\ \A i \in 0..(len - 1) : data[i] \in Entries
  BY DEF IInv, TypeOK
<1>2. /\ call = "none" /\ call' = "remove" /\ len > 0 /\ len' = len - 1
      /\ data' = [data EXCEPT ![0] = data[len - 1]] /\ k' = 0
      /\ out' = data[0]
      /\ UNCHANGED <<cap, nfails>>
  BY DEF Remove
<1>3. /\ 0 \in 0..(len - 1) /\ len - 1 \in 0..(len - 1)
      /\ data[len - 1] \in Entries
      /\ len' \in Nat /\ len' <= cap
      /\ data' \in [0..(cap - 1) -> Entries \cup {None}]
      /\ data'[0] = data[len - 1]
      /\ \A i \in 1..(len - 1) : data'[i] = data[i]
  BY <1>1, <1>2
<1>4. \A i \in 0..(len' - 1) : i = 0 \/ i \in 1..(len - 1)
  BY <1>1, <1>2
<1>5. TypeOK'
  <2>1. ASSUME NEW i \in 0..(len' - 1)
        PROVE  data'[i] \in Entries
    <3>1. i \in 1..(len - 1) => i \in 0..(len - 1)
      BY <1>1
    <3> QED  BY <1>1, <1>3, <1>4, <3>1
  <2>2. k' \in Nat /\ nfails' \in Nat
    BY <1>2 DEF IInv, TypeOK
  <2> QED  BY <1>1, <1>2, <1>3, <2>1, <2>2 DEF TypeOK
<1>6. Distinct'
  <2>1. \A i \in 1..(len' - 1) : i \in 0..(len - 1) /\ i # len - 1
    BY <1>1, <1>2
  <2>4. \A i \in 1..(len' - 1) : data'[i] = data[i]
    BY <1>1, <1>2, <1>3
  <2>2. \A i \in 1..(len' - 1) : data'[i] # data'[0]
    BY <1>3, <2>1, <2>4 DEF IInv, Distinct
  <2>3. \A i \in 0..(len' - 1) : i = 0 \/ i \in 1..(len' - 1)
    BY <1>1, <1>2
  <2> QED  BY <2>1, <2>2, <2>3, <2>4 DEF Distinct, IInv
<1>7. Ordered'
  <2> SUFFICES ASSUME NEW i \in 1..(len' - 1), Parent(i) # 0
               PROVE  Priority[data'[Parent(i)]] <= Priority[data'[i]]
    BY <1>2 DEF Ordered, Open, Le
  <2>1. i \in 1..(len - 1) /\ Parent(i) \in 1..(len - 1)
    BY <1>1, <1>2, ParentFacts
  <2>2. Le(Parent(i), i)
    BY <1>2, <2>1 DEF IInv, Ordered, Open
  <2> QED  BY <1>3, <2>1, <2>2 DEF Le
<1>8. Bridged'
  BY <1>2 DEF Bridged
<1>9. data[0] \in In /\ \A x \in In : Priority[data[0]] <= Priority[x]
  BY <1>2, <1>3, RootIsLeast DEF In, Le
<1>10. In' = In \ {data[0]}
  <2>1. In' = {data'[i] : i \in 0..(len' - 1)}
    BY DEF In
  <2>2. ASSUME NEW i \in 0..(len' - 1)
        PROVE  data'[i] \in In /\ data'[i] # data[0]
    <3>1. CASE i = 0
      <4>1. len - 1 # 0
        BY <1>1, <1>2, <3>1
      <4> QED  BY <1>3, <3>1, <4>1 DEF In, IInv, Distinct
    <3>2. CASE i # 0
      <4>1. i \in 0..(len - 1) /\ i \in 1..(len - 1)
        BY <1>1, <1>2, <3>2
      <4> QED  BY <1>3, <3>2, <4>1 DEF In, IInv, Distinct
    <3> QED  BY <3>1, <3>2
  <2>3. ASSUME NEW i \in 0..(len - 1), data[i] # data[0]
        PROVE  \E j \in 0..(len' - 1) : data[i] = data'[j]
    <3>1. CASE i = len - 1
      <4>1. 0 \in 0..(len' - 1)
        BY <1>1, <1>2, <2>3, <3>1
      <4> QED  BY <1>3, <3>1, <4>1
    <3>2. CASE i # len - 1
      <4>1. i \in 0..(len' - 1) /\ i \in 1..(len - 1)
        BY <1>1, <1>2, <2>3, <3>2
      <4> QED  BY <1>3, <4>1
    <3> QED  BY <3>1, <3>2
  <2>4. ASSUME NEW x \in In'  PROVE x \in In \ {data[0]}
    BY <2>1, <2>2, <2>4
  <2>5. ASSUME NEW x \in In \ {data[0]}  PROVE x \in In'
    BY <2>1, <2>3, <2>5 DEF In
  <2> QED  BY <2>4, <2>5
<1> QED  BY <1>2, <1>5, <1>6, <1>7, <1>8, <1>9, <1>10 DEF IInv

\* A turn towards the root moves the exception to the parent, or ends.
LEMMA DownStep ==
  ASSUME IInv, SiftDown
  PROVE  IInv' /\ In' = In /\ (call' = call => k' < k)
<1>1. /\ len \in Nat /\ k \in Nat
      /\ \A i \in 0..(len - 1) : Priority[data[i]] \in Int
  BY DEF IInv, TypeOK
<1>2. /\ call \in {"insert", "remove"}
      /\ UNCHANGED <<cap, len, out, nfails>>
  BY DEF SiftDown
<1>3. CASE k = 0 \/ Less(data[Parent(k)], data[k])
  <2>1. /\ call' = IF call = "remove" THEN "up" ELSE "none"
        /\ k' = 0 /\ UNCHANGED data
    BY <1>3 DEF SiftDown
  <2>2. TypeOK' /\ Distinct' /\ Bridged' /\ In' = In
    BY <1>2, <2>1 DEF IInv, TypeOK, Distinct, Bridged, In
  <2>3. CASE call = "remove"
    <3>1. k = 0
      BY <2>3 DEF IInv, TypeOK
    <3> QED  BY <1>2, <2>1, <2>2, <2>3, <3>1 DEF IInv, Ordered, Open, Le
  <2>4. CASE call = "insert"
    <3>1. \A i \in 1..(len - 1) : Le(Parent(i), i)
      <4> TAKE i \in 1..(len - 1)
      <4>1. i # k => Le(Parent(i), i)
        BY <2>4 DEF IInv, Ordered, Open
      <4>2. i = k => /\ Less(data[Parent(i)], data[i])
                     /\ Parent(i) \in 0..(len - 1) /\ i \in 0..(len - 1)
        BY <1>1, <1>3, ParentFacts
      <4> QED  BY <1>1, <4>1, <4>2 DEF Le, Less
    <3>2. Ordered'
      BY <1>2, <2>1, <3>1 DEF Ordered, Le
    <3> QED  BY <2>1, <2>2, <2>4, <3>2 DEF IInv
  <2> QED  BY <1>2, <2>3, <2>4
<1>4. CASE k > 0 /\ ~Less(data[Parent(k)], data[k])
  <2> DEFINE p == Parent(k)
  <2>1. /\ data' = Swap(data, k, p) /\ k' = p /\ call' = call
    BY <1>4 DEF SiftDown
  <2>2. call = "insert" /\ k \in 0..(len - 1)
    BY <1>1, <1>2, <1>4 DEF IInv, TypeOK
  <2>3. p \in Nat /\ p < k /\ p \in 0..(len - 1) /\ k # p
    BY <1>1, <1>4, <2>2, ParentFacts
  <2>4. Priority[data[k]] <= Priority[data[p]]
    BY <1>1, <1>4, <2>2, <2>3 DEF Less
  <2> HIDE DEF p
  <2>5. /\ data' \in [0..(cap' - 1) -> Entries \cup {None}]
        /\ \A i \in 0..(len' - 1) : data'[i] \in Entries
        /\ Distinct' /\ In' = In
        /\ data'[k] = data[p] /\ data'[p] = data[k]
        /\ \A i \in 0..(len - 1) : i # k /\ i # p => data'[i] = data[i]
    BY <1>2, <2>1, <2>2, <2>3, SwapKeeps
  <2>6. TypeOK'
    BY <1>2, <2>1, <2>2, <2>3, <2>5 DEF IInv, TypeOK
  <2>7. ASSUME NEW i \in 1..(len - 1)
        PROVE  /\ i \in 0..(len - 1) /\ Parent(i) \in 0..(len - 1)
               /\ Parent(i) < i
               /\ i # k => Priority[data[Parent(i)]] <= Priority[data[i]]
               /\ Parent(i) = k => Priority[data[p]] <= Priority[data[i]]
    <3>1. Parent(i) \in 0..(len - 1) /\ Parent(i) < i
      BY <1>1, ParentFacts
    <3> QED
      BY <1>1, <1>4, <2>2, <3>1 DEF IInv, Ordered, Open, Bridged, Le, p
  <2>8. Ordered'
    <3> SUFFICES ASSUME NEW i \in 1..(len - 1), i # p
                 PROVE  Priority[data'[Parent(i)]] <= Priority[data'[i]]
      BY <1>2, <2>1, <2>2 DEF Ordered, Open, Le
    <3>1. CASE i = k
      BY <2>4, <2>5, <3>1 DEF p
    <3>2. CASE i # k /\ Parent(i) = k
      BY <2>5, <2>7, <3>2
    <3>3. CASE i # k /\ Parent(i) = p
      BY <1>1, <2>2, <2>3, <2>4, <2>5, <2>7, <3>3
    <3>4. CASE i # k /\ Parent(i) \notin {k, p}
      BY <2>5, <2>7, <3>4
    <3> QED  BY <3>1, <3>2, <3>3, <3>4
  <2>9. Bridged'
    <3> SUFFICES ASSUME NEW i \in 1..(len - 1), Parent(i) = p, p > 0
                 PROVE  Priority[data'[Parent(p)]] <= Priority[data'[i]]
      BY <1>2, <2>1 DEF Bridged, Le
    <3>1. p \in 1..(len - 1)
      BY <2>3
    <3>2. /\ Parent(p) \in 0..(len - 1) /\ Parent(p) < p
          /\ Priority[data[Parent(p)]] <= Priority[data[p]]
      BY <2>3, <2>7, <3>1
    <3>3. data'[Parent(p)] = data[Parent(p)]
      BY <2>3, <2>5, <3>2
    <3>4. CASE i = k
      BY <2>5, <3>2, <3>3, <3>4
    <3>5. CASE i # k
      <4>1. i # p /\ Priority[data[p]] <= Priority[data[i]]
        BY <2>7, <3>5
      <4> QED  BY <1>1, <2>3, <2>5, <2>7, <3>2, <3>3, <3>5, <4>1
    <3> QED  BY <3>4, <3>5
  <2> QED  BY <2>1, <2>3, <2>5, <2>6, <2>8, <2>9 DEF IInv
<1>5. k = 0 \/ k > 0
  BY <1>1
<1> QED  BY <1>3, <1>4, <1>5

\* A turn away from the root moves the exception to the smallest child, or
\* ends.
LEMMA UpStep ==
  ASSUME IInv, SiftUp
  PROVE  IInv' /\ In' = In /\ (call' = call => k' > k /\ k' < len)
<1>1. /\ len \in Nat /\ k \in Nat /\ (k < len \/ k = 0)
      /\ \A i \in 0..(len - 1) : data[i] \in Entries
      /\ \A i \in 0..(len - 1) : Priority[data[i]] \in Int
  BY DEF IInv, TypeOK
<1>2. /\ call = "up"
      /\ UNCHANGED <<cap, len, out, nfails>>
  BY DEF SiftUp
<1> DEFINE s == Smallest(data, len, k)
<1>3. /\ s \in Nat
      /\ s # k => /\ s \in {2 * k + 1, 2 * k + 2} /\ s < len
                  /\ Less(data[s], data[k])
      /\ len > 0 => \A c \in {2 * k + 1, 2 * k + 2} :
                       c < len => Priority[data[s]] <= Priority[data[c]]
  <2>1. \A c \in {k, 2 * k + 1, 2 * k + 2} : c < len => data[c] \in Entries
    BY <1>1
  <2> QED  BY <1>1, <2>1, SmallestFacts
<1>4. /\ s = k => call' = "none" /\ k' = 0 /\ UNCHANGED data
      /\ s # k => data' = Swap(data, k, s) /\ k' = s /\ UNCHANGED call
  BY DEF SiftUp
<1> HIDE DEF s
<1>5. ASSUME NEW i \in 1..(len - 1)
      PROVE  /\ i \in 0..(len - 1) /\ Parent(i) \in 0..(len - 1)
             /\ Parent(i) < i
             /\ Parent(i) # k => Priority[data[Parent(i)]] <= Priority[data[i]]
             /\ Parent(i) = k => /\ i \in {2 * k + 1, 2 * k + 2} /\ i < len
                                 /\ Priority[data[s]] <= Priority[data[i]]
  <2>1. Parent(i) \in 0..(len - 1) /\ Parent(i) < i /\ i \in 0..(len - 1)
    BY <1>1, ParentFacts
  <2>2. Parent(i) # k => Priority[data[Parent(i)]] <= Priority[data[i]]
    BY <1>2 DEF IInv, Ordered, Open, Le
  <2>3. Parent(i) = k => i \in {2 * k + 1, 2 * k + 2} /\ i < len /\ len > 0
    BY <1>1, ParentFacts
  <2> QED  BY <1>3, <2>1, <2>2, <2>3
<1>6. CASE s = k
  <2>1. TypeOK' /\ Distinct' /\ Bridged' /\ In' = In
    BY <1>2, <1>4, <1>6 DEF IInv, TypeOK, Distinct, Bridged, In
  <2>2. Ordered'
    BY <1>2, <1>4, <1>5, <1>6 DEF Ordered, Le
  <2> QED  BY <1>2, <1>4, <1>6, <2>1, <2>2 DEF IInv
<1>7. CASE s # k
  <2>1. /\ s \in 0..(len - 1) /\ k \in 0..(len - 1) /\ k < s
        /\ Parent(s) = k
        /\ Priority[data[s]] <= Priority[data[k]]
    BY <1>1, <1>3, <1>7, ChildFacts DEF Less
  <2>2. /\ data' = Swap(data, k, s) /\ k' = s /\ call' = call
    BY <1>4, <1>7
  <2>3. /\ data' \in [0..(cap' - 1) -> Entries \cup {None}]
        /\ \A i \in 0..(len' - 1) : data'[i] \in Entries
        /\ Distinct' /\ In' = In
        /\ data'[k] = data[s] /\ data'[s] = data[k]
        /\ \A i \in 0..(len - 1) : i # k /\ i # s => data'[i] = data[i]
    BY <1>2, <1>7, <2>1, <2>2, SwapKeeps
  <2>4. TypeOK'
    BY <1>2, <2>1, <2>2, <2>3 DEF IInv, TypeOK
  <2>5. Ordered'
    <3> SUFFICES ASSUME NEW i \in 1..(len - 1), Parent(i) # s
                 PROVE  Priority[data'[Parent(i)]] <= Priority[data'[i]]
      BY <1>2, <2>2 DEF Ordered, Open, Le
    <3>1. CASE i = s
      BY <2>1, <2>3, <3>1
    <3>2. CASE i # s /\ Parent(i) = k
      BY <1>5, <2>3, <3>2
    <3>3. CASE i = k
      <4>1. k > 0 /\ s \in 1..(len - 1)
        BY <2>1, <3>3
      <4>2. Priority[data[Parent(k)]] <= Priority[data[s]]
        BY <1>2, <2>1, <4>1 DEF IInv, Bridged, Le
      <4> QED  BY <1>5, <2>3, <3>3, <4>2
    <3>4. CASE i \notin {s, k} /\ Parent(i) # k
      BY <1>5, <2>3, <3>4
    <3> QED  BY <3>1, <3>2, <3>3, <3>4
  <2>6. Bridged'
    <3> SUFFICES ASSUME NEW i \in 1..(len - 1), Parent(i) = s
                 PROVE  Priority[data'[Parent(s)]] <= Priority[data'[i]]
      BY <1>2, <2>2 DEF Bridged, Le
    <3>1. i # s /\ i # k /\ Priority[data[s]] <= Priority[data[i]]
      BY <1>5, <1>7, <2>1
    <3>2. data'[Parent(s)] = data[s]
      BY <2>1, <2>3
    <3>3. i \in 0..(len - 1) => data'[i] = data[i]
      BY <2>3, <3>1
    <3>4. i \in 0..(len - 1)
      BY <1>5
    <3> QED  BY <3>1, <3>2, <3>3, <3>4
  <2> QED  BY <1>3, <1>7, <2>1, <2>2, <2>3, <2>4, <2>5, <2>6 DEF IInv
<1> QED  BY <1>6, <1>7
-----------------------------------------------------------------------------
LEMMA StepIInv == IInv /\ [Next]_vars => IInv' /\ [Bag!BagNext]_<<In, out>>
<1> SUFFICES ASSUME IInv, [Next]_vars
             PROVE  IInv' /\ [Bag!BagNext]_<<In, out>>
  OBVIOUS
<1> USE DEF Bag!BagNext
<1>1. ASSUME NEW e \in Entries \ In, Insert(e)
      PROVE  IInv' /\ Bag!Add
  BY <1>1, InsertStep DEF Insert, Bag!Add
<1>2. CASE InsertFails
  BY <1>2
  DEF InsertFails, IInv, TypeOK, Distinct, Ordered, Open, Bridged, Le, In,
              Bag!Refuse
<1>3. CASE Remove
  <2>1. Bag!Take
    BY <1>3, RemoveStep DEF Bag!Take, Bag!Least
  <2> QED  BY <1>3, <2>1, RemoveStep
<1>4. CASE RemoveNothing
  BY <1>4
  DEF RemoveNothing, IInv, TypeOK, Distinct, Ordered, Open, Bridged, Le, In,
              Bag!Refuse
<1>5. CASE Destroy
  <2>1. /\ data' = Empty /\ cap' = InitSize /\ len' = 0
        /\ call = "none" /\ UNCHANGED <<call, k, nfails>>
    BY <1>5 DEF Destroy
  <2>4. k = 0
    BY <2>1 DEF IInv, TypeOK
  <2>5. TypeOK'
    BY <2>1, <2>4 DEF Empty, IInv, TypeOK
  <2>6. Distinct' /\ Ordered' /\ Bridged'
    BY <2>1 DEF Distinct, Ordered, Bridged
  <2>7. IInv'
    BY <2>5, <2>6 DEF IInv
  <2>2. Bag!Clear
    BY <1>5 DEF Destroy, In, Bag!Clear
  <2> QED  BY <2>2, <2>7
<1>6. CASE SiftDown
  BY <1>6, DownStep DEF SiftDown
<1>7. CASE SiftUp
  BY <1>7, UpStep DEF SiftUp
<1>8. CASE UNCHANGED vars
  BY <1>8 DEF vars, IInv, TypeOK, Distinct, Ordered, Open, Bridged, Le, In
<1> QED
  BY <1>1, <1>2, <1>3, <1>4, <1>5, <1>6, <1>7, <1>8 DEF Next

THEOREM HeapInvariant == Spec => []IInv
<1>1. IInv /\ [Next]_vars => IInv'
  BY StepIInv
<1> QED  BY <1>1, InitIInv, PTL DEF Spec

\* However it is filled, emptied and grown, ca_heap_insert and ca_heap_remove
\* keep every entry once and hand out one that is not less urgent than another
\* in the heap (ca_heap.c:42-151).
THEOREM HeapIsBag == Spec => BagSpec
<1>1. Init => Bag!BagInit
  BY DEF Init, In, Bag!BagInit
<1>2. IInv /\ [Next]_vars => [Bag!BagNext]_<<In, out>>
  BY StepIInv
<1> QED  BY <1>1, <1>2, HeapInvariant, PTL DEF Spec, BagSpec, Bag!BagSpec

\* A turn of a loop comes nearer to its end: to the root, or to the last entry.
Nearer == \/ call' # call
          \/ call = "insert" /\ k' < k
          \/ call = "up" /\ k' > k /\ k' < len

\* The two loops end, whatever the priorities: each turn is the last one or
\* leads nearer to the root, or further from it within the heap
\* (ca_heap.c:44-53, 59-76).
THEOREM LoopsEnd == Spec => [][SiftDown \/ SiftUp => Nearer]_vars
<1>1. IInv /\ [Next]_vars => [SiftDown \/ SiftUp => Nearer]_vars
  <2>1. IInv /\ SiftDown => Nearer
    BY DownStep DEF Nearer, SiftDown, IInv, TypeOK
  <2>2. IInv /\ SiftUp => Nearer
    BY UpStep DEF Nearer, SiftUp
  <2> QED  BY <2>1, <2>2
<1> QED  BY <1>1, HeapInvariant, PTL DEF Spec
=============================================================================
