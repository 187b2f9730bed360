-------------------------------- MODULE Heap --------------------------------
(***************************************************************************)
(* The binary heap (src/src/ca_heap.c) under the task queue of the thread  *)
(* pool and the results of the workers.  Each turn of the two loops that   *)
(* sift is a step.  Calls do not overlap: the pool calls with its mutex    *)
(* locked.  The callbacks record and ent_free, which nobody sets, are left *)
(* out.                                                                    *)
(***************************************************************************)
EXTENDS Integers

CONSTANTS
  Entries,    \* what is put in the heap
  Priority,   \* the priority of each, by which less compares
  None,       \* NULL
  InitSize,   \* HEAP_INIT_SIZE
  MaxFails    \* bound: reallocations that fail

ASSUME PriorityAssumption == Priority \in [Entries -> Int]
ASSUME BoundsAssumption   == InitSize \in Nat \ {0} /\ MaxFails \in Nat

VARIABLES
  data,  \* h->data, a function on 0..cap - 1
  cap,   \* h->cap
  len,   \* h->len
  call,  \* the call that sifts towards the root, "up" away from it, or "none"
  k,     \* the local k of the loop that sifts
  out,   \* what the last call returned or, once it has it, will return
  nfails

vars == <<data, cap, len, call, k, out, nfails>>

Less(x, y) == Priority[x] < Priority[y]

Swap(h, a, b) == [h EXCEPT ![a] = h[b], ![b] = h[a]]

Parent(i) == (i - 1) \div 2

\* Mutant: the right child is not compared with the left one.
SmallestOfTwo(h, n, i) ==
  LET l == 2 * i + 1
  IN  IF l < n /\ Less(h[l], h[i]) THEN l ELSE i

\* The smallest of i and its children among the first n.
Smallest(h, n, i) ==
  LET l == 2 * i + 1
      r == 2 * i + 2
      s == IF l < n /\ Less(h[l], h[i]) THEN l ELSE i
  IN  IF r < n /\ Less(h[r], h[s]) THEN r ELSE s
-----------------------------------------------------------------------------
(***************************************************************************)
(* The loops, a turn at a time.                                            *)
(***************************************************************************)
\* ca_heap_siftdown: towards the root, past the entries that are not less,
\* equal ones too.  For ca_heap_remove, ca_heap_siftup follows.
SiftDown ==
  /\ call \in {"insert", "remove"}
  /\ IF k = 0 \/ Less(data[Parent(k)], data[k])
     THEN /\ call' = IF call = "remove" THEN "up" ELSE "none"
          /\ k' = 0
          /\ UNCHANGED data
     ELSE /\ data' = Swap(data, k, Parent(k))
          /\ k' = Parent(k)
          /\ UNCHANGED call
  /\ UNCHANGED <<cap, len, out, nfails>>

\* ca_heap_siftup: away from the root.
SiftUp ==
  /\ call = "up"
  /\ LET s == Smallest(data, len, k)
     IN  IF s = k THEN call' = "none" /\ k' = 0 /\ UNCHANGED data
         ELSE data' = Swap(data, k, s) /\ k' = s /\ UNCHANGED call
  /\ UNCHANGED <<cap, len, out, nfails>>
-----------------------------------------------------------------------------
(***************************************************************************)
(* The calls, up to the loops.                                             *)
(***************************************************************************)
In == {data[i] : i \in 0..len - 1}

\* The new cells of a larger array hold nothing yet.
Grown == [i \in 0..(len + 1) * 2 - 1 |->
            IF i \in DOMAIN data THEN data[i] ELSE None]

Insert(e) ==
  /\ call = "none" /\ call' = "insert"
  /\ \/ len < cap /\ UNCHANGED cap /\ data' = [data EXCEPT ![len] = e]
     \/ len >= cap /\ cap' = (len + 1) * 2 /\ data' = [Grown EXCEPT ![len] = e]
  /\ k' = len /\ len' = len + 1
  /\ out' = None
  /\ UNCHANGED nfails

InsertFails == /\ call = "none"
               /\ len >= cap
               /\ nfails < MaxFails /\ nfails' = nfails + 1
               /\ out' = None
               /\ UNCHANGED <<data, cap, len, call, k>>

\* ca_heap_remove(h, 0): nobody removes from elsewhere.
Remove == /\ call = "none" /\ call' = "remove"
          /\ len > 0 /\ len' = len - 1
          /\ out' = data[0]
          /\ data' = [data EXCEPT ![0] = data[len - 1]]
          /\ k' = 0
          /\ UNCHANGED <<cap, nfails>>

RemoveNothing == /\ call = "none"
                 /\ len = 0 /\ out' = None
                 /\ UNCHANGED <<data, cap, len, call, k, nfails>>

\* The array is as ca_heap_init makes it.
Empty == [i \in 0..InitSize - 1 |-> None]

\* ca_heap_destroy removes all entries, but nobody sets ent_free to be told;
\* the heap may be initialized again.
Destroy == /\ call = "none"
           /\ data' = Empty /\ cap' = InitSize /\ len' = 0
           /\ out' = None
           /\ UNCHANGED <<call, k, nfails>>
-----------------------------------------------------------------------------
Init == /\ data = Empty /\ cap = InitSize /\ len = 0
        /\ call = "none" /\ k = 0 /\ out = None /\ nfails = 0

Next == \/ \E e \in Entries \ In : Insert(e)
        \/ InsertFails \/ Remove \/ RemoveNothing \/ Destroy
        \/ SiftDown \/ SiftUp

Spec == Init /\ [][Next]_vars

\* The heap is a bag that gives its least entry: nothing gets lost, doubled or
\* overtaken, however the array was filled, emptied and grown before.
Bag == INSTANCE PriorityBag WITH bag <- In
BagSpec == Bag!BagSpec
=============================================================================
