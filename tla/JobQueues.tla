------------------------------ MODULE JobQueues ------------------------------
(***************************************************************************)
(* A FIFO queue that lists a set: what is true of every queue of the       *)
(* schedulers, where a job (or a handle of one) waits at most once.        *)
(***************************************************************************)
EXTENDS Naturals, Sequences, SequenceTheorems, TLAPS

\* q holds every element of S once, and nothing else.
Lists(q, S) ==
    /\ q \in Seq(S)
    /\ \A i, k \in 1 .. Len(q) : q[i] = q[k] => i = k
    /\ \A x \in S : \E i \in 1 .. Len(q) : q[i] = x

\* The empty queue lists the empty set: what every queue starts from.
LEMMA EmptyLists == Lists(<<>>, {})
BY DEF Lists

\* A queue that lists a set is empty only when the set is.
LEMMA ListsNonEmpty ==
    ASSUME NEW S, NEW q, Lists(q, S), S # {}
    PROVE  q # <<>>
<1>1. PICK x \in S : TRUE
  OBVIOUS
<1>2. \E i \in 1 .. Len(q) : q[i] = x
  BY <1>1 DEF Lists
<1> QED
  BY <1>2

\* Enqueueing an element that is not waiting yet.
LEMMA AppendLists ==
    ASSUME NEW S, NEW q, NEW x, Lists(q, S), x \notin S
    PROVE  Lists(Append(q, x), S \cup {x})
<1> DEFINE r == Append(q, x)
           T == S \cup {x}
<1>1. q \in Seq(S) /\ q \in Seq(T) /\ Len(q) \in Nat
  BY DEF Lists
<1>2. r \in Seq(T) /\ Len(r) = Len(q) + 1
  BY <1>1
<1>3. \A i \in 1 .. Len(q) : r[i] = q[i] /\ q[i] \in S
  BY <1>1
<1>4. r[Len(q) + 1] = x
  BY <1>1
<1>5. \A i, k \in 1 .. Len(r) : r[i] = r[k] => i = k
  <2> SUFFICES ASSUME NEW i \in 1 .. Len(r), NEW k \in 1 .. Len(r), r[i] = r[k]
               PROVE  i = k
    OBVIOUS
  <2>1. CASE i \in 1 .. Len(q) /\ k \in 1 .. Len(q)
    BY <2>1, <1>3 DEF Lists
  <2>2. CASE i = Len(q) + 1 \/ k = Len(q) + 1
    BY <2>2, <1>1, <1>2, <1>3, <1>4
  <2> QED
    BY <2>1, <2>2, <1>1, <1>2
<1>6. \A y \in T : \E i \in 1 .. Len(r) : r[i] = y
  <2> SUFFICES ASSUME NEW y \in T PROVE \E i \in 1 .. Len(r) : r[i] = y
    OBVIOUS
  <2>1. CASE y = x
    BY <2>1, <1>1, <1>2, <1>4
  <2>2. CASE y \in S
    <3>1. PICK i \in 1 .. Len(q) : q[i] = y
      BY <2>2 DEF Lists
    <3>2. i \in 1 .. Len(r) /\ r[i] = y
      BY <3>1, <1>1, <1>2, <1>3
    <3> QED
      BY <3>2
  <2> QED
    BY <2>1, <2>2
<1> QED
  BY <1>2, <1>5, <1>6 DEF Lists

\* Dequeueing: the head is waiting, and the tail lists the others.
LEMMA TailLists ==
    ASSUME NEW S, NEW q, Lists(q, S), q # <<>>
    PROVE  Head(q) \in S /\ Lists(Tail(q), S \ {Head(q)})
<1> DEFINE r == Tail(q)
           h == Head(q)
           T == S \ {h}
<1>1. q \in Seq(S) /\ Len(q) \in Nat \ {0} /\ h = q[1] /\ h \in S
  BY DEF Lists
<1>2. Len(r) = Len(q) - 1 /\ \A i \in 1 .. Len(r) : r[i] = q[i + 1]
  BY <1>1
<1>3. \A i \in 1 .. Len(r) : i + 1 \in 1 .. Len(q)
  BY <1>1, <1>2
<1>4. \A i \in 1 .. Len(r) : r[i] \in T
  <2> SUFFICES ASSUME NEW i \in 1 .. Len(r) PROVE r[i] \in S /\ r[i] # h
    OBVIOUS
  <2>1. i + 1 \in 1 .. Len(q) /\ r[i] = q[i + 1] /\ i + 1 # 1
    BY <1>2, <1>3
  <2>2. q[i + 1] \in S
    BY <2>1, <1>1
  <2>3. 1 \in 1 .. Len(q)
    BY <1>1
  <2>4. q[i + 1] # q[1]
    BY <2>1, <2>3 DEF Lists
  <2> QED
    BY <2>1, <2>2, <2>4, <1>1
<1>5. r \in Seq(S)
  BY <1>1
<1>6. r \in Seq(T)
  <2> HIDE DEF r, T
  <2>1. r \in [1 .. Len(r) -> S] /\ Len(r) \in Nat
    BY <1>5, LenProperties
  <2>2. r \in [1 .. Len(r) -> T]
    BY <2>1, <1>4
  <2> QED
    BY <2>1, <2>2, SeqDef
<1>7. \A i, k \in 1 .. Len(r) : r[i] = r[k] => i = k
  <2> SUFFICES ASSUME NEW i \in 1 .. Len(r), NEW k \in 1 .. Len(r), r[i] = r[k]
               PROVE  i = k
    OBVIOUS
  <2>1. q[i + 1] = q[k + 1]
    BY <1>2
  <2>2. i + 1 = k + 1
    BY <2>1, <1>3 DEF Lists
  <2> QED
    BY <2>2
<1>8. \A y \in T : \E i \in 1 .. Len(r) : r[i] = y
  <2> SUFFICES ASSUME NEW y \in T PROVE \E i \in 1 .. Len(r) : r[i] = y
    OBVIOUS
  <2>1. PICK k \in 1 .. Len(q) : q[k] = y
    BY DEF Lists
  <2>2. k # 1
    BY <2>1, <1>1
  <2>3. k - 1 \in 1 .. Len(r) /\ r[k - 1] = q[(k - 1) + 1]
    BY <2>2, <1>1, <1>2
  <2>4. r[k - 1] = y
    BY <2>1, <2>3
  <2> QED
    BY <2>3, <2>4
<1> QED
  BY <1>1, <1>6, <1>7, <1>8 DEF Lists
-----------------------------------------------------------------------------
(* The order of two elements in a queue.                                   *)

\* Wherever q holds x and y, x comes first.
Before(q, x, y) == \A i, k \in 1 .. Len(q) : q[i] = x /\ q[k] = y => i < k

\* What is enqueued goes behind everything: it disturbs no order that it is
\* not in front of.
LEMMA AppendBefore ==
    ASSUME NEW S, NEW q, NEW x, NEW y, NEW z, Lists(q, S), z \notin S, z # x,
           y = z \/ Before(q, x, y)
    PROVE  Before(Append(q, z), x, y)
<1> DEFINE r == Append(q, z)
<1>1. q \in Seq(S) /\ Len(q) \in Nat
  BY DEF Lists
<1>2. Len(r) = Len(q) + 1 /\ r[Len(q) + 1] = z /\ \A i \in 1 .. Len(q) : r[i] = q[i] /\ r[i] # z
  BY <1>1
<1> SUFFICES ASSUME NEW i \in 1 .. Len(r), NEW k \in 1 .. Len(r), r[i] = x, r[k] = y
             PROVE  i < k
  BY DEF Before
<1>3. i \in 1 .. Len(q)
  BY <1>1, <1>2
<1>4. CASE k = Len(q) + 1
  BY <1>1, <1>3, <1>4
<1>5. CASE k \in 1 .. Len(q)
  <2>1. Before(q, x, y)
    BY <1>2, <1>5
  <2> QED
    BY <1>2, <1>3, <1>5, <2>1 DEF Before
<1> QED
  BY <1>1, <1>2, <1>4, <1>5

\* Dequeueing keeps the order of the others.
LEMMA TailBefore ==
    ASSUME NEW S, NEW q, NEW x, NEW y, Lists(q, S), q # <<>>, Before(q, x, y)
    PROVE  Before(Tail(q), x, y)
<1>1. q \in Seq(S) /\ Len(q) \in Nat \ {0}
  BY DEF Lists
<1>2. Len(Tail(q)) = Len(q) - 1 /\ \A i \in 1 .. Len(Tail(q)) : Tail(q)[i] = q[i + 1]
  BY <1>1
<1> SUFFICES ASSUME NEW i \in 1 .. Len(Tail(q)), NEW k \in 1 .. Len(Tail(q)),
                    Tail(q)[i] = x, Tail(q)[k] = y
             PROVE  i < k
  BY DEF Before
<1>3. i + 1 \in 1 .. Len(q) /\ k + 1 \in 1 .. Len(q) /\ q[i + 1] = x /\ q[k + 1] = y
  BY <1>1, <1>2
<1> QED
  BY <1>3 DEF Before

\* The head of a queue has nobody before it.
LEMMA HeadIsFirst ==
    ASSUME NEW S, NEW q, NEW x \in S, Lists(q, S), q # <<>>
    PROVE  ~Before(q, x, Head(q))
<1>1. q \in Seq(S) /\ Len(q) \in Nat \ {0} /\ Head(q) = q[1]
  BY DEF Lists
<1>2. PICK i \in 1 .. Len(q) : q[i] = x
  BY DEF Lists
<1>3. 1 \in 1 .. Len(q) /\ ~(i < 1)
  BY <1>1
<1> QED
  BY <1>1, <1>2, <1>3 DEF Before
\* Enqueueing an element puts it behind all others and leaves their order.
LEMMA AppendOrder ==
    ASSUME NEW S, NEW q, NEW z, Lists(q, S), z \notin S
    PROVE  /\ \A x, y \in S : Before(Append(q, z), x, y) <=> Before(q, x, y)
           /\ \A x \in S : Before(Append(q, z), x, z) /\ ~Before(Append(q, z), z, x)
<1> DEFINE r == Append(q, z)
<1>1. q \in Seq(S) /\ Len(q) \in Nat
  BY DEF Lists
<1>2. Len(r) = Len(q) + 1 /\ r[Len(q) + 1] = z /\ \A i \in 1 .. Len(q) : r[i] = q[i]
  BY <1>1
<1>3. 1 .. Len(q) \subseteq 1 .. Len(r) /\ Len(q) + 1 \in 1 .. Len(r)
  BY <1>1, <1>2
<1>4. ASSUME NEW x \in S, NEW y \in S, Before(r, x, y) PROVE Before(q, x, y)
  BY <1>2, <1>3, <1>4 DEF Before
<1>5. ASSUME NEW x \in S, NEW y \in S, Before(q, x, y) PROVE Before(r, x, y)
  BY <1>5, AppendBefore
<1>6. ASSUME NEW x \in S PROVE Before(r, x, z) /\ ~Before(r, z, x)
  <2>1. Before(r, x, z)
    BY AppendBefore
  <2>2. PICK i \in 1 .. Len(q) : q[i] = x
    BY DEF Lists
  <2>3. i \in 1 .. Len(r) /\ r[i] = x /\ ~(Len(q) + 1 < i)
    BY <1>1, <1>2, <1>3, <2>2
  <2>4. ~Before(r, z, x)
    BY <1>2, <1>3, <2>3 DEF Before
  <2> QED
    BY <2>1, <2>4
<1> QED
  BY <1>4, <1>5, <1>6

\* The head comes before all others, and leaves their order when it goes.
LEMMA TailOrder ==
    ASSUME NEW S, NEW q, Lists(q, S), q # <<>>
    PROVE  /\ \A x, y \in S \ {Head(q)} : Before(Tail(q), x, y) <=> Before(q, x, y)
           /\ \A x \in S : ~Before(q, x, Head(q))
           /\ \A x \in S \ {Head(q)} : Before(q, Head(q), x)
<1>1. q \in Seq(S) /\ Len(q) \in Nat \ {0} /\ Head(q) = q[1]
  BY DEF Lists
<1>2. Len(Tail(q)) = Len(q) - 1 /\ \A i \in 1 .. Len(Tail(q)) : Tail(q)[i] = q[i + 1]
  BY <1>1
<1>3. ASSUME NEW x \in S \ {Head(q)}, NEW y \in S \ {Head(q)}, Before(Tail(q), x, y)
      PROVE  Before(q, x, y)
  <2> SUFFICES ASSUME NEW i \in 1 .. Len(q), NEW k \in 1 .. Len(q), q[i] = x, q[k] = y
               PROVE  i < k
    BY DEF Before
  <2>1. i # 1 /\ k # 1
    BY <1>1
  <2>2. i - 1 \in 1 .. Len(Tail(q)) /\ k - 1 \in 1 .. Len(Tail(q))
    BY <1>1, <1>2, <2>1
  <2>3. Tail(q)[i - 1] = x /\ Tail(q)[k - 1] = y
    BY <1>2, <2>2
  <2>4. i - 1 < k - 1
    BY <1>3, <2>2, <2>3 DEF Before
  <2> QED
    BY <2>4
<1>4. ASSUME NEW x, NEW y, Before(q, x, y) PROVE Before(Tail(q), x, y)
  BY <1>4, TailBefore
<1>5. \A x \in S : ~Before(q, x, Head(q))
  BY HeadIsFirst
<1>6. ASSUME NEW x \in S \ {Head(q)} PROVE Before(q, Head(q), x)
  <2> SUFFICES ASSUME NEW i \in 1 .. Len(q), NEW k \in 1 .. Len(q), q[i] = Head(q), q[k] = x
               PROVE  i < k
    BY DEF Before
  <2>1. 1 \in 1 .. Len(q) /\ q[i] = q[1]
    BY <1>1
  <2>3. i = 1
    BY <2>1 DEF Lists
  <2>2. k # 1
    BY <1>1
  <2> QED
    BY <2>2, <2>3
<1> QED
  BY <1>3, <1>4, <1>5, <1>6
=============================================================================
