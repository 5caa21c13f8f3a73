---------------------------- MODULE PresenceProofs ----------------------------
(***************************************************************************)
(* Proofs about Presence, for any users, channels and sockets: types, what *)
(* a broadcast reaches while the lists it walks change under it, and when  *)
(* a user is shown as offline.                                             *)
(***************************************************************************)
EXTENDS Presence, FiniteSetTheorems, WellFoundedInduction, NaturalsInduction,
        TLAPS

-----------------------------------------------------------------------------
(* Sequences without repetition *)

LEMMA AppendKeeps ==
    ASSUME NEW S, NEW q \in Seq(S), NEW x \in S
    PROVE  /\ Append(q, x) \in Seq(S) /\ Append(q, x) # <<>>
           /\ ToSet(Append(q, x)) = ToSet(q) \cup {x}
           /\ IsInjective(q) /\ x \notin ToSet(q) => IsInjective(Append(q, x))
  <1>1. /\ Append(q, x) \in Seq(S) /\ Append(q, x) # <<>>
        /\ DOMAIN Append(q, x) = 1..(Len(q) + 1) /\ DOMAIN q = 1..Len(q)
        /\ \A i \in 1..Len(q) : Append(q, x)[i] = q[i]
        /\ Append(q, x)[Len(q) + 1] = x /\ Len(q) \in Nat
    OBVIOUS
  <1> DEFINE r == Append(q, x)
  <1> HIDE DEF r
  <1>2. ToSet(r) = ToSet(q) \cup {x}
    <2>1. ASSUME NEW i \in 1..(Len(q) + 1)
          PROVE  r[i] \in ToSet(q) \cup {x}
      <3>1. i \in 1..Len(q) \/ i = Len(q) + 1
        BY <1>1
      <3> QED BY <3>1, <1>1 DEF r, ToSet
    <2>2. ASSUME NEW y \in ToSet(q) \cup {x}
          PROVE  \E i \in 1..(Len(q) + 1) : y = r[i]
      <3>1. CASE y = x
        <4>1. Len(q) + 1 \in 1..(Len(q) + 1)
          BY <1>1
        <4> QED BY <4>1, <3>1, <1>1 DEF r
      <3>2. CASE y \in ToSet(q)
        <4>1. PICK i \in 1..Len(q) : y = q[i]
          BY <3>2, <1>1 DEF ToSet
        <4>2. i \in 1..(Len(q) + 1)
          BY <4>1, <1>1
        <4> QED BY <4>1, <4>2, <1>1 DEF r
      <3> QED BY <3>1, <3>2
    <2>3. ToSet(r) = {r[i] : i \in 1..(Len(q) + 1)}
      BY <1>1 DEF r, ToSet
    <2> QED BY <2>1, <2>2, <2>3
  <1>3. IsInjective(q) /\ x \notin ToSet(q) => IsInjective(r)
    <2> SUFFICES ASSUME IsInjective(q), x \notin ToSet(q),
                        NEW i \in 1..(Len(q) + 1), NEW j \in 1..(Len(q) + 1),
                        r[i] = r[j]
                 PROVE  i = j
      BY <1>1 DEF r, IsInjective
    <2>1. /\ i \in 1..Len(q) \/ i = Len(q) + 1
          /\ j \in 1..Len(q) \/ j = Len(q) + 1
      BY <1>1
    <2>2. \A n \in 1..Len(q) : q[n] # x
      BY <1>1 DEF ToSet
    <2> QED BY <2>1, <2>2, <1>1 DEF r, IsInjective
  <1> QED BY <1>1, <1>2, <1>3 DEF r

LEMMA TailKeeps ==
    ASSUME NEW S, NEW q \in Seq(S), q # <<>>
    PROVE  /\ Head(q) \in S /\ Tail(q) \in Seq(S)
           /\ ToSet(q) = ToSet(Tail(q)) \cup {Head(q)}
           /\ IsInjective(q) => IsInjective(Tail(q))
  <1>1. /\ Head(q) \in S /\ Tail(q) \in Seq(S) /\ Len(q) \in Nat \ {0}
        /\ Len(Tail(q)) = Len(q) - 1 /\ Head(q) = q[1]
        /\ DOMAIN q = 1..Len(q) /\ DOMAIN Tail(q) = 1..(Len(q) - 1)
        /\ \A i \in 1..(Len(q) - 1) : Tail(q)[i] = q[i + 1]
    OBVIOUS
  <1> DEFINE r == Tail(q)
  <1> HIDE DEF r
  <1>2. ASSUME NEW i \in 1..Len(q)
        PROVE  q[i] \in ToSet(r) \cup {q[1]}
    <2>1. i = 1 \/ (i - 1 \in 1..(Len(q) - 1) /\ (i - 1) + 1 = i)
      BY <1>1
    <2> QED BY <2>1, <1>1 DEF r, ToSet
  <1>3. ASSUME NEW i \in 1..(Len(q) - 1)
        PROVE  i + 1 \in 1..Len(q)
    BY <1>1
  <1>4. 1 \in 1..Len(q)
    BY <1>1
  <1>5. ToSet(q) = ToSet(r) \cup {q[1]}
    BY <1>1, <1>2, <1>3, <1>4 DEF r, ToSet
  <1>6. IsInjective(q) => IsInjective(r)
    <2> SUFFICES ASSUME IsInjective(q),
                        NEW i \in 1..(Len(q) - 1), NEW j \in 1..(Len(q) - 1),
                        r[i] = r[j]
                 PROVE  i = j
      BY <1>1 DEF r, IsInjective
    <2>1. i + 1 = j + 1
      BY <1>1, <1>3 DEF r, IsInjective
    <2> QED BY <2>1
  <1> QED BY <1>1, <1>5, <1>6 DEF r

LEMMA SuffixKeeps ==
    ASSUME NEW S, NEW q \in Seq(S), NEW i \in 1..Len(q)
    PROVE  /\ SubSeq(q, i, Len(q)) \in Seq(S) /\ SubSeq(q, i, Len(q)) # <<>>
           /\ Head(SubSeq(q, i, Len(q))) = q[i]
           /\ \A j \in i..Len(q) : q[j] \in ToSet(SubSeq(q, i, Len(q)))
  <1> DEFINE r == SubSeq(q, i, Len(q))
  <1>1. /\ r \in Seq(S) /\ r # <<>> /\ Head(r) = q[i] /\ Len(q) \in Nat
        /\ DOMAIN r = 1..(Len(q) - i + 1)
        /\ \A n \in 1..(Len(q) - i + 1) : r[n] = q[i + n - 1]
    OBVIOUS
  <1>2. ASSUME NEW j \in i..Len(q)
        PROVE  j - i + 1 \in 1..(Len(q) - i + 1) /\ i + (j - i + 1) - 1 = j
    BY <1>1
  <1>3. ASSUME NEW j \in i..Len(q)
        PROVE  r[j - i + 1] = q[j]
    BY <1>1, <1>2
  <1> HIDE DEF r
  <1>4. \A j \in i..Len(q) : q[j] \in ToSet(r)
    BY <1>1, <1>2, <1>3 DEF ToSet
  <1> QED BY <1>1, <1>4 DEF r

\* A set of naturals that is not empty has a least element.
LEMMA LeastOf ==
    ASSUME NEW T \in SUBSET Nat, T # {}
    PROVE  \E i \in T : \A j \in T : i <= j
  <1>1. PICK i \in T : \A j \in T : <<j, i>> \notin OpToRel(<, Nat)
    BY NatLessThanWellFounded, WFMin
  <1>2. \A j \in T : ~(j < i)
    BY <1>1 DEF OpToRel
  <1> QED BY <1>2

\* The elements of a finite set in some order.
LEMMA OrderedSet ==
    ASSUME NEW T, IsFiniteSet(T)
    PROVE  /\ SetToSeq(T) \in Seq(T)
           /\ ToSet(SetToSeq(T)) = T /\ IsInjective(SetToSeq(T))
  <1> DEFINE n == Cardinality(T)
             f == SetToSeq(T)
  <1>1. n \in Nat /\ ExistsBijection(1..n, T)
    BY FS_CardinalityType
  <1>2. \E g \in [1..n -> T] : IsInjective(g)
    BY <1>1 DEF ExistsBijection, Bijection, Injection
  <1>3. f \in [1..n -> T] /\ IsInjective(f)
    BY <1>2 DEF SetToSeq
  <1> HIDE DEF f, n
  <1>4. f \in Seq(T) /\ DOMAIN f = 1..n
    BY <1>1, <1>3
  <1>5. IsFiniteSet(1..n) /\ Cardinality(1..n) = n
    BY <1>1, FS_Interval
  <1>6. f \in Injection(1..n, T)
    BY <1>3 DEF Injection
  <1>7. f \in Surjection(1..n, T)
    BY <1>5, <1>6, FS_Injection DEF n
  <1>8. ToSet(f) = T
    <2>1. \A x \in T : \E i \in 1..n : f[i] = x
      BY <1>7 DEF Surjection
    <2> QED BY <2>1, <1>3, <1>4 DEF ToSet
  <1> QED BY <1>3, <1>4, <1>8 DEF f

\* The place of an element among those left.
LEMMA Ranks ==
    ASSUME NEW P, IsFiniteSet(P), P \in SUBSET Nat
    PROVE  LET before(i) == Cardinality({j \in P : j < i}) IN
           /\ \A i \in P : before(i) \in 0..(Cardinality(P) - 1)
           /\ \A n \in 1..Cardinality(P) : \E i \in P : before(i) = n - 1
           /\ \A i, j \in P : before(i) = before(j) => i = j
  <1> DEFINE before(i) == Cardinality({j \in P : j < i})
             c == Cardinality(P)
             f == [i \in P |-> before(i)]
  <1>1. c \in Nat
    BY FS_CardinalityType
  <1>2. ASSUME NEW i \in P
        PROVE  before(i) \in 0..(c - 1)
    <2>1. {j \in P : j < i} \in SUBSET P /\ i \notin {j \in P : j < i}
      OBVIOUS
    <2>2. /\ IsFiniteSet({j \in P : j < i}) /\ before(i) <= c
          /\ before(i) = c => {j \in P : j < i} = P
      BY <2>1, FS_Subset
    <2>3. before(i) \in Nat
      BY <2>2, FS_CardinalityType
    <2>4. before(i) # c
      BY <2>1, <2>2
    <2> HIDE DEF before, c
    <2> QED BY <2>2, <2>3, <2>4, <1>1
  <1>3. ASSUME NEW i \in P, NEW j \in P, i < j
        PROVE  before(i) < before(j)
    <2> DEFINE A == {k \in P : k < i}
               B == {k \in P : k < j}
    <2>1. A \in SUBSET B /\ i \in B /\ i \notin A /\ B \in SUBSET P
      <3>1. i \in Nat /\ j \in Nat /\ \A k \in P : k \in Nat
        OBVIOUS
      <3>2. \A k \in P : k < i => k < j
        BY <3>1, <1>3
      <3>3. ~(i < i)
        BY <3>1
      <3> HIDE DEF before, c, f
      <3>4. i \in B /\ i \notin A
        BY <3>3, <1>3
      <3>5. A \subseteq B /\ B \subseteq P
        BY <3>2
      <3> QED BY <3>4, <3>5
    <2>2. IsFiniteSet(B)
      BY <2>1, FS_Subset
    <2>3. /\ IsFiniteSet(A) /\ Cardinality(A) <= Cardinality(B)
          /\ Cardinality(A) # Cardinality(B)
      BY <2>1, <2>2, FS_Subset
    <2>4. Cardinality(A) \in Nat /\ Cardinality(B) \in Nat
      BY <2>2, <2>3, FS_CardinalityType
    <2> HIDE DEF A, B
    <2>5. Cardinality(A) < Cardinality(B)
      BY <2>3, <2>4
    <2> QED BY <2>5 DEF A, B
  <1>4. ASSUME NEW i \in P, NEW j \in P, before(i) = before(j)
        PROVE  i = j
    <2>1. i < j \/ j < i \/ i = j
      OBVIOUS
    <2>2. before(i) \in Int /\ before(j) \in Int
      BY <1>2
    <2> HIDE DEF before
    <2> QED BY <2>1, <2>2, <1>3, <1>4
  <1>5. ASSUME NEW n \in 1..c
        PROVE  \E i \in P : before(i) = n - 1
    <2>1. IsFiniteSet(0..(c - 1)) /\ Cardinality(0..(c - 1)) = c
      <3> HIDE DEF c
      <3>1. 0 \in Int /\ c - 1 \in Int /\ (c - 1) - 0 + 1 = c /\ (0 > c - 1 => c = 0)
        BY <1>1
      <3> QED BY <3>1, FS_Interval
    <2>2. f \in Injection(P, 0..(c - 1))
      BY <1>2, <1>4 DEF Injection, IsInjective
    <2>3. f \in Surjection(P, 0..(c - 1))
      BY <2>1, <2>2, FS_Injection
    <2>4. n - 1 \in 0..(c - 1)
      BY <1>1
    <2>5. PICK i \in P : f[i] = n - 1
      BY <2>3, <2>4 DEF Surjection
    <2> QED BY <2>5
  <1> QED BY <1>2, <1>4, <1>5

LEMMA RestKeeps ==
    ASSUME NEW S, NEW q \in Seq(S), NEW gone
    PROVE  /\ Rest(q, gone) \in Seq(S)
           /\ ToSet(Rest(q, gone)) = ToSet(q) \ gone
           /\ IsInjective(q) => IsInjective(Rest(q, gone))
  <1> DEFINE P == {i \in DOMAIN q : q[i] \notin gone}
             before(i) == Cardinality({j \in P : j < i})
             place(n) == CHOOSE i \in P : before(i) = n - 1
             c == Cardinality(P)
             r == [n \in 1..c |-> q[place(n)]]
  <1>1. Rest(q, gone) = r
    BY DEF Rest
  <1>2. DOMAIN q = 1..Len(q) /\ Len(q) \in Nat /\ \A i \in 1..Len(q) : q[i] \in S
    OBVIOUS
  <1>3. IsFiniteSet(P) /\ P \in SUBSET Nat
    <2>1. IsFiniteSet(1..Len(q)) /\ P \in SUBSET (1..Len(q))
      BY <1>2, FS_Interval
    <2> QED BY <2>1, FS_Subset
  <1>4. c \in Nat
    BY <1>3, FS_CardinalityType
  <1>5. /\ \A i \in P : before(i) \in 0..(c - 1)
        /\ \A n \in 1..c : \E i \in P : before(i) = n - 1
        /\ \A i, j \in P : before(i) = before(j) => i = j
    BY <1>3, Ranks
  <1> HIDE DEF P, before, c
  <1>6. ASSUME NEW n \in 1..c
        PROVE  place(n) \in P /\ before(place(n)) = n - 1
    BY <1>5
  <1>7. ASSUME NEW i \in P
        PROVE  before(i) + 1 \in 1..c /\ place(before(i) + 1) = i
    <2>1. before(i) \in 0..(c - 1)
      BY <1>5
    <2>2. before(i) + 1 \in 1..c /\ (before(i) + 1) - 1 = before(i)
      BY <2>1, <1>4
    <2> QED BY <2>2, <1>5, <1>6
  <1> HIDE DEF place
  <1>8. \A i \in P : i \in 1..Len(q) /\ q[i] \notin gone
    BY <1>2 DEF P
  <1>9. r \in Seq(S) /\ DOMAIN r = 1..c
    BY <1>2, <1>4, <1>6, <1>8
  <1>10. ToSet(r) = ToSet(q) \ gone
    <2>1. ASSUME NEW n \in 1..c
          PROVE  r[n] \in ToSet(q) \ gone
      BY <1>2, <1>6, <1>8 DEF ToSet
    <2>2. ASSUME NEW x \in ToSet(q) \ gone
          PROVE  \E n \in 1..c : x = r[n]
      <3>1. PICK i \in 1..Len(q) : x = q[i]
        BY <1>2 DEF ToSet
      <3>2. i \in P
        BY <3>1, <2>2, <1>2 DEF P
      <3> QED BY <3>1, <3>2, <1>7
    <2> QED BY <2>1, <2>2, <1>9 DEF ToSet
  <1>11. IsInjective(q) => IsInjective(r)
    <2> SUFFICES ASSUME IsInjective(q), NEW n \in 1..c, NEW m \in 1..c, r[n] = r[m]
                 PROVE  n = m
      BY <1>9 DEF IsInjective
    <2>1. place(n) = place(m)
      BY <1>2, <1>6, <1>8 DEF IsInjective
    <2>2. n - 1 = m - 1
      BY <2>1, <1>6
    <2> QED BY <2>2, <1>4
  <1> QED BY <1>1, <1>9, <1>10, <1>11
-----------------------------------------------------------------------------
(* Broadcasts *)

BroadcastType ==
    [lists : Seq(Keys), todo : [Keys -> Seq(Sockets)], live : SUBSET Keys,
     dead : SUBSET Sockets, due : SUBSET Sockets]

\* A broadcast is typed, what it has yet to walk is in its lists, and no list
\* has a socket twice.
Covered(b) ==
    /\ b \in BroadcastType
    /\ \A k \in Keys : IsInjective(b.todo[k])
    /\ \A k \in Keys : b.todo[k] # <<>> => k \in ToSet(b.lists)

\* Between two steps it is also at a socket, or over.
Sound(b) ==
    /\ Covered(b)
    /\ b.lists # <<>> => b.todo[Head(b.lists)] # <<>>

\* The sockets a broadcast has yet to send to.
Ahead(b) == UNION {ToSet(b.todo[k]) : k \in Keys}

\* A registry: no list has a socket twice, or one of another list.
RegistryOK(l) ==
    /\ l \in [Keys -> Seq(Sockets)]
    /\ \A k \in Keys : IsInjective(l[k])
    /\ \A k \in Keys, s \in Sockets : s \in ToSet(l[k]) => k = ListOf[s]

InLists(l) == UNION {ToSet(l[k]) : k \in Keys}

LEMMA EmptyList ==
    ASSUME NEW S
    PROVE  /\ <<>> \in Seq(S) /\ ToSet(<<>>) = {} /\ IsInjective(<<>>)
  BY DEF ToSet, IsInjective

LEMMA ListElements ==
    ASSUME NEW S, NEW q \in Seq(S)
    PROVE  /\ ToSet(q) \subseteq S
           /\ q # <<>> <=> ToSet(q) # {}
           /\ q # <<>> => Head(q) \in ToSet(q) /\ Head(q) \in S
  <1>1. /\ DOMAIN q = 1..Len(q) /\ Len(q) \in Nat
        /\ \A i \in 1..Len(q) : q[i] \in S
        /\ q # <<>> <=> 1 \in 1..Len(q)
        /\ q # <<>> => Head(q) = q[1]
    OBVIOUS
  <1>2. q = <<>> => ToSet(q) = {}
    BY EmptyList
  <1> QED BY <1>1, <1>2 DEF ToSet

LEMMA IdleSound == Sound(Idle) /\ Ahead(Idle) = {}
                   /\ Idle.dead = {} /\ Idle.due = {} /\ Idle.lists = <<>>
  <1>1. /\ Idle.lists = <<>> /\ Idle.todo = [k \in Keys |-> <<>>]
        /\ Idle.dead = {} /\ Idle.due = {} /\ Idle.live = {}
    BY DEF Idle
  <1>2. Idle \in BroadcastType
    BY EmptyList DEF Idle, BroadcastType
  <1> QED BY <1>1, <1>2, EmptyList DEF Sound, Covered, Ahead

\* The lists that are left hold all there is to walk.
LEMMA NextListSound ==
    ASSUME NEW b, Covered(b)
    PROVE  /\ Sound(NextList(b)) /\ Ahead(NextList(b)) = Ahead(b)
           /\ NextList(b).dead = b.dead /\ NextList(b).due = b.due
           /\ NextList(b).lists = <<>> => Ahead(b) = {}
  <1> DEFINE left == {i \in DOMAIN b.lists : b.todo[b.lists[i]] # <<>>}
             first == CHOOSE i \in left : \A j \in left : i <= j
             suffix == SubSeq(b.lists, first, Len(b.lists))
  <1>1. /\ b.lists \in Seq(Keys) /\ b.todo \in [Keys -> Seq(Sockets)]
        /\ b.dead \in SUBSET Sockets /\ b.due \in SUBSET Sockets
        /\ b.live \in SUBSET Keys
        /\ b = [lists |-> b.lists, todo |-> b.todo, live |-> b.live,
                 dead |-> b.dead, due |-> b.due]
    BY DEF Covered, BroadcastType
  <1>2. /\ DOMAIN b.lists = 1..Len(b.lists) /\ Len(b.lists) \in Nat
        /\ \A i \in 1..Len(b.lists) : b.lists[i] \in Keys
    BY <1>1
  <1>3. \A k \in Keys : b.todo[k] # <<>> => \E i \in left : k = b.lists[i]
    BY <1>2 DEF Covered, ToSet
  <1>4. CASE left = {}
    <2>1. NextList(b) = [Idle EXCEPT !.dead = b.dead, !.due = b.due]
      BY <1>4 DEF NextList
    <2>2. \A k \in Keys : b.todo[k] = <<>>
      BY <1>3, <1>4
    <2>3. Ahead(b) = {}
      BY <2>2, EmptyList DEF Ahead
    <2>4. NextList(b) = [lists |-> <<>>, todo |-> [k \in Keys |-> <<>>],
                         live |-> {}, dead |-> b.dead, due |-> b.due]
      BY <2>1 DEF Idle
    <2>5. /\ NextList(b).lists = <<>> /\ NextList(b).dead = b.dead
          /\ NextList(b).due = b.due
          /\ NextList(b).todo = [k \in Keys |-> <<>>]
      BY <2>4
    <2>6. NextList(b) \in BroadcastType
      BY <2>4, <1>1, EmptyList DEF BroadcastType
    <2>7. Ahead(NextList(b)) = {}
      BY <2>5, EmptyList DEF Ahead
    <2> QED BY <2>3, <2>5, <2>6, <2>7, EmptyList DEF Sound, Covered
  <1>5. CASE left # {}
    <2>1. left \in SUBSET Nat
      BY <1>2
    <2>2. first \in left /\ \A j \in left : first <= j
      BY <1>5, <2>1, LeastOf
    <2>3. first \in 1..Len(b.lists) /\ b.todo[b.lists[first]] # <<>>
      BY <2>2, <1>2
    <2>4. NextList(b) = [b EXCEPT !.lists = suffix]
      BY <1>5 DEF NextList
    <2> HIDE DEF first
    <2>5. /\ suffix \in Seq(Keys) /\ suffix # <<>>
          /\ Head(suffix) = b.lists[first]
          /\ \A j \in first..Len(b.lists) : b.lists[j] \in ToSet(suffix)
      BY <1>1, <2>3, SuffixKeeps
    <2> HIDE DEF suffix
    <2>6. NextList(b) = [lists |-> suffix, todo |-> b.todo, live |-> b.live,
                         dead |-> b.dead, due |-> b.due]
      BY <2>4, <1>1
    <2>7. /\ NextList(b).lists = suffix /\ NextList(b).todo = b.todo
          /\ NextList(b).dead = b.dead /\ NextList(b).due = b.due
      BY <2>6
    <2>8. NextList(b) \in BroadcastType
      BY <2>5, <2>6, <1>1 DEF BroadcastType
    <2>9. ASSUME NEW k \in Keys, b.todo[k] # <<>>
          PROVE  k \in ToSet(suffix)
      <3>1. PICK i \in left : k = b.lists[i]
        BY <1>3, <2>9
      <3>2. i \in first..Len(b.lists)
        BY <2>2, <2>3, <1>2, <3>1
      <3> QED BY <3>1, <3>2, <2>5
    <2> HIDE DEF left
    <2>10. Covered(NextList(b))
      BY <2>7, <2>8, <2>9 DEF Covered
    <2>11. Ahead(NextList(b)) = Ahead(b)
      BY <2>7 DEF Ahead
    <2> QED BY <2>3, <2>5, <2>7, <2>10, <2>11 DEF Sound
  <1> QED BY <1>4, <1>5

LEMMA OverIsDone ==
    ASSUME NEW b, Sound(b), b.lists = <<>>
    PROVE  Ahead(b) = {}
  <1>1. ToSet(b.lists) = {}
    BY EmptyList
  <1>2. \A k \in Keys : b.todo[k] = <<>>
    BY <1>1 DEF Sound, Covered
  <1> QED BY <1>2, EmptyList DEF Ahead

\* A broadcast starts with everything it owes ahead of it.
LEMMA BroadcastSound ==
    ASSUME NEW l, RegistryOK(l), NEW ks \in Seq(Keys)
    PROVE  /\ Sound(Broadcast(ks, l)) /\ Broadcast(ks, l).dead = {}
           /\ Broadcast(ks, l).due = Ahead(Broadcast(ks, l))
  <1> DEFINE todo == [k \in Keys |-> IF k \in ToSet(ks) THEN l[k] ELSE <<>>]
             due == UNION {ToSet(l[k]) : k \in ToSet(ks)}
             b == [lists |-> ks, todo |-> todo, live |-> ToSet(ks),
                   dead |-> {}, due |-> due]
  <1>1. Broadcast(ks, l) = NextList(b)
    BY DEF Broadcast
  <1>2. ToSet(ks) \subseteq Keys
    BY ListElements
  <1>3. /\ \A k \in Keys : l[k] \in Seq(Sockets) /\ IsInjective(l[k])
        /\ \A k \in Keys : ToSet(l[k]) \subseteq Sockets
    BY ListElements DEF RegistryOK
  <1>4. /\ todo \in [Keys -> Seq(Sockets)]
        /\ \A k \in Keys : IsInjective(todo[k])
        /\ \A k \in Keys : todo[k] # <<>> => k \in ToSet(ks)
        /\ \A k \in Keys :
             ToSet(todo[k]) = IF k \in ToSet(ks) THEN ToSet(l[k]) ELSE {}
    BY <1>3, EmptyList
  <1>5. due \in SUBSET Sockets
    BY <1>2, <1>3
  <1>6. due = UNION {ToSet(todo[k]) : k \in Keys}
    <2> HIDE DEF todo
    <2>1. \A k \in ToSet(ks) : k \in Keys /\ ToSet(todo[k]) = ToSet(l[k])
      BY <1>2, <1>4
    <2>2. \A k \in Keys : k \notin ToSet(ks) => ToSet(todo[k]) = {}
      BY <1>4
    <2> QED BY <2>1, <2>2
  <1> HIDE DEF todo, due
  <1>7. /\ b.lists = ks /\ b.todo = todo /\ b.dead = {} /\ b.due = due
        /\ b \in BroadcastType
    BY <1>2, <1>4, <1>5 DEF BroadcastType
  <1> HIDE DEF b
  <1>8. Covered(b)
    BY <1>4, <1>7 DEF Covered
  <1>9. Ahead(b) = due
    BY <1>6, <1>7 DEF Ahead
  <1> QED BY <1>1, <1>7, <1>8, <1>9, NextListSound

\* One send: the socket sent to is the only one that leaves what is ahead.
LEMMA SentSound ==
    ASSUME NEW b, Sound(b), b.lists # <<>>, NEW ok \in BOOLEAN,
           NEW s, s = Head(b.todo[Head(b.lists)])
    PROVE  /\ s \in Sockets /\ Sound(Sent(b, ok))
           /\ Sent(b, ok).due = b.due \ {s}
           /\ Ahead(b) \subseteq Ahead(Sent(b, ok)) \cup {s}
  <1> DEFINE h == Head(b.lists)
             todo == [b.todo EXCEPT ![h] = Tail(@)]
             dead == IF ok THEN b.dead ELSE b.dead \cup {s}
             c == [lists |-> b.lists, todo |-> todo, live |-> b.live,
                   dead |-> dead, due |-> b.due \ {s}]
  <1>1. /\ b.lists \in Seq(Keys) /\ b.todo \in [Keys -> Seq(Sockets)]
        /\ b.dead \in SUBSET Sockets /\ b.due \in SUBSET Sockets
        /\ b.live \in SUBSET Keys
        /\ b = [lists |-> b.lists, todo |-> b.todo, live |-> b.live,
                dead |-> b.dead, due |-> b.due]
        /\ \A k \in Keys : IsInjective(b.todo[k])
        /\ \A k \in Keys : b.todo[k] # <<>> => k \in ToSet(b.lists)
    BY DEF Sound, Covered, BroadcastType
  <1>2. /\ h \in Keys /\ h \in ToSet(b.lists)
        /\ b.todo[h] # <<>> /\ b.todo[h] \in Seq(Sockets)
    BY <1>1, ListElements DEF Sound
  <1>3. /\ s \in Sockets /\ Tail(b.todo[h]) \in Seq(Sockets)
        /\ ToSet(b.todo[h]) = ToSet(Tail(b.todo[h])) \cup {s}
        /\ IsInjective(Tail(b.todo[h]))
    BY <1>1, <1>2, TailKeeps
  <1>4. Sent(b, ok) = NextList(c)
    <2> DEFINE b1 == [b EXCEPT !.todo = todo]
               b2 == [b1 EXCEPT !.dead = IF ok THEN @ ELSE @ \cup {s}]
               b3 == [b2 EXCEPT !.due = @ \ {s}]
    <2>1. Sent(b, ok) = NextList(b3)
      BY DEF Sent
    <2>2. b1 = [lists |-> b.lists, todo |-> todo, live |-> b.live,
                dead |-> b.dead, due |-> b.due]
      <3>1. b = [lists |-> b.lists, todo |-> b.todo, live |-> b.live,
                 dead |-> b.dead, due |-> b.due]
        BY <1>1
      <3> HIDE DEF todo, h, c, dead
      <3> QED BY <3>1
    <2> HIDE DEF b1, todo
    <2>3. b2 = [lists |-> b.lists, todo |-> todo, live |-> b.live,
                dead |-> dead, due |-> b.due]
      <3>1. b1.dead = b.dead
        BY <2>2
      <3>2. b2 = [b1 EXCEPT !.dead = dead]
        BY <3>1
      <3> HIDE DEF dead, b2
      <3> QED BY <2>2, <3>2
    <2> HIDE DEF b2, dead
    <2>4. b3 = c
      <3> DEFINE due == b.due \ {s}
      <3>1. b2.due = b.due
        BY <2>3
      <3>2. b3 = [b2 EXCEPT !.due = due]
        BY <3>1
      <3>3. c = [lists |-> b.lists, todo |-> todo, live |-> b.live,
                 dead |-> dead, due |-> due]
        OBVIOUS
      <3> HIDE DEF due, b3, c
      <3> QED BY <2>3, <3>2, <3>3
    <2> QED BY <2>1, <2>4
  <1>5. /\ todo \in [Keys -> Seq(Sockets)] /\ todo[h] = Tail(b.todo[h])
        /\ \A k \in Keys : k # h => todo[k] = b.todo[k]
    BY <1>1, <1>2, <1>3
  <1> HIDE DEF todo
  <1>6. dead \in SUBSET Sockets
    BY <1>1, <1>3
  <1> HIDE DEF dead
  <1>7. /\ c.lists = b.lists /\ c.todo = todo /\ c.due = b.due \ {s}
        /\ c \in BroadcastType
    BY <1>1, <1>5, <1>6 DEF BroadcastType
  <1> HIDE DEF c
  <1>8. Covered(c)
    BY <1>1, <1>2, <1>3, <1>5, <1>7 DEF Covered
  <1>9. Ahead(b) \subseteq Ahead(c) \cup {s}
    <2>1. \A k \in Keys : ToSet(b.todo[k]) \subseteq ToSet(todo[k]) \cup {s}
      BY <1>3, <1>5
    <2> QED BY <2>1, <1>7 DEF Ahead
  <1> QED BY <1>3, <1>4, <1>7, <1>8, <1>9, NextListSound

\* A broadcast that is at a socket reaches one that joins a list it is in.
LEMMA JoinSound ==
    ASSUME NEW b, Sound(b), NEW s \in Sockets, NEW k \in Keys,
           k \in ToSet(b.lists), s \notin ToSet(b.todo[k])
    PROVE  LET c == [b EXCEPT !.todo[k] = Append(@, s)] IN
           /\ Sound(c) /\ Ahead(b) \subseteq Ahead(c)
           /\ c.due = b.due /\ c.dead = b.dead /\ c.lists = b.lists
  <1> DEFINE todo == [b.todo EXCEPT ![k] = Append(@, s)]
             c == [b EXCEPT !.todo = todo]
  <1>1. /\ b.lists \in Seq(Keys) /\ b.todo \in [Keys -> Seq(Sockets)]
        /\ b.dead \in SUBSET Sockets /\ b.due \in SUBSET Sockets
        /\ b.live \in SUBSET Keys
        /\ b = [lists |-> b.lists, todo |-> b.todo, live |-> b.live,
                dead |-> b.dead, due |-> b.due]
        /\ \A j \in Keys : IsInjective(b.todo[j])
        /\ \A j \in Keys : b.todo[j] # <<>> => j \in ToSet(b.lists)
        /\ b.lists # <<>> => b.todo[Head(b.lists)] # <<>>
    BY DEF Sound, Covered, BroadcastType
  <1>2. /\ Append(b.todo[k], s) \in Seq(Sockets)
        /\ Append(b.todo[k], s) # <<>> /\ IsInjective(Append(b.todo[k], s))
        /\ ToSet(Append(b.todo[k], s)) = ToSet(b.todo[k]) \cup {s}
    BY <1>1, AppendKeeps
  <1>3. /\ todo \in [Keys -> Seq(Sockets)]
        /\ todo[k] = Append(b.todo[k], s)
        /\ \A j \in Keys : j # k => todo[j] = b.todo[j]
    BY <1>1, <1>2
  <1> HIDE DEF todo
  <1>4. c = [lists |-> b.lists, todo |-> todo, live |-> b.live,
             dead |-> b.dead, due |-> b.due]
    <2>1. b = [lists |-> b.lists, todo |-> b.todo, live |-> b.live,
               dead |-> b.dead, due |-> b.due]
      BY <1>1
    <2> QED
      BY <2>1
  <1>5. /\ c.lists = b.lists /\ c.todo = todo /\ c.due = b.due
        /\ c.dead = b.dead /\ c \in BroadcastType
    BY <1>1, <1>3, <1>4 DEF BroadcastType
  <1> HIDE DEF c
  <1>6. Covered(c)
    BY <1>1, <1>2, <1>3, <1>5 DEF Covered
  <1>7. Sound(c)
    <2>1. CASE b.lists # <<>>
      <3>1. Head(b.lists) \in Keys
        BY <1>1, <2>1, ListElements
      <3> QED BY <3>1, <1>1, <1>2, <1>3, <1>5, <1>6 DEF Sound
    <2>2. CASE b.lists = <<>>
      BY <2>2, <1>5, <1>6 DEF Sound
    <2> QED BY <2>1, <2>2
  <1>8. Ahead(b) \subseteq Ahead(c)
    <2>1. \A j \in Keys : ToSet(b.todo[j]) \subseteq ToSet(todo[j])
      BY <1>2, <1>3
    <2> QED BY <2>1, <1>5 DEF Ahead
  <1>9. [b EXCEPT !.todo[k] = Append(@, s)] = c
    BY DEF c, todo
  <1> QED BY <1>5, <1>7, <1>8, <1>9

\* Which lists it still sees the appends of is all that a disconnect changes.
LEMMA ReplaceSound ==
    ASSUME NEW b, Sound(b), NEW L
    PROVE  LET c == [b EXCEPT !.live = @ \ L] IN
           /\ Sound(c) /\ Ahead(c) = Ahead(b)
           /\ c.due = b.due /\ c.dead = b.dead /\ c.lists = b.lists
  <1> DEFINE c == [b EXCEPT !.live = @ \ L]
  <1>1. /\ b.lists \in Seq(Keys) /\ b.todo \in [Keys -> Seq(Sockets)]
        /\ b.dead \in SUBSET Sockets /\ b.due \in SUBSET Sockets
        /\ b.live \in SUBSET Keys
        /\ b = [lists |-> b.lists, todo |-> b.todo, live |-> b.live,
                dead |-> b.dead, due |-> b.due]
    BY DEF Sound, Covered, BroadcastType
  <1>2. c = [lists |-> b.lists, todo |-> b.todo, live |-> b.live \ L,
             dead |-> b.dead, due |-> b.due]
    <2> DEFINE live == b.live \ L
    <2> HIDE DEF live
    <2>1. [b EXCEPT !.live = live] =
            [lists |-> b.lists, todo |-> b.todo, live |-> live,
             dead |-> b.dead, due |-> b.due]
      BY <1>1
    <2> QED BY <2>1 DEF live
  <1>3. /\ c.lists = b.lists /\ c.todo = b.todo /\ c.due = b.due
        /\ c.dead = b.dead /\ c \in BroadcastType
    BY <1>1, <1>2 DEF BroadcastType
  <1> QED BY <1>3 DEF Sound, Covered, Ahead

-----------------------------------------------------------------------------
(* The registry *)

LEMMA ListOfKey == \A s \in Sockets : ListOf[s] \in Keys /\ UserOf[s] \in Users
  BY PresenceAssumption

\* connect(): a socket that is in no list is put at the end of its own.
LEMMA AppendedOK ==
    ASSUME RegistryOK(listed), NEW s \in Sockets, s \notin Listed
    PROVE  /\ RegistryOK(Appended(s))
           /\ InLists(Appended(s)) = Listed \cup {s}
           /\ \A k \in Keys :
                ToSet(Appended(s)[k]) =
                  ToSet(listed[k]) \cup (IF k = ListOf[s] THEN {s} ELSE {})
  <1> DEFINE h == ListOf[s]
             l == Appended(s)
  <1>1. /\ h \in Keys /\ listed \in [Keys -> Seq(Sockets)]
        /\ \A k \in Keys : IsInjective(listed[k])
    BY ListOfKey DEF RegistryOK
  <1>2. s \notin ToSet(listed[h])
    BY <1>1 DEF Listed
  <1>3. /\ Append(listed[h], s) \in Seq(Sockets)
        /\ IsInjective(Append(listed[h], s))
        /\ ToSet(Append(listed[h], s)) = ToSet(listed[h]) \cup {s}
    BY <1>1, <1>2, AppendKeeps
  <1>4. /\ l \in [Keys -> Seq(Sockets)] /\ l[h] = Append(listed[h], s)
        /\ \A k \in Keys : k # h => l[k] = listed[k]
    BY <1>1, <1>3 DEF Appended
  <1> HIDE DEF l
  <1>5. \A k \in Keys :
          ToSet(l[k]) = ToSet(listed[k]) \cup (IF k = h THEN {s} ELSE {})
    BY <1>3, <1>4
  <1>6. InLists(l) = Listed \cup {s}
    BY <1>1, <1>5 DEF InLists, Listed
  <1>7. RegistryOK(l)
    BY <1>1, <1>3, <1>4, <1>5 DEF RegistryOK
  <1> QED BY <1>5, <1>6, <1>7 DEF l

\* disconnect() of a set of sockets.
LEMMA WithoutOK ==
    ASSUME RegistryOK(listed), NEW gone
    PROVE  /\ RegistryOK(Without(gone))
           /\ InLists(Without(gone)) = Listed \ gone
           /\ \A k \in Keys : ToSet(Without(gone)[k]) = ToSet(listed[k]) \ gone
  <1> DEFINE l == Without(gone)
  <1>1. /\ listed \in [Keys -> Seq(Sockets)]
        /\ \A k \in Keys : IsInjective(listed[k])
    BY DEF RegistryOK
  <1>2. \A k \in Keys : l[k] = Rest(listed[k], gone)
    BY DEF Without
  <1>3. \A k \in Keys : /\ Rest(listed[k], gone) \in Seq(Sockets)
                        /\ ToSet(Rest(listed[k], gone)) = ToSet(listed[k]) \ gone
                        /\ IsInjective(Rest(listed[k], gone))
    BY <1>1, RestKeeps
  <1>4. l \in [Keys -> Seq(Sockets)]
    BY <1>3 DEF Without
  <1> HIDE DEF l
  <1>5. InLists(l) = Listed \ gone
    BY <1>2, <1>3 DEF InLists, Listed
  <1>6. RegistryOK(l)
    BY <1>2, <1>3, <1>4 DEF RegistryOK
  <1> QED BY <1>2, <1>3, <1>5, <1>6 DEF l

-----------------------------------------------------------------------------
(* The inductive invariant *)

Places == {"none", "announce", "roster", "receive", "busy", "reply", "tell",
           "push", "leaving", "bye", "gone", "broken"}

\* Only a chat handler stores messages.
OfChat == {"busy", "reply", "tell"}

TypeInv ==
    /\ peer \in [Sockets -> {"new", "open", "closed"}]
    /\ pc \in [Sockets -> Places]
    /\ \A s \in Sockets : pc[s] \in OfChat => IsChat(s)
    /\ refused \subseteq Sockets
    /\ RegistryOK(listed)
    /\ opened \in Seq(Channels) /\ IsInjective(opened)
    /\ presence \in [Users -> Statuses]
    /\ events \in 0..MaxEvents
    /\ chosen \subseteq Users

\* A broadcast, L being the sockets that are listed. What it owes to one of
\* those lies ahead of it. Once it is over, those it failed to reach are in no
\* list: they were disconnected, and are not used again while it is remembered.
RunOK(b, L) ==
    /\ Sound(b)
    /\ b.due \cap L \subseteq Ahead(b)
    /\ b.lists = <<>> => b.dead \cap L = {}

RunsOK(r, L) ==
    /\ r \in [Tasks -> BroadcastType]
    /\ \A t \in Tasks : RunOK(r[t], L)

RunInv == RunsOK(run, Listed)

\* Where a handler is before it is connected, and after it has cleaned up.
Out == {"none", "gone", "leaving", "bye"}

\* A listed socket has a handler that has not cleaned up.
ListedInv == \A s \in Sockets : s \in Listed => pc[s] \notin Out

\* Someone who is not offline, and did not choose to be, has such a handler.
StayInv ==
    \A u \in Users \ chosen :
      presence[u] # "offline" =>
        \E s \in Sockets : UserOf[s] = u /\ pc[s] \notin Out

PeopleInv == ListedInv /\ StayInv

Inv == TypeInv /\ RunInv /\ PeopleInv

LEMMA OneRunOK ==
    ASSUME NEW r, NEW L, RunsOK(r, L), NEW t \in Tasks, NEW b, RunOK(b, L)
    PROVE  RunsOK([r EXCEPT ![t] = b], L)
  <1>1. b \in BroadcastType
    BY DEF RunOK, Sound, Covered
  <1> QED BY <1>1 DEF RunsOK

LEMMA FewerOK ==
    ASSUME NEW r, NEW L, RunsOK(r, L), NEW M, M \subseteq L
    PROVE  RunsOK(r, M)
  <1>1. \A t \in Tasks : RunOK(r[t], M)
    BY DEF RunsOK, RunOK
  <1> QED BY <1>1 DEF RunsOK

LEMMA FreshOK ==
    ASSUME NEW l, RegistryOK(l), NEW ks \in Seq(Keys), NEW L
    PROVE  RunOK(Broadcast(ks, l), L)
  BY BroadcastSound DEF RunOK

LEMMA IdleOK ==
    ASSUME NEW L
    PROVE  RunOK(Idle, L)
  BY IdleSound DEF RunOK

LEMMA ReplacedOK ==
    ASSUME NEW r, NEW L, RunsOK(r, L), NEW gone
    PROVE  RunsOK(Replaced(r, gone), L)
  <1> DEFINE K == {ListOf[s] : s \in gone}
             c(t) == [r[t] EXCEPT !.live = @ \ K]
  <1>1. Replaced(r, gone) = [t \in Tasks |-> c(t)]
    BY DEF Replaced
  <1> HIDE DEF K
  <1>2. ASSUME NEW t \in Tasks
        PROVE  RunOK(c(t), L) /\ c(t) \in BroadcastType
    <2>1. RunOK(r[t], L)
      BY DEF RunsOK
    <2>2. /\ Sound(c(t)) /\ Ahead(c(t)) = Ahead(r[t])
          /\ c(t).due = r[t].due /\ c(t).dead = r[t].dead
          /\ c(t).lists = r[t].lists
      BY <2>1, ReplaceSound DEF RunOK
    <2> HIDE DEF c
    <2> QED BY <2>1, <2>2 DEF RunOK, Sound, Covered
  <1> HIDE DEF c
  <1> QED BY <1>1, <1>2 DEF RunsOK

LEMMA JoinedOK ==
    ASSUME RunInv, NEW s \in Sockets, Unused(s)
    PROVE  RunsOK(Joined(s), Listed \cup {s})
  <1> DEFINE k == ListOf[s]
             sees(t) == k \in run[t].live \cap ToSet(run[t].lists)
             c(t) == [run[t] EXCEPT !.todo[k] = Append(@, s)]
             d(t) == IF sees(t) THEN c(t) ELSE run[t]
  <1>1. Joined(s) = [t \in Tasks |-> d(t)]
    BY DEF Joined
  <1>2. k \in Keys
    BY ListOfKey
  <1>3. ASSUME NEW t \in Tasks
        PROVE  RunOK(d(t), Listed \cup {s}) /\ d(t) \in BroadcastType
    <2>1. RunOK(run[t], Listed) /\ run[t] \in BroadcastType
      BY DEF RunInv, RunsOK
    <2>2. /\ s \notin run[t].dead \cup run[t].due
          /\ s \notin ToSet(run[t].todo[k])
      BY <1>2 DEF Unused
    <2>3. CASE ~sees(t)
      <3>1. d(t) = run[t]
        BY <2>3
      <3> HIDE DEF d
      <3> QED BY <2>1, <2>2, <3>1 DEF RunOK
    <2>4. CASE sees(t)
      <3>1. /\ Sound(c(t)) /\ Ahead(run[t]) \subseteq Ahead(c(t))
            /\ c(t).due = run[t].due /\ c(t).dead = run[t].dead
            /\ c(t).lists = run[t].lists
        BY <2>1, <2>2, <2>4, <1>2, JoinSound DEF RunOK
      <3>2. d(t) = c(t)
        BY <2>4
      <3> HIDE DEF c, d
      <3> QED BY <2>1, <2>2, <3>1, <3>2 DEF RunOK, Sound, Covered
    <2> QED BY <2>3, <2>4
  <1> HIDE DEF d
  <1> QED BY <1>1, <1>3 DEF RunsOK

LEMMA ListedIs == Listed = InLists(listed)
  BY DEF Listed, InLists

LEMMA KeySeqs ==
    /\ \A q \in Seq(Channels) : q \in Seq(Keys)
    /\ \A k \in Keys : <<k>> \in Seq(Keys)
    /\ \A T : IsFiniteSet(T) /\ T \subseteq Users => SetToSeq(T) \in Seq(Keys)
  <1>1. Channels \subseteq Keys /\ Users \subseteq Keys
    BY DEF Keys
  <1>2. ASSUME NEW T, IsFiniteSet(T), T \subseteq Users
        PROVE  SetToSeq(T) \in Seq(Keys)
    <2>1. SetToSeq(T) \in Seq(T) /\ T \subseteq Keys
      BY <1>1, <1>2, OrderedSet
    <2> QED BY <2>1
  <1> QED BY <1>1, <1>2

\* A step that leaves the lists alone keeps RunInv if the broadcast it starts
\* or ends is right.
LEMMA RunFrame ==
    ASSUME RunInv, listed' = listed, NEW t \in Tasks, NEW b,
           RunOK(b, Listed), run' = [run EXCEPT ![t] = b]
    PROVE  RunInv'
  <1>1. Listed' = Listed
    BY DEF Listed
  <1>2. RunsOK(run', Listed)
    BY OneRunOK DEF RunInv
  <1> QED BY <1>1, <1>2 DEF RunInv

LEMMA SameRun ==
    ASSUME RunInv, listed' = listed, run' = run
    PROVE  RunInv'
  <1>1. Listed' = Listed
    BY DEF Listed
  <1> QED BY <1>1 DEF RunInv

\* A handler that goes on, but not to its cleanup, disturbs nobody's status.
LEMMA GotoFrame ==
    ASSUME TypeInv, PeopleInv, UNCHANGED <<listed, status>>, NEW s \in Sockets,
           NEW to, to \in Out => pc[s] \in Out, Goto(s, to)
    PROVE  PeopleInv'
  <1>1. Listed' = Listed
    BY DEF Listed
  <1>3. /\ pc'[s] = to /\ \A o \in Sockets : o # s => pc'[o] = pc[o]
    BY DEF TypeInv, Goto
  <1>4. ListedInv'
    BY <1>1, <1>3 DEF PeopleInv, ListedInv
  <1>5. StayInv'
    <2> SUFFICES ASSUME NEW u \in Users \ chosen, presence[u] # "offline"
                 PROVE  \E o \in Sockets : UserOf[o] = u /\ pc'[o] \notin Out
      BY DEF StayInv, status
    <2>1. PICK o \in Sockets : UserOf[o] = u /\ pc[o] \notin Out
      BY DEF PeopleInv, StayInv
    <2>2. pc'[o] \notin Out
      BY <2>1, <1>3
    <2> QED BY <2>1, <2>2
  <1> QED BY <1>4, <1>5 DEF PeopleInv

\* What the steps of a handler between connect and cleanup have in common.
LEMMA HandlerFrame ==
    ASSUME Inv, UNCHANGED <<registry, status>>, NEW s \in Sockets,
           NEW to \in Places, to \in Out => pc[s] \in Out, Goto(s, to),
           to \in OfChat => IsChat(s),
           peer' = peer \/ peer' = [peer EXCEPT ![s] = "closed"],
           refused' = refused \/ refused' = refused \cup {s},
           events' \in 0..MaxEvents,
           \/ run' = run
           \/ \E b : RunOK(b, Listed) /\ run' = [run EXCEPT ![s] = b]
    PROVE  Inv'
  <1>1. /\ listed' = listed /\ opened' = opened
        /\ presence' = presence /\ chosen' = chosen
    BY DEF registry, status
  <1>2. TypeInv'
    <2>1. /\ pc' \in [Sockets -> Places]
          /\ \A o \in Sockets : pc'[o] \in OfChat => IsChat(o)
      BY DEF Inv, TypeInv, Goto
    <2>2. peer' \in [Sockets -> {"new", "open", "closed"}]
      BY DEF Inv, TypeInv
    <2> QED BY <1>1, <2>1, <2>2 DEF Inv, TypeInv
  <1>3. RunInv'
    <2>1. CASE run' = run
      BY <1>1, <2>1, SameRun DEF Inv
    <2>2. CASE \E b : RunOK(b, Listed) /\ run' = [run EXCEPT ![s] = b]
      <3>1. s \in Tasks
        BY DEF Tasks
      <3> QED BY <1>1, <2>2, <3>1, RunFrame DEF Inv
    <2> QED BY <2>1, <2>2
  <1>4. PeopleInv'
    BY <1>1, GotoFrame DEF Inv, status
  <1> QED BY <1>2, <1>3, <1>4 DEF Inv

\* A broadcast to the channel of a socket.
LEMMA ToChannelOK ==
    ASSUME Inv, NEW s \in Sockets, ToChannel(s)
    PROVE  \E b : RunOK(b, Listed) /\ run' = [run EXCEPT ![s] = b]
  <1>1. <<ListOf[s]>> \in Seq(Keys)
    BY ListOfKey, KeySeqs
  <1> QED BY <1>1, FreshOK DEF ToChannel, Inv, TypeInv

LEMMA EventType ==
    ASSUME Inv
    PROVE  /\ events \in 0..MaxEvents
           /\ Event => events' \in 0..MaxEvents
  <1>1. MaxEvents \in Nat /\ events \in 0..MaxEvents
    BY PresenceAssumption DEF Inv, TypeInv
  <1> QED BY <1>1 DEF Event

-----------------------------------------------------------------------------
(* Each step keeps the invariant *)

LEMMA InitInv == Init => Inv
  <1> SUFFICES ASSUME Init
               PROVE  Inv
    OBVIOUS
  <1>1. \A k \in Keys : listed[k] = <<>> /\ ToSet(listed[k]) = {}
    BY EmptyList DEF Init
  <1>2. Listed = {}
    BY <1>1 DEF Listed
  <1>3. RegistryOK(listed)
    BY <1>1, EmptyList DEF Init, RegistryOK
  <1>4. opened \in Seq(Channels) /\ IsInjective(opened)
    BY EmptyList DEF Init
  <1>5. TypeInv
    BY <1>3, <1>4, PresenceAssumption
    DEF Init, TypeInv, Places, OfChat, Statuses
  <1>6. RunInv
    <2>1. Idle \in BroadcastType
      BY IdleSound DEF Sound, Covered
    <2> QED BY <2>1, IdleOK DEF Init, RunInv, RunsOK
  <1>7. PeopleInv
    BY <1>2 DEF Init, PeopleInv, ListedInv, StayInv
  <1> QED BY <1>5, <1>6, <1>7 DEF Inv

LEMMA RosterKeeps ==
    ASSUME Inv, NEW s \in Sockets, Roster(s)
    PROVE  Inv'
  BY HandlerFrame, ToChannelOK, EventType DEF Roster, Places, Out, OfChat

LEMMA ListenKeeps ==
    ASSUME Inv, NEW s \in Sockets, Listen(s)
    PROVE  Inv'
  <1>1. CASE Goto(s, "broken") /\ peer' = [peer EXCEPT ![s] = "closed"]
    BY <1>1, HandlerFrame, EventType DEF Listen, Places, Out, OfChat
  <1>2. CASE Goto(s, "receive") /\ peer' = peer
    BY <1>2, HandlerFrame, EventType DEF Listen, Places, Out, OfChat
  <1> QED BY <1>1, <1>2 DEF Listen, Break

LEMMA PongFailsKeeps ==
    ASSUME Inv, NEW s \in Sockets, PongFails(s)
    PROVE  Inv'
  BY HandlerFrame, EventType DEF PongFails, Break, Places, Out, OfChat

LEMMA ReceiveKeeps ==
    ASSUME Inv, NEW s \in Sockets, Receive(s)
    PROVE  Inv'
  BY HandlerFrame, EventType DEF Receive, Places, Out, OfChat

LEMMA StoredKeeps ==
    ASSUME Inv, NEW s \in Sockets, Stored(s)
    PROVE  Inv'
  <1>1. PICK to \in {"reply", "tell"} : Goto(s, to)
    BY DEF Stored
  <1>2. to \in Places /\ to \notin Out
    BY DEF Places, Out
  <1>3. IsChat(s)
    BY DEF Stored, At, Inv, TypeInv, OfChat
  <1> QED BY <1>1, <1>2, <1>3, HandlerFrame, ToChannelOK, EventType DEF Stored

LEMMA TellKeeps ==
    ASSUME Inv, NEW s \in Sockets, Tell(s)
    PROVE  Inv'
  <1>1. IsChat(s)
    BY DEF Tell, At, Inv, TypeInv, OfChat
  <1> QED BY <1>1, HandlerFrame, ToChannelOK, EventType DEF Tell, Places, Out

LEMMA DatabaseFailsKeeps ==
    ASSUME Inv, NEW s \in Sockets, DatabaseFails(s)
    PROVE  Inv'
  <1>1. \E b : RunOK(b, Listed) /\ run' = [run EXCEPT ![s] = b]
    BY IdleOK DEF DatabaseFails
  <1> QED BY <1>1, HandlerFrame, EventType DEF DatabaseFails, Break, Places, Out, OfChat

LEMMA NotifyKeeps ==
    ASSUME Inv, NEW s \in Sockets, Notify(s)
    PROVE  Inv'
  <1> DEFINE told == {u \in Away(s) : NotifOf(u) # {}}
  <1>1. IsFiniteSet(told) /\ told \subseteq Users
    <2>1. CASE ListOf[s] \in Channels
      <3>1. told \subseteq Users
        BY <2>1, PresenceAssumption DEF Away
      <3> QED BY <3>1, PresenceAssumption, FS_Subset
    <2>2. ListOf[s] \in Channels
      BY DEF Notify, At, Inv, TypeInv, OfChat, IsChat
    <2> QED BY <2>1, <2>2
  <1>2. SetToSeq(told) \in Seq(Keys)
    BY <1>1, KeySeqs
  <1>3. \E b : RunOK(b, Listed) /\ run' = [run EXCEPT ![s] = b]
    BY <1>2, FreshOK DEF Notify, Inv, TypeInv
  <1> QED BY <1>3, HandlerFrame, EventType DEF Notify, Places, Out, OfChat

LEMMA ByeKeeps ==
    ASSUME Inv, NEW s \in Sockets, Bye(s)
    PROVE  Inv'
  <1>1. pc[s] \in Out
    BY DEF Bye, At, Out
  <1>2. CASE IsChat(s)
    BY <1>1, <1>2, HandlerFrame, ToChannelOK, EventType
    DEF Bye, Places, OfChat
  <1>3. CASE ~IsChat(s)
    BY <1>1, <1>3, HandlerFrame, EventType DEF Bye, Places, OfChat
  <1> QED BY <1>2, <1>3

LEMMA GoneKeeps ==
    ASSUME Inv, NEW s \in Sockets, Gone(s)
    PROVE  Inv'
  <1>1. pc[s] \in Out
    BY DEF Gone, At, Out
  <1> QED BY <1>1, HandlerFrame, EventType DEF Gone, Places, OfChat

\* Nobody's handler moves and nobody's status changes.
LEMMA SamePeople ==
    ASSUME PeopleInv, UNCHANGED <<listed, pc, status>>
    PROVE  PeopleInv'
  BY DEF PeopleInv, ListedInv, StayInv, Listed, status

LEMMA PeerClosesKeeps ==
    ASSUME Inv, NEW s \in Sockets, PeerCloses(s)
    PROVE  Inv'
  <1>1. TypeInv'
    BY DEF PeerCloses, Inv, TypeInv, registry, status
  <1>2. RunInv' /\ PeopleInv'
    BY SameRun, SamePeople DEF PeerCloses, Inv, registry
  <1> QED BY <1>1, <1>2 DEF Inv

LEMMA PostKeeps ==
    ASSUME Inv, NEW q \in Requests, NEW ch \in Channels, Post(q, ch)
    PROVE  Inv'
  <1>1. TypeInv'
    BY EventType DEF Post, Inv, TypeInv, registry, status
  <1>2. <<ch>> \in Seq(Keys) /\ q \in Tasks
    BY KeySeqs DEF Keys, Tasks
  <1>3. RunInv'
    BY <1>2, FreshOK, RunFrame DEF Post, Inv, TypeInv, registry
  <1>4. PeopleInv'
    BY SamePeople DEF Post, Inv, registry
  <1> QED BY <1>1, <1>3, <1>4 DEF Inv

LEMMA PingKeeps ==
    ASSUME Inv, NEW s \in Sockets, Ping(s)
    PROVE  Inv'
  <1>1. /\ UserOf[s] \in Users /\ presence \in [Users -> Statuses]
        /\ listed' = listed /\ opened' = opened /\ pc' = pc
        /\ chosen' = chosen /\ run' = run
    BY ListOfKey DEF Ping, Inv, TypeInv, registry
  <1>2. TypeInv'
    BY <1>1 DEF Ping, Inv, TypeInv, Statuses
  <1>3. Listed' = Listed
    BY <1>1 DEF Listed
  <1>4. \A u \in Users : presence'[u] = "offline" <=> presence[u] = "offline"
    BY <1>1 DEF Ping
  <1>5. PeopleInv'
    BY <1>1, <1>3, <1>4
    DEF Inv, PeopleInv, ListedInv, StayInv
  <1> QED BY <1>1, <1>2, <1>5, SameRun DEF Inv

LEMMA SetStatusKeeps ==
    ASSUME Inv, NEW q \in Requests, NEW u \in Users, NEW st \in Settable,
           SetStatus(q, u, st)
    PROVE  Inv'
  <1>1. /\ listed' = listed /\ opened' = opened /\ pc' = pc
        /\ chosen' = chosen \cup {u}
        /\ presence' = [presence EXCEPT ![u] = st]
        /\ run' = [run EXCEPT ![q] = Broadcast(opened, listed)]
    BY DEF SetStatus, Announce
  <1>2. TypeInv'
    BY <1>1, EventType, PresenceAssumption DEF SetStatus, Inv, TypeInv
  <1>3. opened \in Seq(Keys) /\ q \in Tasks
    BY KeySeqs DEF Inv, TypeInv, Tasks
  <1>4. RunInv'
    BY <1>1, <1>3, FreshOK, RunFrame DEF Inv, TypeInv
  <1>5. Listed' = Listed
    BY <1>1 DEF Listed
  <1>6. \A v \in Users \ chosen' :
          v \in Users \ chosen /\ presence'[v] = presence[v]
    BY <1>1 DEF Inv, TypeInv
  <1>7. PeopleInv'
    BY <1>1, <1>5, <1>6
    DEF Inv, PeopleInv, ListedInv, StayInv
  <1> QED BY <1>2, <1>4, <1>7 DEF Inv

LEMMA ConnectKeeps ==
    ASSUME Inv, NEW s \in Sockets, Connect(s)
    PROVE  Inv'
  <1> DEFINE u == UserOf[s]
             to == IF IsChat(s) THEN "announce" ELSE "roster"
  <1>1. /\ u \in Users /\ ListOf[s] \in Keys /\ s \in Tasks
        /\ s \notin Listed /\ Unused(s)
        /\ pc' = [pc EXCEPT ![s] = to]
        /\ peer' = [peer EXCEPT ![s] = "open"] /\ refused' = refused \ {s}
        /\ listed' = Appended(s) /\ chosen' = chosen \ {u}
        /\ presence' = [presence EXCEPT ![u] = "online"]
        /\ run' = [Joined(s) EXCEPT ![s] = Broadcast(opened', Appended(s))]
        /\ events' \in 0..MaxEvents
    BY ListOfKey, EventType DEF Connect, Announce, Unused, Goto, Tasks
  <1>2. /\ RegistryOK(listed') /\ Listed' = Listed \cup {s}
        /\ \A k \in Keys :
             ToSet(listed'[k]) =
               ToSet(listed[k]) \cup (IF k = ListOf[s] THEN {s} ELSE {})
    <2>1. RegistryOK(listed)
      BY DEF Inv, TypeInv
    <2>2. Listed' = InLists(listed')
      BY DEF Listed, InLists
    <2>3. s \notin Listed /\ listed' = Appended(s)
      BY <1>1
    <2> QED BY <2>1, <2>2, <2>3, AppendedOK
  <1>3. opened' \in Seq(Channels) /\ IsInjective(opened')
    <2>1. opened \in Seq(Channels) /\ IsInjective(opened)
      BY DEF Inv, TypeInv
    <2>2. CASE IsChat(s) /\ ListOf[s] \notin ToSet(opened)
      <3>1. opened' = Append(opened, ListOf[s]) /\ ListOf[s] \in Channels
        BY <2>2 DEF Connect, IsChat
      <3> QED BY <2>1, <2>2, <3>1, AppendKeeps
    <2>3. CASE ~(IsChat(s) /\ ListOf[s] \notin ToSet(opened))
      BY <2>1, <2>3 DEF Connect
    <2> QED BY <2>2, <2>3
  <1>4. TypeInv'
    <2>1. to \in Places /\ to \notin OfChat
      BY DEF Places, OfChat
    <2> HIDE DEF to
    <2>2. /\ pc' \in [Sockets -> Places]
          /\ \A o \in Sockets : pc'[o] \in OfChat => IsChat(o)
      BY <1>1, <2>1 DEF Inv, TypeInv
    <2>3. /\ peer' \in [Sockets -> {"new", "open", "closed"}]
          /\ presence' \in [Users -> Statuses]
          /\ refused' \subseteq Sockets /\ chosen' \subseteq Users
      BY <1>1 DEF Inv, TypeInv, Statuses
    <2> QED BY <1>1, <1>2, <1>3, <2>2, <2>3 DEF TypeInv
  <1>5. RunInv'
    <2>1. RunsOK(Joined(s), Listed')
      BY <1>1, <1>2, JoinedOK DEF Inv
    <2>2. opened' \in Seq(Keys)
      BY <1>3, KeySeqs
    <2>3. RunOK(Broadcast(opened', Appended(s)), Listed')
      BY <1>1, <1>2, <2>2, FreshOK
    <2>4. RunsOK(run', Listed')
      BY <1>1, <2>1, <2>3, OneRunOK
    <2> QED BY <2>4 DEF RunInv
  <1>6. \A v \in Users \ chosen' :
          v # u => v \in Users \ chosen /\ presence'[v] = presence[v]
    BY <1>1 DEF Inv, TypeInv
  <1>7. presence'[u] = "online"
    BY <1>1 DEF Inv, TypeInv
  <1>8. pc'[s] = to /\ to \notin Out
        /\ \A o \in Sockets : o # s => pc'[o] = pc[o]
    BY <1>1 DEF Inv, TypeInv, Out
  <1> HIDE DEF u, to
  <1>11. ListedInv'
    BY <1>2, <1>8 DEF Inv, PeopleInv, ListedInv
  <1>12. StayInv'
    <2> SUFFICES ASSUME NEW v \in Users \ chosen', presence'[v] # "offline"
                 PROVE  \E o \in Sockets : UserOf[o] = v /\ pc'[o] \notin Out
      BY DEF StayInv
    <2>1. CASE v = u
      BY <1>8, <2>1 DEF u
    <2>2. CASE v # u
      <3>1. v \in Users \ chosen /\ presence[v] # "offline"
        BY <1>6, <2>2
      <3>2. PICK o \in Sockets : UserOf[o] = v /\ pc[o] \notin Out
        BY <3>1 DEF Inv, PeopleInv, StayInv
      <3>3. pc'[o] \notin Out
        BY <2>2, <3>2, <1>8 DEF u
      <3> QED BY <3>2, <3>3
    <2> QED BY <2>1, <2>2
  <1> QED BY <1>4, <1>5, <1>11, <1>12 DEF Inv, PeopleInv

\* Sockets leave the lists, and nobody's status changes.
LEMMA FewerListed ==
    ASSUME TypeInv, NEW gone, listed' = Without(gone)
    PROVE  RegistryOK(listed') /\ Listed' = Listed \ gone
  BY WithoutOK DEF TypeInv, Listed, InLists

LEMMA DeliverKeeps ==
    ASSUME Inv, NEW t \in Tasks, Deliver(t)
    PROVE  Inv'
  <1> DEFINE s == Head(run[t].todo[Head(run[t].lists)])
             ok == CanSend(s)
             b == Sent(run[t], ok)
             kept == b.lists # <<>> \/ (t \in Sockets /\ pc[t] = "tell")
             c == IF kept THEN b ELSE Idle
             r == [run EXCEPT ![t] = c]
  <1>1. /\ run[t].lists # <<>>
        /\ refused' = refused \/ refused' = refused \cup {s}
        /\ \/ b.lists = <<>> /\ listed' = Without(b.dead)
              /\ run' = Replaced(r, b.dead)
           \/ b.lists # <<>> /\ listed' = listed /\ run' = r
        /\ peer' = peer /\ pc' = pc /\ opened' = opened
        /\ presence' = presence /\ chosen' = chosen /\ events' = events
    BY DEF Deliver, Running, status
  <1>2. RunsOK(run, Listed) /\ RunOK(run[t], Listed)
    BY DEF Inv, RunInv, RunsOK
  <1>3. ok \in BOOLEAN
    BY DEF CanSend
  <1> HIDE DEF ok
  <1>4. /\ s \in Sockets /\ Sound(b) /\ b.due = run[t].due \ {s}
        /\ Ahead(run[t]) \subseteq Ahead(b) \cup {s}
    BY <1>1, <1>2, <1>3, SentSound DEF RunOK
  <1> HIDE DEF b, s
  <1>5. b.due \cap Listed \subseteq Ahead(b)
    BY <1>2, <1>4 DEF RunOK
  <1>6. CASE b.lists # <<>> /\ listed' = listed /\ run' = r
    <2>1. RunOK(b, Listed) /\ c = b
      BY <1>4, <1>5, <1>6 DEF RunOK
    <2> HIDE DEF c
    <2>2. RunInv'
      BY <1>6, <2>1, RunFrame DEF Inv
    <2>3. PeopleInv'
      BY <1>1, <1>6, SamePeople DEF Inv, status
    <2>4. TypeInv'
      BY <1>1, <1>4, <1>6 DEF Inv, TypeInv
    <2> QED BY <2>2, <2>3, <2>4 DEF Inv
  <1>7. CASE /\ b.lists = <<>> /\ listed' = Without(b.dead)
             /\ run' = Replaced(r, b.dead)
    <2>1. RegistryOK(listed') /\ Listed' = Listed \ b.dead
      BY <1>7, FewerListed DEF Inv
    <2>2. RunsOK(run, Listed')
      BY <1>2, <2>1, FewerOK
    <2>3. RunOK(b, Listed')
      BY <1>4, <1>5, <2>1 DEF RunOK
    <2>4. RunOK(c, Listed')
      BY <2>3, IdleOK
    <2> HIDE DEF c
    <2>5. RunsOK(r, Listed')
      BY <2>2, <2>4, OneRunOK
    <2> HIDE DEF r
    <2>6. RunInv'
      BY <1>7, <2>5, ReplacedOK DEF RunInv
    <2>7. ListedInv' /\ StayInv'
      BY <1>1, <2>1
      DEF Inv, PeopleInv, ListedInv, StayInv
    <2>8. TypeInv'
      BY <1>1, <1>4, <2>1 DEF Inv, TypeInv
    <2> QED BY <2>6, <2>7, <2>8 DEF Inv, PeopleInv
  <1> QED BY <1>1, <1>6, <1>7

\* Either a socket of the user is left in the lists, or offline is announced.
LEMMA LeaveKeeps ==
    ASSUME Inv, NEW s \in Sockets, Leave(s)
    PROVE  Inv'
  <1> DEFINE u == UserOf[s]
             r == Replaced(run, {s})
  <1>1. /\ u \in Users /\ s \in Tasks /\ pc[s] = "receive"
        /\ pc' = [pc EXCEPT ![s] = "leaving"] /\ listed' = Without({s})
        /\ peer' = peer /\ refused' = refused /\ events' = events
        /\ opened' = opened
    BY ListOfKey DEF Leave, At, Goto, Tasks
  <1>2. \/ /\ Remaining(s) = {} /\ chosen' = chosen \ {u}
           /\ presence' = [presence EXCEPT ![u] = "offline"]
           /\ run' = [r EXCEPT ![s] = Broadcast(opened, listed')]
        \/ /\ Remaining(s) # {} /\ run' = r
           /\ presence' = presence /\ chosen' = chosen
    BY <1>1 DEF Leave, Announce, status
  <1>3. RegistryOK(listed') /\ Listed' = Listed \ {s}
    BY <1>1, FewerListed DEF Inv
  <1>4. TypeInv'
    <2>1. /\ pc' \in [Sockets -> Places]
          /\ \A o \in Sockets : pc'[o] \in OfChat => IsChat(o)
      BY <1>1 DEF Inv, TypeInv, Places, OfChat
    <2>2. presence' \in [Users -> Statuses] /\ chosen' \subseteq Users
      BY <1>1, <1>2 DEF Inv, TypeInv, Statuses
    <2> QED BY <1>1, <1>3, <2>1, <2>2 DEF Inv, TypeInv
  <1>5. RunInv'
    <2>1. RunsOK(r, Listed')
      BY <1>3, FewerOK, ReplacedOK DEF Inv, RunInv
    <2> HIDE DEF r
    <2>2. opened \in Seq(Keys)
      BY KeySeqs DEF Inv, TypeInv
    <2>3. RunOK(Broadcast(opened, listed'), Listed')
      BY <1>3, <2>2, FreshOK
    <2>4. RunsOK(run', Listed')
      BY <1>1, <1>2, <2>1, <2>3, OneRunOK
    <2> QED BY <2>4 DEF RunInv
  <1> HIDE DEF r
  <1>6. pc'[s] = "leaving" /\ \A o \in Sockets : o # s => pc'[o] = pc[o]
    BY <1>1 DEF Inv, TypeInv
  <1>7. ListedInv'
    BY <1>3, <1>6 DEF Inv, PeopleInv, ListedInv
  <1>8. \A v \in Users \ chosen' :
          v # u => v \in Users \ chosen /\ presence'[v] = presence[v]
    BY <1>2 DEF Inv, TypeInv
  <1>9. CASE Remaining(s) = {}
    <2>1. presence'[u] = "offline"
      BY <1>1, <1>2, <1>9 DEF Inv, TypeInv
    <2> HIDE DEF u
    <2>2. StayInv'
      <3> SUFFICES ASSUME NEW v \in Users \ chosen', presence'[v] # "offline"
                   PROVE  \E o \in Sockets : UserOf[o] = v /\ pc'[o] \notin Out
        BY DEF StayInv
      <3>1. v # u /\ v \in Users \ chosen /\ presence[v] # "offline"
        BY <1>8, <2>1
      <3>2. PICK o \in Sockets : UserOf[o] = v /\ pc[o] \notin Out
        BY <3>1 DEF Inv, PeopleInv, StayInv
      <3>3. o # s
        BY <3>1, <3>2 DEF u
      <3> QED BY <3>2, <3>3, <1>6
    <2> QED BY <1>4, <1>5, <1>7, <2>2 DEF Inv, PeopleInv
  <1>10. CASE Remaining(s) # {}
    <2>1. presence' = presence /\ chosen' = chosen
      BY <1>2, <1>10
    <2>2. PICK o \in Remaining(s) : TRUE
      BY <1>10
    <2>3. o \in Sockets /\ o # s /\ o \in Listed /\ UserOf[o] = u
      <3>1. CASE IsChat(s)
        <4>1. o \in Listed /\ UserOf[o] = u /\ o # s
          BY <2>2, <3>1 DEF Remaining, ChatOf
        <4>2. Listed \subseteq Sockets
          BY ListElements DEF Listed, Inv, TypeInv, RegistryOK
        <4> QED BY <4>1, <4>2
      <3>2. CASE ~IsChat(s)
        <4>1. o \in ToSet(listed[u]) /\ o # s
          BY <2>2, <3>2 DEF Remaining, NotifOf
        <4>2. u \in Keys /\ listed[u] \in Seq(Sockets)
          BY <1>1 DEF Keys, Inv, TypeInv, RegistryOK
        <4>3. o \in Sockets
          BY <4>1, <4>2, ListElements
        <4>4. ListOf[o] = u
          BY <4>1, <4>2, <4>3 DEF Inv, TypeInv, RegistryOK
        <4>5. UserOf[o] = u
          BY <1>1, <4>3, <4>4, PresenceAssumption
        <4> QED BY <4>1, <4>2, <4>3, <4>5 DEF Listed
      <3> QED BY <3>1, <3>2
    <2>4. pc'[o] \notin Out
      BY <1>6, <2>3 DEF Inv, PeopleInv, ListedInv
    <2>5. StayInv'
      <3> SUFFICES ASSUME NEW v \in Users \ chosen, presence[v] # "offline"
                   PROVE  \E x \in Sockets : UserOf[x] = v /\ pc'[x] \notin Out
        BY <2>1 DEF StayInv
      <3>1. PICK x \in Sockets : UserOf[x] = v /\ pc[x] \notin Out
        BY DEF Inv, PeopleInv, StayInv
      <3>2. CASE x = s
        BY <2>3, <2>4, <3>1, <3>2
      <3>3. CASE x # s
        BY <1>6, <3>1, <3>3
      <3> QED BY <3>2, <3>3
    <2> QED BY <1>4, <1>5, <1>7, <2>5 DEF Inv, PeopleInv
  <1> QED BY <1>9, <1>10

-----------------------------------------------------------------------------
(* The theorems *)

LEMMA NextInv == Inv /\ [Next]_vars => Inv'
  <1> SUFFICES ASSUME Inv, [Next]_vars
               PROVE  Inv'
    OBVIOUS
  <1>1. CASE \E t \in Tasks : Deliver(t)
    BY <1>1, DeliverKeeps
  <1>2. ASSUME NEW s \in Sockets, Handler(s)
        PROVE  Inv'
    BY <1>2, RosterKeeps, ListenKeeps, StoredKeeps, TellKeeps, NotifyKeeps,
       LeaveKeeps, ByeKeeps, GoneKeeps DEF Handler
  <1>3. ASSUME NEW s \in Sockets,
               \/ Connect(s) \/ PeerCloses(s) \/ Receive(s)
               \/ Ping(s) \/ PongFails(s) \/ DatabaseFails(s)
        PROVE  Inv'
    BY <1>3, ConnectKeeps, PeerClosesKeeps, ReceiveKeeps, PingKeeps,
       PongFailsKeeps, DatabaseFailsKeeps
  <1>4. ASSUME NEW q \in Requests,
               \/ \E u \in Users, st \in Settable : SetStatus(q, u, st)
               \/ \E ch \in Channels : Post(q, ch)
        PROVE  Inv'
    BY <1>4, SetStatusKeeps, PostKeeps
  <1>5. CASE UNCHANGED vars
    <2>1. /\ TypeInv' /\ listed' = listed /\ run' = run /\ pc' = pc
          /\ UNCHANGED status
      BY <1>5 DEF vars, registry, status, Inv, TypeInv
    <2> QED BY <2>1, SameRun, SamePeople DEF Inv
  <1> QED BY <1>1, <1>2, <1>3, <1>4, <1>5 DEF Next

\* Nothing that can happen to the sockets breaks the invariant.
THEOREM Invariance == Spec => []Inv
  BY InitInv, NextInv, PTL DEF Spec

\* Types; every socket is in the list of its own channel or user, once.
THEOREM TypeCorrect == Spec => []TypeOK
  <1>1. Inv => TypeOK
    <2> SUFFICES ASSUME Inv
                 PROVE  TypeOK
      OBVIOUS
    <2>1. ASSUME NEW t \in Tasks
          PROVE  /\ ToSet(run[t].lists) \subseteq Keys
                 /\ run[t].dead \cup run[t].due \subseteq Sockets
                 /\ Running(t) => run[t].todo[Head(run[t].lists)] # <<>>
      <3>1. Sound(run[t])
        BY DEF Inv, RunInv, RunsOK, RunOK
      <3>2. /\ run[t].lists \in Seq(Keys) /\ run[t].dead \in SUBSET Sockets
            /\ run[t].due \in SUBSET Sockets
        BY <3>1 DEF Sound, Covered, BroadcastType
      <3> QED BY <3>1, <3>2, ListElements DEF Sound, Running
    <2> QED BY <2>1 DEF Inv, TypeInv, RegistryOK, TypeOK, Places
  <1> QED BY <1>1, Invariance, PTL

\* However connects and disconnects move the lists under a broadcast, it skips
\* no socket that stays registered and sends to none twice.
THEOREM BroadcastReaches == Spec => []NobodySkippedOrRepeated
  <1>1. Inv => NobodySkippedOrRepeated
    BY DEF Inv, RunInv, RunsOK, RunOK, Sound, Covered, Ahead,
           NobodySkippedOrRepeated
  <1> QED BY <1>1, Invariance, PTL

\* In whatever order a user's handlers clean up, the last one shows the user
\* as offline.
THEOREM CleanupShowsOffline == Spec => []GoneIsOffline
  <1>1. Inv => GoneIsOffline
    BY DEF Inv, PeopleInv, StayInv, Out, GoneIsOffline
  <1> QED BY <1>1, Invariance, PTL

\* A partner of a direct channel who is not notified of a message has a socket
\* there that the message was sent to, or that connected after it.
THEOREM PartnerNotLeftOut == Spec => PartnerIsTold
  <1> DEFINE Told(s) ==
        Notify(s) =>
          \A u \in (Partners[ListOf[s]] \ {UserOf[s]}) \ Away(s) :
            \E o \in ToSet(listed[ListOf[s]]) :
              UserOf[o] = u /\ o \notin run[s].due \cup run[s].dead
  <1>1. ASSUME Inv, NEW s \in Sockets
        PROVE  Told(s)
    <2> SUFFICES ASSUME Notify(s), NEW u, u \in OnlineIds(ListOf[s])
                 PROVE  \E o \in ToSet(listed[ListOf[s]]) :
                          UserOf[o] = u /\ o \notin run[s].due \cup run[s].dead
      BY DEF Away
    <2>1. PICK o \in ToSet(listed[ListOf[s]]) : UserOf[o] = u
      BY DEF OnlineIds
    <2>2. o \in Listed
      BY <2>1, ListOfKey DEF Listed
    <2>3. RunOK(run[s], Listed) /\ run[s].lists = <<>>
      BY <1>1 DEF Inv, RunInv, RunsOK, Tasks, Notify, At, Running
    <2>4. Ahead(run[s]) = {}
      BY <2>3, OverIsDone DEF RunOK
    <2> QED BY <2>1, <2>2, <2>3, <2>4 DEF RunOK
  <1>2. Inv /\ [Next]_vars => [\A s \in Sockets : Told(s)]_vars
    BY <1>1
  <1>3. Spec => [][\A s \in Sockets : Told(s)]_vars
    BY <1>2, Invariance, PTL DEF Spec
  <1> QED BY <1>3 DEF PartnerIsTold

=============================================================================
