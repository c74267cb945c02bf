------------------------ MODULE ProviderStreamsProofs ------------------------
(* Proofs about ProviderStreams, for any answers in any number of fragments:   *)
(* what the parsers of the three protocols put together from the events that a *)
(* connection carried, and what goes back to the provider.                     *)
EXTENDS ProviderStreams, TLAPS, WellFoundedInduction

-----------------------------------------------------------------------------
(* What is taken from a sequence *)

\* A set of numbers that is not empty has a least one.
LEMMA LeastNumber ==
  ASSUME NEW S \in SUBSET Nat, S # {}
  PROVE  \E n \in S : \A m \in S : n <= m
<1>1. IsWellFoundedOn(OpToRel(<, Nat), Nat)
  BY NatLessThanWellFounded
<1>2. PICK n \in S : \A m \in S : <<m, n>> \notin OpToRel(<, Nat)
  BY <1>1, WFMin
<1>3. \A m \in S : ~(m < n)
  BY <1>2 DEF OpToRel
<1> QED
  BY <1>3

\* The table of what is taken from the first elements of s, up to each length.
Table(s, S, f) ==
  f = [n \in 0..Len(s) |-> IF n = 0 THEN <<>> ELSE IF n \in S THEN Append(f[n - 1], s[n]) ELSE f[n - 1]]

\* The first k entries of such a table.
FirstEntries(s, S, k, f) ==
  \A n \in 0..k : f[n] = IF n = 0 THEN <<>> ELSE IF n \in S THEN Append(f[n - 1], s[n]) ELSE f[n - 1]

LEMMA FirstEntriesExist ==
  ASSUME NEW s, NEW S
  PROVE  \A k \in Nat : \E f : FirstEntries(s, S, k, f)
<1> DEFINE Bad == {k \in Nat : ~ \E f : FirstEntries(s, S, k, f)}
<1>1. SUFFICES ASSUME Bad # {} PROVE FALSE
  OBVIOUS
<1>2. PICK k \in Bad : \A m \in Bad : k <= m
  BY <1>1, LeastNumber
<1>3. k # 0
  <2>1. FirstEntries(s, S, 0, [n \in {0} |-> <<>>])
    BY DEF FirstEntries
  <2> QED
    BY <2>1
<1>4. k - 1 \in Nat /\ k - 1 \notin Bad
  BY <1>2, <1>3
<1>5. PICK f : FirstEntries(s, S, k - 1, f)
  BY <1>4
<1> DEFINE last == IF k \in S THEN Append(f[k - 1], s[k]) ELSE f[k - 1]
           g == [n \in 0..k |-> IF n = k THEN last ELSE f[n]]
<1> HIDE DEF last
<1>6. FirstEntries(s, S, k, g)
  <2> SUFFICES ASSUME NEW n \in 0..k
               PROVE  g[n] = IF n = 0 THEN <<>> ELSE IF n \in S THEN Append(g[n - 1], s[n]) ELSE g[n - 1]
    BY DEF FirstEntries
  <2>1. CASE n = k
    <3>1. g[n] = last /\ g[n - 1] = f[k - 1] /\ n # 0
      BY <2>1, <1>3, <1>4
    <3> QED
      BY <2>1, <3>1 DEF last
  <2>2. CASE n # k
    <3>1. n \in 0..(k - 1) /\ g[n] = f[n] /\ (n # 0 => g[n - 1] = f[n - 1])
      BY <2>2, <1>4
    <3> QED
      BY <3>1, <1>5 DEF FirstEntries
  <2> QED
    BY <2>1, <2>2
<1> QED
  BY <1>2, <1>6

\* The recursive function of Taken has the value that it describes.
LEMMA TakenTable ==
  ASSUME NEW s, Len(s) \in Nat, NEW S
  PROVE  \E f : Table(s, S, f) /\ Taken(s, S) = f[Len(s)]
<1>1. PICK f : FirstEntries(s, S, Len(s), f)
  BY FirstEntriesExist
<1> DEFINE g == [n \in 0..Len(s) |-> f[n]]
<1>2. \A n \in 0..Len(s) :
        g[n] = IF n = 0 THEN <<>> ELSE IF n \in S THEN Append(g[n - 1], s[n]) ELSE g[n - 1]
  BY <1>1 DEF FirstEntries
<1>3. g = [n \in 0..Len(s) |-> g[n]]
  OBVIOUS
<1> HIDE DEF g
<1>4. Table(s, S, g)
  BY <1>2, <1>3, Zenon DEF Table
<1>5. Table(s, S, CHOOSE h : Table(s, S, h))
  BY <1>4, Zenon
<1> QED
  BY <1>5, Zenon DEF Taken, Table

\* What is taken stands in its order at places of s, at all those of S.
PlacesOf(s, S, k, t, at) ==
  /\ at \in [1..Len(t) -> 1..k]
  /\ \A n \in 1..Len(t) : at[n] \in S /\ t[n] = s[at[n]]
  /\ \A n, m \in 1..Len(t) : n < m => at[n] < at[m]
  /\ \A p \in 1..k : p \in S => \E n \in 1..Len(t) : at[n] = p

LEMMA TakenPlaces ==
  ASSUME NEW X, NEW s \in Seq(X), NEW S
  PROVE  /\ Taken(s, S) \in Seq(X)
         /\ \E at : PlacesOf(s, S, Len(s), Taken(s, S), at)
<1>1. PICK f : Table(s, S, f) /\ Taken(s, S) = f[Len(s)]
  BY TakenTable
<1>2. \A n \in 0..Len(s) :
        f[n] = IF n = 0 THEN <<>> ELSE IF n \in S THEN Append(f[n - 1], s[n]) ELSE f[n - 1]
  BY <1>1 DEF Table
<1> DEFINE Good(k) == f[k] \in Seq(X) /\ \E at : PlacesOf(s, S, k, f[k], at)
           Bad == {k \in 0..Len(s) : ~Good(k)}
<1>3. SUFFICES ASSUME Bad # {} PROVE FALSE
  <2>1. Len(s) \in 0..Len(s)
    OBVIOUS
  <2> QED
    BY <1>1, <1>3, <2>1
<1>4. Bad \in SUBSET Nat
  OBVIOUS
<1> HIDE DEF Bad
<1>5. PICK k \in Bad : \A m \in Bad : k <= m
  BY <1>3, <1>4, LeastNumber
<1> USE DEF Bad
<1>6. k # 0
  <2>1. f[0] = <<>> /\ <<>> \in Seq(X) /\ Len(<<>>) = 0
    BY <1>2
  <2>2. PlacesOf(s, S, 0, <<>>, [n \in {} |-> 0])
    BY <2>1 DEF PlacesOf
  <2>3. Good(0)
    BY <2>1, <2>2
  <2> QED
    BY <2>3, <1>5
<1>7. k \in 1..Len(s) /\ k - 1 \in 0..Len(s) /\ k - 1 \notin Bad
  BY <1>4, <1>5, <1>6
<1>8. Good(k - 1)
  BY <1>7
<1>9. PICK at : PlacesOf(s, S, k - 1, f[k - 1], at)
  BY <1>8
<1> DEFINE t == f[k - 1]
<1>10. t \in Seq(X) /\ s[k] \in X /\ f[k] = IF k \in S THEN Append(t, s[k]) ELSE t
  BY <1>2, <1>6, <1>7, <1>8
<1> HIDE DEF t
<1>11. CASE k \notin S
  <2>1. PlacesOf(s, S, k, t, at)
    BY <1>7, <1>9, <1>10, <1>11 DEF PlacesOf, t
  <2> QED
    BY <2>1, <1>5, <1>10, <1>11
<1>12. CASE k \in S
  <2> DEFINE r == Append(t, s[k])
             more == [n \in 1..Len(r) |-> IF n = Len(r) THEN k ELSE at[n]]
  <2>1. /\ r \in Seq(X) /\ Len(r) = Len(t) + 1 /\ Len(t) \in Nat /\ r[Len(r)] = s[k]
        /\ \A n \in 1..Len(t) : r[n] = t[n]
    BY <1>10
  <2> HIDE DEF r
  <2>2. /\ \A n \in 1..Len(t) : at[n] \in 1..(k - 1) /\ at[n] \in S /\ t[n] = s[at[n]]
        /\ \A n, m \in 1..Len(t) : n < m => at[n] < at[m]
        /\ \A p \in 1..(k - 1) : p \in S => \E n \in 1..Len(t) : at[n] = p
    BY <1>9 DEF PlacesOf, t
  <2>3. /\ \A n \in 1..Len(t) : n \in 1..Len(r) /\ more[n] = at[n] /\ r[n] = t[n]
        /\ Len(r) \in 1..Len(r) /\ more[Len(r)] = k
        /\ \A n \in 1..Len(r) : n \in 1..Len(t) \/ n = Len(r)
    BY <2>1
  <2> HIDE DEF more
  <2>4. more \in [1..Len(r) -> 1..k]
    BY <2>1, <2>2, <2>3, <1>7 DEF more
  <2>5. ASSUME NEW n \in 1..Len(r) PROVE more[n] \in S /\ r[n] = s[more[n]]
    <3>1. CASE n \in 1..Len(t)
      BY <2>2, <2>3, <3>1
    <3>2. CASE n = Len(r)
      BY <2>1, <2>3, <1>12, <3>2
    <3> QED
      BY <2>3, <3>1, <3>2
  <2>6. ASSUME NEW n \in 1..Len(r), NEW m \in 1..Len(r), n < m PROVE more[n] < more[m]
    <3>1. n \in 1..Len(t) /\ more[n] = at[n] /\ at[n] < k
      BY <2>1, <2>2, <2>3, <2>6, <1>7
    <3>2. CASE m \in 1..Len(t)
      BY <2>2, <2>3, <2>6, <3>1, <3>2
    <3>3. CASE m = Len(r)
      BY <2>3, <3>1, <3>3
    <3> QED
      BY <2>3, <3>2, <3>3
  <2>7. ASSUME NEW p \in 1..k, p \in S PROVE \E n \in 1..Len(r) : more[n] = p
    <3>1. CASE p = k
      BY <2>3, <3>1
    <3>2. CASE p # k
      <4>1. p \in 1..(k - 1)
        BY <1>7, <3>2
      <4>2. PICK n \in 1..Len(t) : at[n] = p
        BY <2>2, <2>7, <4>1
      <4> QED
        BY <2>3, <4>2
    <3> QED
      BY <3>1, <3>2
  <2>8. PlacesOf(s, S, k, r, more)
    BY <2>4, <2>5, <2>6, <2>7 DEF PlacesOf
  <2> QED
    BY <2>1, <2>8, <1>5, <1>10, <1>12 DEF r
<1> QED
  BY <1>11, <1>12

\* The numbers up to M stand in g in their order.
Enumerates(L, M, g) ==
  /\ L \in Nat /\ M \in Nat /\ g \in [1..L -> 1..M]
  /\ \A n, m \in 1..L : n < m => g[n] < g[m]
  /\ \A p \in 1..M : \E n \in 1..L : g[n] = p

LEMMA OrderedIsIdentity ==
  ASSUME NEW L, NEW M, NEW g, Enumerates(L, M, g)
  PROVE  L = M /\ \A n \in 1..L : g[n] = n
<1> USE DEF Enumerates
<1> DEFINE Bad == {n \in 1..L : g[n] # n}
<1>1. Bad = {}
  <2> SUFFICES ASSUME Bad # {} PROVE FALSE
    OBVIOUS
  <2>1. Bad \in SUBSET Nat
    OBVIOUS
  <2>2. PICK n \in Bad : \A m \in Bad : n <= m
    BY <2>1, LeastNumber
  <2>3. \A m \in 1..L : m < n => g[m] = m
    BY <2>2
  <2>4. n \in 1..L /\ g[n] # n /\ g[n] \in 1..M
    BY <2>2
  <2>5. g[n] > n
    <3>1. CASE g[n] < n
      BY <2>3, <2>4, <3>1
    <3> QED
      BY <2>4, <3>1
  <2>6. PICK k \in 1..L : g[k] = n
    BY <2>4, <2>5
  <2>7. CASE k < n
    BY <2>3, <2>6, <2>7
  <2>8. CASE k = n
    BY <2>5, <2>6, <2>8
  <2>9. CASE k > n
    BY <2>4, <2>5, <2>6, <2>9
  <2> QED
    BY <2>7, <2>8, <2>9
<1>2. \A n \in 1..L : g[n] = n
  BY <1>1
<1>3. L <= M
  BY <1>2
<1>4. M <= L
  BY <1>2
<1> QED
  BY <1>2, <1>3, <1>4

\* The elements of s \o t are those of s, then those of t.
LEMMA JoinedPlaces ==
  ASSUME NEW X, NEW s \in Seq(X), NEW t \in Seq(X)
  PROVE  /\ s \o t \in Seq(X) /\ Len(s \o t) = Len(s) + Len(t) /\ Len(s) \in Nat /\ Len(t) \in Nat
         /\ \A n \in 1..Len(s) : n \in 1..Len(s \o t) /\ (s \o t)[n] = s[n]
         /\ \A n \in 1..Len(t) : Len(s) + n \in 1..Len(s \o t) /\ (s \o t)[Len(s) + n] = t[n]
         /\ \A n \in 1..Len(s \o t) :
              \/ n \in 1..Len(s) /\ (s \o t)[n] = s[n]
              \/ \E m \in 1..Len(t) : n = Len(s) + m /\ (s \o t)[n] = t[m]
<1>1. s \o t \in Seq(X) /\ Len(s \o t) = Len(s) + Len(t) /\ Len(s) \in Nat /\ Len(t) \in Nat
  OBVIOUS
<1>2. \A n \in 1..Len(s) : n \in 1..Len(s \o t) /\ (s \o t)[n] = s[n]
  BY <1>1
<1>3. ASSUME NEW n \in 1..Len(t)
      PROVE  Len(s) + n \in 1..Len(s \o t) /\ (s \o t)[Len(s) + n] = t[n]
  BY <1>1
<1>4. ASSUME NEW n \in 1..Len(s \o t), n \notin 1..Len(s)
      PROVE  \E m \in 1..Len(t) : n = Len(s) + m /\ (s \o t)[n] = t[m]
  <2>1. n - Len(s) \in 1..Len(t) /\ n = Len(s) + (n - Len(s))
    BY <1>1, <1>4
  <2>2. (s \o t)[n] = t[n - Len(s)]
    BY <1>3, <2>1
  <2> QED
    BY <2>1, <2>2
<1> QED
  BY <1>1, <1>2, <1>3, <1>4

-----------------------------------------------------------------------------
(* Entries of an answer *)

Entries == [kind : BlockKinds, block : Nat, parts : Seq(Nat \X Nat)]

\* A block of the answer as it was sent, or the refusal that a stop stands for.
IsWhole(e) ==
  IF e.block = 0 THEN e.kind = "refusal"
                 ELSE e.block \in Blocks /\ e.kind = Kind(e.block) /\ e.parts = Said(e.block)

\* No block is there twice, and each that is there is whole.
Whole(s) ==
  /\ s \in Seq(Entries)
  /\ \A n \in 1..Len(s) : IsWhole(s[n])
  /\ \A n, m \in 1..Len(s) : s[n].block = s[m].block /\ s[n].block # 0 => n = m

Has(s, i) == \E n \in 1..Len(s) : s[n].block = i

OfKinds(s, K) == \A n \in 1..Len(s) : s[n].kind \in K

CallsInOrder(s) ==
  \A n, m \in 1..Len(s) : n < m /\ s[n].kind = "call" /\ s[m].kind = "call" => s[n].block < s[m].block

\* What is taken from whole entries is whole, and in their order.
LEMMA TakenWhole ==
  ASSUME NEW s, Whole(s), NEW S
  PROVE  /\ Whole(Taken(s, S))
         /\ CallsInOrder(s) => CallsInOrder(Taken(s, S))
         /\ \A n \in 1..Len(Taken(s, S)) : \E m \in 1..Len(s) : m \in S /\ Taken(s, S)[n] = s[m]
         /\ \A m \in 1..Len(s) : m \in S => Has(Taken(s, S), s[m].block)
<1> DEFINE t == Taken(s, S)
<1>1. s \in Seq(Entries)
  BY DEF Whole
<1>2. t \in Seq(Entries) /\ \E at : PlacesOf(s, S, Len(s), t, at)
  BY <1>1, TakenPlaces
<1> HIDE DEF t
<1>3. PICK at : PlacesOf(s, S, Len(s), t, at)
  BY <1>2
<1>4. /\ \A n \in 1..Len(t) : at[n] \in 1..Len(s) /\ at[n] \in S /\ t[n] = s[at[n]]
      /\ \A n, m \in 1..Len(t) : n < m => at[n] < at[m]
      /\ \A p \in 1..Len(s) : p \in S => \E n \in 1..Len(t) : at[n] = p
  BY <1>3 DEF PlacesOf
<1>5. \A n \in 1..Len(t) : IsWhole(t[n])
  BY <1>4 DEF Whole
<1>6. ASSUME NEW n \in 1..Len(t), NEW m \in 1..Len(t), t[n].block = t[m].block, t[n].block # 0
      PROVE  n = m
  <2>1. at[n] = at[m]
    <3>1. /\ at[n] \in 1..Len(s) /\ t[n] = s[at[n]]
          /\ at[m] \in 1..Len(s) /\ t[m] = s[at[m]]
      BY <1>4
    <3> QED
      BY <1>6, <3>1 DEF Whole
  <2>2. at[n] \in Nat /\ at[m] \in Nat /\ n \in Nat /\ m \in Nat
    BY <1>4
  <2> QED
    BY <2>1, <2>2, <1>4
<1>7. ASSUME CallsInOrder(s) PROVE CallsInOrder(t)
  <2> SUFFICES ASSUME NEW n \in 1..Len(t), NEW m \in 1..Len(t), n < m, t[n].kind = "call", t[m].kind = "call"
               PROVE  t[n].block < t[m].block
    BY DEF CallsInOrder
  <2>1. at[n] \in 1..Len(s) /\ at[m] \in 1..Len(s) /\ at[n] < at[m] /\ t[n] = s[at[n]] /\ t[m] = s[at[m]]
    BY <1>4
  <2> QED
    BY <1>7, <2>1 DEF CallsInOrder
<1>8. \A m \in 1..Len(s) : m \in S => Has(t, s[m].block)
  BY <1>4 DEF Has
<1>9. Whole(t)
  BY <1>2, <1>5, <1>6 DEF Whole
<1>10. \A n \in 1..Len(t) : \E m \in 1..Len(s) : m \in S /\ t[n] = s[m]
  BY <1>4
<1> QED
  BY <1>7, <1>8, <1>9, <1>10 DEF t

\* Whole entries of different blocks are whole together.
LEMMA JoinedWhole ==
  ASSUME NEW s, Whole(s), NEW t, Whole(t),
         \A n \in 1..Len(s), m \in 1..Len(t) : s[n].block = t[m].block => s[n].block = 0
  PROVE  /\ Whole(s \o t)
         /\ \A i : Has(s \o t, i) <=> Has(s, i) \/ Has(t, i)
         /\ \A K : OfKinds(s, K) /\ OfKinds(t, K) => OfKinds(s \o t, K)
         /\ CallsInOrder(s) /\ CallsInOrder(t)
              /\ (OfKinds(s, BlockKinds \ {"call"}) \/ OfKinds(t, BlockKinds \ {"call"}))
              => CallsInOrder(s \o t)
<1> DEFINE r == s \o t
<1>1. s \in Seq(Entries) /\ t \in Seq(Entries)
  BY DEF Whole
<1>2. /\ r \in Seq(Entries) /\ Len(r) = Len(s) + Len(t) /\ Len(s) \in Nat /\ Len(t) \in Nat
      /\ \A n \in 1..Len(s) : n \in 1..Len(r) /\ r[n] = s[n]
      /\ \A n \in 1..Len(t) : Len(s) + n \in 1..Len(r) /\ r[Len(s) + n] = t[n]
      /\ \A n \in 1..Len(r) :
           \/ n \in 1..Len(s) /\ r[n] = s[n]
           \/ \E m \in 1..Len(t) : n = Len(s) + m /\ r[n] = t[m]
  BY <1>1, JoinedPlaces
<1> HIDE DEF r
<1>3. \A n \in 1..Len(r) : IsWhole(r[n])
  BY <1>2 DEF Whole
<1>4. ASSUME NEW n \in 1..Len(r), NEW m \in 1..Len(r), r[n].block = r[m].block, r[n].block # 0
      PROVE  n = m
  <2>1. CASE n \in 1..Len(s) /\ r[n] = s[n] /\ m \in 1..Len(s) /\ r[m] = s[m]
    BY <1>4, <2>1 DEF Whole
  <2>2. ASSUME NEW x \in 1..Len(t), n = Len(s) + x, r[n] = t[x],
               NEW y \in 1..Len(t), m = Len(s) + y, r[m] = t[y]
        PROVE  n = m
    BY <1>4, <2>2 DEF Whole
  <2>3. ASSUME NEW k \in 1..Len(r)
        PROVE  \/ k \in 1..Len(s) /\ r[k] = s[k]
               \/ \E x \in 1..Len(t) : k = Len(s) + x /\ r[k] = t[x]
    BY <1>2
  <2>4. CASE n \in 1..Len(s) /\ r[n] = s[n] /\ \E y \in 1..Len(t) : m = Len(s) + y /\ r[m] = t[y]
    BY <1>4, <2>4
  <2>5. CASE m \in 1..Len(s) /\ r[m] = s[m] /\ \E y \in 1..Len(t) : n = Len(s) + y /\ r[n] = t[y]
    BY <1>4, <2>5
  <2> QED
    BY <2>1, <2>2, <2>3, <2>4, <2>5
<1>5. ASSUME NEW i PROVE Has(r, i) <=> Has(s, i) \/ Has(t, i)
  <2>1. ASSUME Has(r, i) PROVE Has(s, i) \/ Has(t, i)
    <3>1. PICK n \in 1..Len(r) : r[n].block = i
      BY <2>1 DEF Has
    <3>2. CASE n \in 1..Len(s) /\ r[n] = s[n]
      BY <3>1, <3>2 DEF Has
    <3>3. CASE \E m \in 1..Len(t) : n = Len(s) + m /\ r[n] = t[m]
      BY <3>1, <3>3 DEF Has
    <3> QED
      BY <1>2, <3>2, <3>3
  <2>2. ASSUME Has(s, i) PROVE Has(r, i)
    BY <1>2, <2>2 DEF Has
  <2>3. ASSUME Has(t, i) PROVE Has(r, i)
    <3>1. PICK n \in 1..Len(t) : t[n].block = i
      BY <2>3 DEF Has
    <3> QED
      BY <1>2, <3>1 DEF Has
  <2> QED
    BY <2>1, <2>2, <2>3
<1>6. \A K : OfKinds(s, K) /\ OfKinds(t, K) => OfKinds(r, K)
  BY <1>2 DEF OfKinds
<1>7. ASSUME CallsInOrder(s), CallsInOrder(t),
             OfKinds(s, BlockKinds \ {"call"}) \/ OfKinds(t, BlockKinds \ {"call"}),
             NEW n \in 1..Len(r), NEW m \in 1..Len(r), n < m, r[n].kind = "call", r[m].kind = "call"
      PROVE  r[n].block < r[m].block
  <2>1. CASE n \in 1..Len(s) /\ r[n] = s[n] /\ m \in 1..Len(s) /\ r[m] = s[m]
    BY <1>7, <2>1 DEF CallsInOrder
  <2>2. ASSUME NEW x \in 1..Len(t), n = Len(s) + x, r[n] = t[x],
               NEW y \in 1..Len(t), m = Len(s) + y, r[m] = t[y]
        PROVE  r[n].block < r[m].block
    <3>1. x < y
      BY <1>2, <1>7, <2>2
    <3> QED
      BY <1>7, <2>2, <3>1 DEF CallsInOrder
  <2>3. CASE n \in 1..Len(s) /\ r[n] = s[n] /\ \E y \in 1..Len(t) : r[m] = t[y]
    BY <1>7, <2>3 DEF OfKinds
  <2>4. CASE (\E x \in 1..Len(t) : n = Len(s) + x) /\ m \in 1..Len(s)
    BY <1>2, <1>7, <2>4
  <2>5. \/ n \in 1..Len(s) /\ r[n] = s[n]
        \/ \E x \in 1..Len(t) : n = Len(s) + x /\ r[n] = t[x]
    BY <1>2
  <2>6. \/ m \in 1..Len(s) /\ r[m] = s[m]
        \/ \E y \in 1..Len(t) : m = Len(s) + y /\ r[m] = t[y]
    BY <1>2
  <2> QED
    BY <2>1, <2>2, <2>3, <2>4, <2>5, <2>6
<1>8. Whole(r)
  BY <1>2, <1>3, <1>4 DEF Whole
<1>9. CallsInOrder(s) /\ CallsInOrder(t)
        /\ (OfKinds(s, BlockKinds \ {"call"}) \/ OfKinds(t, BlockKinds \ {"call"}))
        => CallsInOrder(r)
  BY <1>7 DEF CallsInOrder
<1> QED
  BY <1>5, <1>6, <1>8, <1>9 DEF r

-----------------------------------------------------------------------------
(* The events that a connection carried *)

\* An event that a connection carried is of a block of the answer, or of none.
EventRecords ==
  [what : {"start", "part", "finish", "end", "error", "torn"}, block : Blocks \cup {0}, part : Nat, hint : Hints]

StreamsTypes ==
  /\ StreamsType
  /\ events \in Seq(EventRecords)
  /\ connection = "idle" => events = <<>>

LEMMA StreamsTypesStart == StreamsInit => StreamsTypes
<1> SUFFICES ASSUME StreamsInit PROVE StreamsTypes
  OBVIOUS
<1>1. sent \in [Blocks -> Nat]
  BY DEF StreamsInit, Blocks, NoRequest
<1>2. events = <<>> /\ <<>> \in Seq(EventRecords) /\ Len(<<>>) = 0
  BY DEF StreamsInit
<1> QED
  BY <1>1, <1>2 DEF StreamsInit, StreamsTypes, StreamsType, NoRequest, NoOutcome

LEMMA ParsedKind == Parsed.kind \in FailureKinds \cup {"response"}
<1>1. \A hint : PayloadFailure(hint) \in FailureKinds
  BY DEF PayloadFailure, FailureKinds
<1>2. \A kind : Failed(kind).kind = kind
  BY DEF Failed, NoOutcome
<1>3. {"invalid_response", "stream_interrupted"} \subseteq FailureKinds
  BY DEF FailureKinds
<1> QED
  BY <1>1, <1>2, <1>3 DEF Parsed

LEMMA StreamsTypesKeep == StreamsTypes /\ [StreamsNext]_streamVars => StreamsTypes'
<1> SUFFICES ASSUME StreamsTypes, [StreamsNext]_streamVars PROVE StreamsTypes'
  OBVIOUS
<1> USE DEF StreamsTypes, StreamsType
\* The provider has sent another event of its answer.
<1>1. ASSUME NEW event \in EventRecords, Emits(event), sent' \in [Blocks -> Nat],
             connection # "idle", connection' \in {"open", "closed"}, UNCHANGED <<request, inferred>>
      PROVE  StreamsTypes'
  <2>1. Blocks' = Blocks /\ EventRecords' = EventRecords
    BY <1>1 DEF Blocks, EventRecords
  <2>2. events' \in Seq(EventRecords)
    BY <1>1 DEF Emits
  <2>3. \A n \in 1..Len(events') : events'[n] \in EventRecords
    BY <2>2
  <2> QED
    BY <1>1, <2>1, <2>2, <2>3 DEF EventRecords
<1>2. ASSUME NEW what \in {"start", "part", "finish", "end", "error", "torn"}, NEW block \in Blocks \cup {0},
             NEW n \in Nat, NEW hint \in Hints
      PROVE  Event(what, block, n, hint) \in EventRecords
  BY DEF Event, EventRecords
\* The events stay, and what they are of.
<1>3. ASSUME UNCHANGED <<request, sent, events>>, connection # "idle",
             connection' \in {"open", "closed", "broken", "large", "rejected"},
             inferred'.kind \in FailureKinds \cup {"none", "response"}
      PROVE  StreamsTypes'
  <2>1. Blocks' = Blocks /\ EventRecords' = EventRecords
    BY <1>3 DEF Blocks, EventRecords
  <2> QED
    BY <1>3, <2>1
<1>4. ASSUME NotSent PROVE StreamsTypes'
  <2>1. /\ connection = "idle" /\ connection' = "rejected" /\ UNCHANGED <<request, sent, events>>
        /\ \E kind \in FailureKinds : inferred' = Failed(kind)
    BY <1>4 DEF NotSent, FailureKinds, HttpFailure
  <2>2. Blocks' = Blocks /\ EventRecords' = EventRecords
    BY <2>1 DEF Blocks, EventRecords
  <2>3. inferred'.kind \in FailureKinds
    BY <2>1 DEF Failed, NoOutcome
  <2> QED
    BY <2>1, <2>2, <2>3
<1>5. ASSUME Sends PROVE StreamsTypes'
  <2>1. PICK protocol \in Protocols, answer \in Answers :
          /\ request' = [protocol |-> protocol, answer |-> answer]
          /\ sent' = [i \in DOMAIN answer |-> 0]
    BY <1>5 DEF Sends
  <2>2. connection' = "open" /\ events' = <<>> /\ UNCHANGED inferred
    BY <1>5 DEF Sends
  <2>3. Blocks' = DOMAIN answer
    BY <2>1 DEF Blocks
  <2>4. <<>> \in Seq(EventRecords') /\ Len(<<>>) = 0
    OBVIOUS
  <2>5. sent' \in [Blocks' -> Nat]
    BY <2>1, <2>3
  <2>6. request' \in [protocol : Protocols \cup {"none"}, answer : Answers \cup {<<>>}]
    BY <2>1
  <2> QED
    BY <2>2, <2>4, <2>5, <2>6
<1>6. ASSUME NEW i \in Blocks, Streams(i) PROVE StreamsTypes'
  <2>1. sent[i] \in Nat /\ sent' = [sent EXCEPT ![i] = @ + 1] /\ connection = "open"
        /\ UNCHANGED <<request, connection, inferred>>
    BY <1>6 DEF Streams, Speaking
  <2>2. Opens(i) \in Nat
    BY DEF Opens
  <2>3. PartsSent(i) + 1 \in Nat
    BY <2>1, <2>2 DEF PartsSent
  <2>4. sent' \in [Blocks -> Nat]
    BY <2>1
  <2>5. PICK event \in EventRecords : Emits(event)
    <3>1. "other" \in Hints /\ 0 \in Nat
      BY DEF Hints
    <3>2. Event("start", i, 0, "other") \in EventRecords /\ Event("part", i, PartsSent(i) + 1, "other") \in EventRecords
      BY <1>2, <2>3, <3>1
    <3> QED
      BY <1>6, <3>2 DEF Streams
  <2> QED
    BY <1>1, <2>1, <2>4, <2>5
<1>7. ASSUME Stops \/ EndsAnswer \/ ReportsError PROVE StreamsTypes'
  <2>1. connection = "open" /\ UNCHANGED <<request, sent, connection, inferred>>
    BY <1>7 DEF Stops, EndsAnswer, ReportsError, Speaking
  <2>2. PICK what \in {"finish", "end", "error"}, hint \in Hints : Emits(Event(what, 0, 0, hint))
    BY <1>7 DEF Stops, EndsAnswer, ReportsError, Hints
  <2>3. Event(what, 0, 0, hint) \in EventRecords
    BY <1>2
  <2> QED
    BY <1>1, <2>1, <2>2, <2>3
<1>8. ASSUME Closes PROVE StreamsTypes'
  <2>1. connection = "open" /\ UNCHANGED <<request, sent, inferred>>
    BY <1>8 DEF Closes
  <2>2. CASE UNCHANGED events
    BY <1>3, <1>8, <2>1, <2>2 DEF Closes
  <2>3. CASE connection' = "closed" /\ Emits(Event("torn", 0, 0, "other"))
    <3>1. Event("torn", 0, 0, "other") \in EventRecords
      BY <1>2 DEF Hints
    <3> QED
      BY <1>1, <2>1, <2>3, <3>1
  <2> QED
    BY <1>8, <2>2, <2>3 DEF Closes
<1>9. ASSUME Reads PROVE StreamsTypes'
  <2>1. connection \in {"closed", "broken", "large"} /\ UNCHANGED <<request, sent, events, connection>>
    BY <1>9 DEF Reads
  <2>2. inferred' \in {Failed("stream_interrupted"), Failed("response_too_large"), Parsed}
    BY <1>9 DEF Reads
  <2>3. inferred'.kind \in FailureKinds \cup {"none", "response"}
    BY <2>2, ParsedKind DEF Failed, NoOutcome, FailureKinds
  <2> QED
    BY <1>3, <2>1, <2>3
<1>10. ASSUME UNCHANGED <<request, sent, events, connection, inferred>> PROVE StreamsTypes'
  BY <1>10 DEF Blocks, EventRecords
<1>11. SendsBack \/ UNCHANGED streamVars => UNCHANGED <<request, sent, events, connection, inferred>>
  BY DEF SendsBack, streamVars
<1> QED
  BY <1>4, <1>5, <1>6, <1>7, <1>8, <1>9, <1>10, <1>11 DEF StreamsNext

\* Place p carries a fragment of block i.
IsPart(p, i) == events[p].what = "part" /\ events[p].block = i

\* The fragments of each block were carried in their order, as many as were sent.
Fragments ==
  \A i \in Blocks :
    /\ sent[i] <= Opens(i) + request.answer[i].parts
    /\ \A p \in 1..Len(events) : IsPart(p, i) => events[p].part \in 1..PartsSent(i)
    /\ \A p, q \in 1..Len(events) : p < q /\ IsPart(p, i) /\ IsPart(q, i) => events[p].part < events[q].part
    /\ \A n \in 1..PartsSent(i) : \E p \in 1..Len(events) : IsPart(p, i) /\ events[p].part = n

LEMMA AnswerBlocks ==
  ASSUME StreamsTypes
  PROVE  /\ request.answer \in Seq([kind : BlockKinds, parts : Nat])
         /\ Blocks = 1..Len(request.answer) /\ Len(request.answer) \in Nat
         /\ \A i \in Blocks : /\ Kind(i) \in BlockKinds /\ request.answer[i].parts \in Nat
                              /\ Opens(i) \in {0, 1} /\ sent[i] \in Nat /\ PartsSent(i) \in Nat
<1>1. request.answer \in Seq([kind : BlockKinds, parts : Nat])
  <2>1. request.answer \in Answers \cup {<<>>}
    BY DEF StreamsTypes, StreamsType
  <2>2. <<>> \in Seq([kind : BlockKinds, parts : Nat])
    OBVIOUS
  <2> QED
    BY <2>1, <2>2, AnswerAssumption
<1>2. \A i \in Blocks : sent[i] \in Nat /\ Opens(i) \in {0, 1}
  BY DEF StreamsTypes, StreamsType, Opens
<1>3. \A i \in Blocks : PartsSent(i) \in Nat
  BY <1>2 DEF PartsSent
<1>4. Blocks = 1..Len(request.answer) /\ Len(request.answer) \in Nat
  BY <1>1 DEF Blocks
<1> DEFINE a == request.answer
           X == [kind : BlockKinds, parts : Nat]
<1>5. \A i \in 1..Len(a) : a[i] \in X
  <2>1. a \in Seq(X)
    BY <1>1
  <2> HIDE DEF a, X
  <2> QED
    BY <2>1
<1>6. \A i \in Blocks : Kind(i) \in BlockKinds /\ request.answer[i].parts \in Nat
  BY <1>4, <1>5 DEF Kind
<1> QED
  BY <1>1, <1>2, <1>3, <1>4, <1>6

\* The fragments of a block, put together, are what was sent of it.
LEMMA PartsWhole ==
  ASSUME StreamsTypes, Fragments, NEW i \in Blocks
  PROVE  Parts({i}) = Said(i)
<1> DEFINE places == {n \in 1..Len(events) : events[n].what = "part" /\ events[n].block \in {i}}
           found == Taken(events, places)
<1>1. Parts({i}) = [n \in 1..Len(found) |-> <<found[n].block, found[n].part>>]
  BY DEF Parts
<1>2. events \in Seq(EventRecords) /\ PartsSent(i) \in Nat
  BY AnswerBlocks DEF StreamsTypes
<1>3. \A p \in 1..Len(events) : p \in places <=> IsPart(p, i)
  BY DEF IsPart
<1> HIDE DEF places
<1>4. found \in Seq(EventRecords) /\ \E at : PlacesOf(events, places, Len(events), found, at)
  BY <1>2, TakenPlaces
<1> HIDE DEF found
<1>5. PICK at : PlacesOf(events, places, Len(events), found, at)
  BY <1>4
<1>6. /\ \A n \in 1..Len(found) : at[n] \in 1..Len(events) /\ IsPart(at[n], i) /\ found[n] = events[at[n]]
      /\ \A n, m \in 1..Len(found) : n < m => at[n] < at[m]
      /\ \A p \in 1..Len(events) : IsPart(p, i) => \E n \in 1..Len(found) : at[n] = p
  BY <1>3, <1>5 DEF PlacesOf
<1> DEFINE g == [n \in 1..Len(found) |-> found[n].part]
<1>7. g \in [1..Len(found) -> 1..PartsSent(i)]
  BY <1>6 DEF Fragments
<1>8. ASSUME NEW n \in 1..Len(found), NEW m \in 1..Len(found), n < m PROVE g[n] < g[m]
  <2>1. /\ at[n] \in 1..Len(events) /\ at[m] \in 1..Len(events) /\ at[n] < at[m]
        /\ IsPart(at[n], i) /\ IsPart(at[m], i)
    BY <1>6, <1>8
  <2>2. events[at[n]].part < events[at[m]].part
    BY <2>1 DEF Fragments
  <2> QED
    BY <1>6, <2>2
<1>9. ASSUME NEW k \in 1..PartsSent(i) PROVE \E n \in 1..Len(found) : g[n] = k
  <2>1. PICK p \in 1..Len(events) : IsPart(p, i) /\ events[p].part = k
    BY DEF Fragments
  <2> QED
    BY <1>6, <2>1
<1>10. Len(found) \in Nat
  BY <1>4
<1> HIDE DEF g
<1>11. Len(found) = PartsSent(i) /\ \A n \in 1..Len(found) : g[n] = n
  <2> DEFINE sentParts == PartsSent(i)
             L == Len(found)
  <2>1. sentParts \in Nat /\ L \in Nat /\ g \in [1..L -> 1..sentParts]
    BY <1>2, <1>7, <1>10
  <2>2. \A n, m \in 1..L : n < m => g[n] < g[m]
    BY <1>8
  <2>3. \A k \in 1..sentParts : \E n \in 1..L : g[n] = k
    BY <1>9
  <2> HIDE DEF sentParts, L
  <2>4. Enumerates(L, sentParts, g)
    BY <2>1, <2>2, <2>3 DEF Enumerates
  <2>5. L = sentParts /\ \A n \in 1..L : g[n] = n
    BY <2>4, OrderedIsIdentity
  <2> QED
    BY <2>5 DEF sentParts, L
<1>12. \A n \in 1..Len(found) : found[n].block = i /\ found[n].part = n
  BY <1>6, <1>11 DEF g, IsPart
<1> QED
  BY <1>1, <1>11, <1>12 DEF Said

LEMMA NoParts == ASSUME StreamsTypes PROVE Parts({}) = <<>>
<1> DEFINE places == {n \in 1..Len(events) : events[n].what = "part" /\ events[n].block \in {}}
           found == Taken(events, places)
<1>1. events \in Seq(EventRecords)
  BY DEF StreamsTypes
<1>2. found \in Seq(EventRecords) /\ \E at : PlacesOf(events, places, Len(events), found, at)
  BY <1>1, TakenPlaces
<1> HIDE DEF found
<1>3. \A n \in 1..Len(found) : FALSE
  BY <1>2 DEF PlacesOf
<1>4. Len(found) = 0
  <2>1. Len(found) \in Nat
    BY <1>2
  <2> QED
    BY <1>3, <2>1
<1>5. Parts({}) = [n \in 1..Len(found) |-> <<found[n].block, found[n].part>>]
  BY DEF Parts, found
<1> QED
  BY <1>4, <1>5

\* A block of which a fragment was sent was seen.
LEMMA SentIsSeen ==
  ASSUME StreamsTypes, Fragments, NEW i \in Blocks, PartsSent(i) > 0
  PROVE  Seen(i)
<1>1. 1 \in 1..PartsSent(i)
  BY AnswerBlocks
<1> QED
  BY <1>1 DEF Fragments, Seen, IsPart

LEMMA SaidType ==
  ASSUME StreamsTypes, NEW i \in Blocks
  PROVE  Said(i) \in Seq(Nat \X Nat) /\ Len(Said(i)) = PartsSent(i) /\ i \in Nat \ {0}
<1>1. i \in Nat \ {0} /\ PartsSent(i) \in Nat
  BY AnswerBlocks
<1> QED
  BY <1>1 DEF Said

\* The builders of some kinds have each block of them that was seen, whole.
LEMMA BuiltWhole ==
  ASSUME StreamsTypes, Fragments, NEW K
  PROVE  /\ Whole(Built(K)) /\ OfKinds(Built(K), K) /\ CallsInOrder(Built(K))
         /\ \A i \in Blocks : Has(Built(K), i) <=> Kind(i) \in K /\ Seen(i)
         /\ \A n \in 1..Len(Built(K)) : Built(K)[n].block \in Blocks
<1> DEFINE index == [i \in Blocks |-> i]
           places == {i \in Blocks : Kind(i) \in K /\ Seen(i)}
           found == Taken(index, places)
           built == [n \in 1..Len(found) |-> Entry(Kind(found[n]), found[n], PartsOf(found[n]))]
<1>1. Built(K) = built
  BY DEF Built
<1>2. Blocks = 1..Len(request.answer) /\ Len(request.answer) \in Nat
  BY AnswerBlocks
<1>3. index \in Seq(Nat) /\ Len(index) = Len(request.answer) /\ \A i \in Blocks : index[i] = i
  BY <1>2
<1> HIDE DEF index, places
<1>4. found \in Seq(Nat) /\ \E at : PlacesOf(index, places, Len(index), found, at)
  BY <1>3, TakenPlaces
<1> HIDE DEF found
<1>5. PICK at : PlacesOf(index, places, Len(index), found, at)
  BY <1>4
<1>6. /\ \A n \in 1..Len(found) : found[n] \in Blocks /\ found[n] \in places
      /\ \A n, m \in 1..Len(found) : n < m => found[n] < found[m]
      /\ \A i \in Blocks : i \in places => \E n \in 1..Len(found) : found[n] = i
      /\ Len(found) \in Nat
  <2>1. Len(found) \in Nat /\ Len(index) = Len(request.answer)
    BY <1>3, <1>4
  <2>2. /\ \A n \in 1..Len(found) : at[n] \in Blocks /\ at[n] \in places /\ found[n] = index[at[n]]
        /\ \A n, m \in 1..Len(found) : n < m => at[n] < at[m]
        /\ \A i \in Blocks : i \in places => \E n \in 1..Len(found) : at[n] = i
    BY <1>2, <1>5, <2>1 DEF PlacesOf
  <2>3. \A n \in 1..Len(found) : found[n] = at[n]
    BY <1>3, <2>2
  <2> QED
    BY <2>1, <2>2, <2>3
<1>7. \A i \in Blocks : i \in places <=> Kind(i) \in K /\ Seen(i)
  BY DEF places
<1>8. /\ Len(built) = Len(found) /\ DOMAIN built = 1..Len(found)
      /\ \A n \in 1..Len(found) : /\ built[n].kind = Kind(found[n]) /\ built[n].block = found[n]
                                  /\ built[n].parts = Said(found[n]) /\ built[n] \in Entries
  <2>1. ASSUME NEW n \in 1..Len(found)
        PROVE  /\ built[n].kind = Kind(found[n]) /\ built[n].block = found[n]
               /\ built[n].parts = Said(found[n]) /\ built[n] \in Entries
    <3>1. found[n] \in Blocks /\ built[n] = Entry(Kind(found[n]), found[n], PartsOf(found[n]))
      BY <1>6
    <3>2. PartsOf(found[n]) = Said(found[n])
      BY <3>1, PartsWhole DEF PartsOf
    <3>3. Kind(found[n]) \in BlockKinds /\ found[n] \in Nat /\ Said(found[n]) \in Seq(Nat \X Nat)
      BY <3>1, AnswerBlocks, SaidType
    <3> QED
      BY <3>1, <3>2, <3>3 DEF Entry, Entries
  <2> QED
    BY <1>6, <2>1
<1>9. built \in Seq(Entries)
  BY <1>6, <1>8
<1> HIDE DEF built
<1>10. \A n \in 1..Len(built) : IsWhole(built[n]) /\ built[n].kind \in K /\ built[n].block \in Blocks
  <2> SUFFICES ASSUME NEW n \in 1..Len(built)
               PROVE  IsWhole(built[n]) /\ built[n].kind \in K /\ built[n].block \in Blocks
    OBVIOUS
  <2>1. n \in 1..Len(found) /\ found[n] \in Blocks /\ Kind(found[n]) \in K /\ found[n] # 0
    BY <1>2, <1>6, <1>7, <1>8
  <2> QED
    BY <1>8, <2>1 DEF IsWhole
<1>11. ASSUME NEW n \in 1..Len(built), NEW m \in 1..Len(built), n < m
       PROVE  built[n].block < built[m].block
  BY <1>6, <1>8, <1>11
<1>12. ASSUME NEW n \in 1..Len(built), NEW m \in 1..Len(built), built[n].block = built[m].block
       PROVE  n = m
  <2>1. found[n] = found[m] /\ found[n] \in Nat /\ n \in 1..Len(found) /\ m \in 1..Len(found)
    BY <1>2, <1>6, <1>8, <1>12
  <2> QED
    BY <1>6, <2>1
<1>13. Whole(built)
  BY <1>9, <1>10, <1>12 DEF Whole
<1>14. OfKinds(built, K) /\ CallsInOrder(built)
  BY <1>10, <1>11 DEF OfKinds, CallsInOrder
<1>15. \A i \in Blocks : Has(built, i) <=> Kind(i) \in K /\ Seen(i)
  BY <1>6, <1>7, <1>8 DEF Has
<1> QED
  BY <1>1, <1>10, <1>13, <1>14, <1>15

-----------------------------------------------------------------------------
(* The parsers of the protocols *)

EmptyWhole == Whole(<<>>) /\ OfKinds(<<>>, {}) /\ CallsInOrder(<<>>)

LEMMA EmptyIsWhole == EmptyWhole /\ Len(<<>>) = 0
<1>1. <<>> \in Seq(Entries) /\ Len(<<>>) = 0
  OBVIOUS
<1> QED
  BY <1>1 DEF EmptyWhole, Whole, OfKinds, CallsInOrder

LEMMA OneWhole ==
  ASSUME NEW e \in Entries, IsWhole(e)
  PROVE  /\ Whole(<<e>>) /\ CallsInOrder(<<e>>) /\ OfKinds(<<e>>, {e.kind})
         /\ Has(<<e>>, e.block)
<1>1. <<e>> \in Seq(Entries) /\ Len(<<e>>) = 1 /\ <<e>>[1] = e
  OBVIOUS
<1> DEFINE s == <<e>>
<1> HIDE DEF s
<1>2. s \in Seq(Entries) /\ Len(s) = 1 /\ s[1] = e
  BY <1>1 DEF s
<1>3. \A n \in 1..Len(s) : n = 1
  BY <1>2
<1>4. Whole(s) /\ CallsInOrder(s) /\ OfKinds(s, {e.kind})
  BY <1>2, <1>3 DEF Whole, CallsInOrder, OfKinds
<1>5. Has(s, e.block)
  BY <1>2 DEF Has
<1> QED
  BY <1>4, <1>5 DEF s

\* Entries of different kinds are of different blocks.
LEMMA JoinedKinds ==
  ASSUME NEW s, NEW t, Whole(s), Whole(t), NEW K, NEW M, OfKinds(s, K), OfKinds(t, M), K \cap M = {},
         CallsInOrder(s), CallsInOrder(t)
  PROVE  /\ Whole(s \o t) /\ CallsInOrder(s \o t) /\ OfKinds(s \o t, K \cup M)
         /\ \A i : Has(s \o t, i) <=> Has(s, i) \/ Has(t, i)
<1>1. ASSUME NEW n \in 1..Len(s), NEW m \in 1..Len(t), s[n].block = t[m].block PROVE s[n].block = 0
  <2>1. s[n].kind \in K /\ t[m].kind \in M /\ IsWhole(s[n]) /\ IsWhole(t[m])
    BY DEF OfKinds, Whole
  <2> QED
    BY <1>1, <2>1 DEF IsWhole
<1>2. OfKinds(s, K \cup M) /\ OfKinds(t, K \cup M)
  BY DEF OfKinds
<1>3. OfKinds(s, BlockKinds \ {"call"}) \/ OfKinds(t, BlockKinds \ {"call"})
  <2>1. ASSUME NEW r, Whole(r), NEW n \in 1..Len(r) PROVE r[n].kind \in BlockKinds
    <3> DEFINE X == Entries
    <3>1. r \in Seq(X)
      BY <2>1 DEF Whole
    <3> HIDE DEF X
    <3>2. r[n] \in X
      BY <3>1
    <3> QED
      BY <3>2 DEF X, Entries
  <2>2. "call" \notin K \/ "call" \notin M
    OBVIOUS
  <2>3. CASE "call" \notin K
    <3>1. \A n \in 1..Len(s) : s[n].kind \in BlockKinds /\ s[n].kind # "call"
      BY <2>1, <2>3 DEF OfKinds
    <3> QED
      BY <3>1 DEF OfKinds
  <2>4. CASE "call" \notin M
    <3>1. \A n \in 1..Len(t) : t[n].kind \in BlockKinds /\ t[n].kind # "call"
      BY <2>1, <2>4 DEF OfKinds
    <3> QED
      BY <3>1 DEF OfKinds
  <2> QED
    BY <2>2, <2>3, <2>4
<1> QED
  BY <1>1, <1>2, <1>3, JoinedWhole, Zenon

\* What a parser makes of the events: no more than what the blocks of kinds K were sent
\* as, whole, and all of it that is not empty.
Parser(s, K) ==
  /\ Whole(s) /\ OfKinds(s, K) /\ CallsInOrder(s)
  /\ \A i \in Blocks : Kind(i) \in K /\ PartsSent(i) > 0 => Has(s, i)

LEMMA ParsersJoined ==
  ASSUME NEW s, NEW t, NEW K, NEW M, Parser(s, K), Parser(t, M), K \cap M = {}
  PROVE  Parser(s \o t, K \cup M)
<1>1. /\ Whole(s \o t) /\ CallsInOrder(s \o t) /\ OfKinds(s \o t, K \cup M)
      /\ \A i : Has(s \o t, i) <=> Has(s, i) \/ Has(t, i)
  BY JoinedKinds DEF Parser
<1> QED
  BY <1>1 DEF Parser

LEMMA BuiltParser == ASSUME StreamsTypes, Fragments, NEW K PROVE Parser(Built(K), K)
  BY BuiltWhole, SentIsSeen DEF Parser

\* The one text, or the one refusal, of the chat protocol.
Joined(kind) ==
  LET parts == Parts({b \in Blocks : Kind(b) = kind})
  IN IF parts = <<>> THEN <<>> ELSE <<Entry(kind, parts[1][1], parts)>>

LEMMA JoinedParser ==
  ASSUME StreamsTypes, Fragments, NEW kind \in BlockKinds,
         \A i, j \in Blocks : Kind(i) = kind /\ Kind(j) = kind => i = j
  PROVE  Parser(Joined(kind), {kind})
<1> DEFINE parts == Parts({b \in Blocks : Kind(b) = kind})
<1>1. CASE ~ \E i \in Blocks : Kind(i) = kind
  <2>1. {b \in Blocks : Kind(b) = kind} = {}
    BY <1>1
  <2>2. Joined(kind) = <<>>
    BY <2>1, NoParts DEF Joined
  <2> QED
    BY <1>1, <2>2, EmptyIsWhole DEF EmptyWhole, Parser, OfKinds
<1>2. ASSUME NEW i \in Blocks, Kind(i) = kind PROVE Parser(Joined(kind), {kind})
  <2>1. {b \in Blocks : Kind(b) = kind} = {i}
    BY <1>2
  <2>2. parts = Said(i)
    BY <2>1, PartsWhole
  <2>3. Said(i) \in Seq(Nat \X Nat) /\ Len(Said(i)) = PartsSent(i) /\ i \in Nat \ {0} /\ PartsSent(i) \in Nat
    BY SaidType, AnswerBlocks
  <2> HIDE DEF parts
  <2>4. CASE PartsSent(i) = 0
    <3>1. parts = <<>>
      BY <2>2, <2>3, <2>4
    <3>2. Joined(kind) = <<>>
      BY <3>1 DEF Joined, parts
    <3>3. \A j \in Blocks : Kind(j) = kind => PartsSent(j) = 0
      BY <1>2, <2>4
    <3> QED
      BY <3>2, <3>3, EmptyIsWhole DEF EmptyWhole, Parser, OfKinds
  <2>5. CASE PartsSent(i) # 0
    <3>1. parts # <<>>
      BY <2>2, <2>3, <2>5
    <3>2. Said(i)[1] = <<i, 1>>
      BY <2>3, <2>5 DEF Said
    <3>3. parts[1][1] = i
      BY <2>2, <3>2
    <3> DEFINE e == Entry(kind, i, Said(i))
    <3>4. Joined(kind) = <<e>>
      BY <2>2, <3>1, <3>3 DEF Joined, parts
    <3>5. e \in Entries /\ e.kind = kind /\ e.block = i /\ e.parts = Said(i)
      BY <2>3 DEF Entry, Entries
    <3> HIDE DEF e
    <3>6. IsWhole(e)
      BY <1>2, <2>3, <3>5 DEF IsWhole
    <3>7. Whole(<<e>>) /\ CallsInOrder(<<e>>) /\ OfKinds(<<e>>, {e.kind}) /\ Has(<<e>>, e.block)
      BY <3>5, <3>6, OneWhole
    <3>8. \A j \in Blocks : Kind(j) = kind => j = i
      BY <1>2
    <3> QED
      BY <3>4, <3>5, <3>7, <3>8 DEF Parser
  <2> QED
    BY <2>4, <2>5
<1> QED
  BY <1>1, <1>2

LEMMA ChatParser ==
  ASSUME StreamsTypes, Fragments, request.protocol = "chat", Speaks("chat", request.answer)
  PROVE  Parser(ChatContent, {"text", "refusal", "call"})
<1>1. ASSUME NEW kind \in {"text", "refusal"}
      PROVE  Parser(Joined(kind), {kind})
  <2>1. \A i, j \in Blocks : Kind(i) = kind /\ Kind(j) = kind => i = j
    BY DEF Speaks, Blocks, Kind
  <2> QED
    BY <2>1, JoinedParser DEF BlockKinds
<1>2. Parser(Joined("text") \o Joined("refusal"), {"text"} \cup {"refusal"})
  BY <1>1, ParsersJoined
<1>3. Parser(Built({"call"}), {"call"})
  BY BuiltParser
<1>4. Parser((Joined("text") \o Joined("refusal")) \o Built({"call"}), ({"text"} \cup {"refusal"}) \cup {"call"})
  BY <1>2, <1>3, ParsersJoined
<1>5. ChatContent = (Joined("text") \o Joined("refusal")) \o Built({"call"})
  BY DEF ChatContent, Joined
<1>6. ({"text"} \cup {"refusal"}) \cup {"call"} = {"text", "refusal", "call"}
  OBVIOUS
<1> QED
  BY <1>4, <1>5, <1>6

\* Of the responses protocol, all but the reasoning.
LEMMA ResponsesParser ==
  ASSUME StreamsTypes, Fragments, request.protocol = "responses",
         \A i \in Blocks : Finished(i)
  PROVE  Parser(ResponsesContent, {"text", "refusal", "call"})
<1> DEFINE s == [i \in Blocks |-> Entry(Kind(i), i, [n \in 1..request.answer[i].parts |-> <<i, n>>])]
           places == {i \in Blocks : ~Dropped(i)}
           t == Taken(s, places)
<1>1. Blocks = 1..Len(request.answer) /\ Len(request.answer) \in Nat
  BY AnswerBlocks
<1>2. ASSUME NEW i \in Blocks
      PROVE  /\ s[i].kind = Kind(i) /\ s[i].block = i /\ s[i].parts = Said(i)
             /\ s[i] \in Entries /\ i \in Nat \ {0} /\ Kind(i) \in BlockKinds
             /\ i \in places <=> Kind(i) # "thinking"
  <2>1. s[i] = Entry(Kind(i), i, [n \in 1..request.answer[i].parts |-> <<i, n>>])
    OBVIOUS
  <2>2. Kind(i) \in BlockKinds /\ request.answer[i].parts \in Nat /\ sent[i] \in Nat
    BY AnswerBlocks
  <2>3. PartsSent(i) = request.answer[i].parts
    BY <2>2 DEF PartsSent, Finished, Opens
  <2>4. Said(i) \in Seq(Nat \X Nat) /\ i \in Nat \ {0}
    BY SaidType
  <2>5. i \in places <=> Kind(i) # "thinking"
    BY DEF Dropped
  <2> HIDE DEF s, places
  <2> QED
    BY <2>1, <2>2, <2>3, <2>4, <2>5 DEF Said, Entry, Entries
<1>3. s \in Seq(Entries) /\ Len(s) = Len(request.answer)
  <2>1. DOMAIN s = 1..Len(request.answer) /\ s = [i \in 1..Len(request.answer) |-> s[i]]
    BY <1>1
  <2>2. \A i \in 1..Len(request.answer) : s[i] \in Entries
    BY <1>1, <1>2
  <2> HIDE DEF s
  <2> QED
    BY <1>1, <2>1, <2>2
<1>4. t = ResponsesContent
  BY DEF ResponsesContent
<1> HIDE DEF s, places
<1>5. \A i \in 1..Len(s) : /\ i \in Blocks /\ s[i].kind = Kind(i) /\ s[i].block = i /\ s[i].parts = Said(i)
                           /\ i \in Nat \ {0} /\ Kind(i) \in BlockKinds /\ (i \in places <=> Kind(i) # "thinking")
  BY <1>1, <1>2, <1>3
<1>6. Whole(s) /\ CallsInOrder(s)
  <2>1. \A i \in 1..Len(s) : IsWhole(s[i])
    BY <1>5 DEF IsWhole
  <2> QED
    BY <1>3, <1>5, <2>1 DEF Whole, CallsInOrder
<1>7. /\ Whole(t) /\ CallsInOrder(t)
      /\ \A n \in 1..Len(t) : \E m \in 1..Len(s) : m \in places /\ t[n] = s[m]
      /\ \A m \in 1..Len(s) : m \in places => Has(t, s[m].block)
  BY <1>6, TakenWhole
<1> HIDE DEF t
<1>8. OfKinds(t, {"text", "refusal", "call"})
  BY <1>5, <1>7 DEF OfKinds, BlockKinds
<1>9. \A i \in Blocks : Kind(i) \in {"text", "refusal", "call"} => Has(t, i)
  BY <1>1, <1>3, <1>5, <1>7
<1> QED
  BY <1>4, <1>7, <1>8, <1>9 DEF Parser

\* Only a text without a fragment is left out.
LEMMA NotEmptyParser ==
  ASSUME NEW s, NEW K, StreamsTypes, Parser(s, K)
  PROVE  Parser(NotEmpty(s), K)
<1> DEFINE places == {n \in 1..Len(s) : s[n].kind = "text" => s[n].parts # <<>>}
           t == Taken(s, places)
<1>1. Whole(s) /\ OfKinds(s, K) /\ CallsInOrder(s)
  BY DEF Parser
<1>2. /\ Whole(t) /\ CallsInOrder(t)
      /\ \A n \in 1..Len(t) : \E m \in 1..Len(s) : m \in places /\ t[n] = s[m]
      /\ \A m \in 1..Len(s) : m \in places => Has(t, s[m].block)
  <2> HIDE DEF places
  <2> QED
    BY <1>1, TakenWhole
<1>3. t = NotEmpty(s)
  BY DEF NotEmpty
<1> HIDE DEF t
<1>4. OfKinds(t, K)
  BY <1>1, <1>2 DEF OfKinds
<1>5. ASSUME NEW i \in Blocks, Kind(i) \in K, PartsSent(i) > 0 PROVE Has(t, i)
  <2>1. PICK m \in 1..Len(s) : s[m].block = i
    BY <1>5 DEF Parser, Has
  <2>2. i # 0 /\ Len(Said(i)) = PartsSent(i)
    BY SaidType
  <2>3. s[m].parts = Said(i)
    BY <1>1, <2>1, <2>2 DEF Whole, IsWhole
  <2>4. s[m].parts # <<>>
    <3>1. Len(<<>>) = 0
      OBVIOUS
    <3> QED
      BY <1>5, <2>2, <2>3, <3>1
  <2> QED
    BY <1>2, <2>1, <2>4
<1> QED
  BY <1>2, <1>3, <1>4, <1>5 DEF Parser

\* The blocks in their order, without empty texts, and a refusal that a stop stands for.
LEMMA MessagesParser ==
  ASSUME StreamsTypes, Fragments
  PROVE  Parser(MessagesContent, {"text", "refusal", "call"})
<1> DEFINE K == {"text", "call", "refusal"}
           s == NotEmpty(Built(K))
           details == \E n \in 1..Len(events) : events[n].what = "finish" /\ events[n].hint = "filter"
           e == Entry("refusal", 0, <<>>)
<1>1. Parser(s, K)
  BY BuiltParser, NotEmptyParser
<1>2. MessagesContent = s \o (IF details THEN <<e>> ELSE <<>>)
  BY DEF MessagesContent
<1>3. K = {"text", "refusal", "call"}
  OBVIOUS
<1>4. Whole(<<e>>) /\ OfKinds(<<e>>, {"refusal"}) /\ CallsInOrder(<<e>>) /\ Len(<<e>>) = 1 /\ <<e>>[1] = e
  <2>1. e \in Entries /\ e.kind = "refusal" /\ e.block = 0
    <3>1. <<>> \in Seq(Nat \X Nat)
      OBVIOUS
    <3> QED
      BY <3>1 DEF Entry, Entries, BlockKinds
  <2>2. IsWhole(e)
    BY <2>1 DEF IsWhole
  <2>3. Len(<<e>>) = 1 /\ <<e>>[1] = e
    OBVIOUS
  <2> HIDE DEF e
  <2> QED
    BY <2>1, <2>2, <2>3, OneWhole
<1>5. e.block = 0 /\ e.kind = "refusal"
  BY DEF Entry
<1> HIDE DEF s, e, details
<1>6. CASE ~details
  <2>1. s \in Seq(Entries)
    BY <1>1 DEF Parser, Whole
  <2>2. s \o <<>> = s
    BY <2>1
  <2> QED
    BY <1>1, <1>2, <1>3, <1>6, <2>2
<1>7. CASE details
  <2>1. Whole(s) /\ OfKinds(s, K) /\ CallsInOrder(s)
    BY <1>1 DEF Parser
  <2>2. \A n \in 1..Len(s), m \in 1..Len(<<e>>) : s[n].block = <<e>>[m].block => s[n].block = 0
    <3>1. \A m \in 1..Len(<<e>>) : <<e>>[m].block = 0
      BY <1>4, <1>5
    <3> QED
      BY <3>1
  <2>3. OfKinds(<<e>>, K) /\ OfKinds(<<e>>, BlockKinds \ {"call"})
    BY <1>4 DEF OfKinds, BlockKinds
  <2>4. /\ Whole(s \o <<e>>)
        /\ \A i : Has(s \o <<e>>, i) <=> Has(s, i) \/ Has(<<e>>, i)
        /\ OfKinds(s \o <<e>>, K)
        /\ CallsInOrder(s \o <<e>>)
    BY <1>4, <2>1, <2>2, <2>3, JoinedWhole, Zenon
  <2> QED
    BY <1>1, <1>2, <1>3, <1>7, <2>4 DEF Parser
<1> QED
  BY <1>6, <1>7

\* What the provider has said so far is what its protocol allows.
Spoken ==
  /\ request.protocol \in {"chat", "responses", "messages"}
  /\ Speaks(request.protocol, request.answer)

LEMMA ContentParser ==
  ASSUME StreamsTypes, Fragments, Spoken,
         request.protocol = "responses" => \A i \in Blocks : Finished(i)
  PROVE  Parser(Content, {"text", "refusal", "call"})
<1>1. CASE request.protocol = "chat"
  BY <1>1, ChatParser DEF Spoken, Content
<1>2. CASE request.protocol = "responses"
  BY <1>2, ResponsesParser DEF Spoken, Content
<1>3. CASE request.protocol = "messages"
  BY <1>3, MessagesParser DEF Content
<1> QED
  BY <1>1, <1>2, <1>3 DEF Spoken

\* The kinds of blocks that are kept apart, in the protocol of the request.
StateKinds == IF request.protocol = "messages" THEN {"thinking"} ELSE {}

LEMMA ThinkingParser ==
  ASSUME StreamsTypes, Fragments
  PROVE  Parser(ThinkingState, StateKinds)
<1>1. CASE request.protocol = "messages"
  BY <1>1, BuiltParser DEF ThinkingState, StateKinds
<1>2. CASE request.protocol # "messages"
  <2>1. ThinkingState = <<>> /\ StateKinds = {}
    BY <1>2 DEF ThinkingState, StateKinds
  <2> QED
    BY <2>1, EmptyIsWhole DEF EmptyWhole, Parser, OfKinds
<1> QED
  BY <1>1, <1>2

-----------------------------------------------------------------------------
(* The inductive invariant *)

\* An answer that was read: the events said that it was over, and it is whole.
Delivered(answer) ==
  /\ Emitted("end") /\ ~Emitted("error") /\ ~Emitted("torn")
  /\ Parser(answer.state, StateKinds) /\ Parser(answer.content, {"text", "refusal", "call"})
  /\ \A n \in 1..Len(answer.content) :
       answer.content[n].kind = "call" =>
         PartsSent(answer.content[n].block) \in {0, request.answer[answer.content[n].block].parts}

\* What goes back: whole, and all but refusals and what a parser dropped.
SentBack(entries) ==
  /\ Whole(entries)
  /\ \A i \in Blocks : Kind(i) # "refusal" /\ ~Dropped(i) /\ PartsSent(i) > 0 => Has(entries, i)

\* A call that the provider did not end.
CutCall == \E i \in Blocks : Kind(i) = "call" /\ ~Finished(i)

\* The events that the connection carried, in the order of the protocol.
EventOrder ==
  /\ connection \in {"idle", "rejected"} => events = <<>>
  /\ connection \notin {"idle", "rejected"} => Spoken
  /\ request.protocol = "responses" /\ Emitted("finish") => \A i \in Blocks : Finished(i)
  /\ Emitted("end") => Emitted("finish") /\ ~Emitted("torn")
  /\ Emitted("torn") => connection = "closed"

\* What was read of them, and what went back.
AnswerRead ==
  /\ connection \in {"idle", "open"} => inferred.kind = "none"
  /\ inferred.kind = "response" => connection = "closed" /\ Delivered(inferred)
  /\ connection = "closed" /\ Emitted("end") /\ ~Emitted("error") /\ inferred.kind # "none" =>
       inferred.kind = "response" \/ (inferred.kind = "invalid_response" /\ CutCall)
  /\ resent # <<>> => inferred.kind = "response" /\ SentBack(resent)

StreamInv == StreamsTypes /\ Fragments /\ EventOrder /\ AnswerRead

-----------------------------------------------------------------------------
(* What is read *)

\* A call in an answer is a block of its own, whole.
LEMMA CallEntry ==
  ASSUME StreamsTypes, NEW s, Whole(s), NEW n \in 1..Len(s), s[n].kind = "call"
  PROVE  /\ s[n].block \in Blocks /\ Kind(s[n].block) = "call" /\ s[n].parts = Said(s[n].block)
         /\ Len(s[n].parts) = PartsSent(s[n].block)
<1>1. IsWhole(s[n])
  BY DEF Whole
<1>2. s[n].block \in Blocks /\ Kind(s[n].block) = "call" /\ s[n].parts = Said(s[n].block)
  BY <1>1 DEF IsWhole
<1> QED
  BY <1>2, SaidType

\* A call whose arguments are parsed has all of them or none.
LEMMA CallParses ==
  ASSUME StreamsTypes, NEW s, Whole(s), NEW n \in 1..Len(s), s[n].kind = "call"
  PROVE  /\ Parses(s[n]) => PartsSent(s[n].block) \in {0, request.answer[s[n].block].parts}
         /\ Finished(s[n].block) => Parses(s[n])
<1> DEFINE i == s[n].block
           all == [k \in 1..request.answer[i].parts |-> <<i, k>>]
<1>1. i \in Blocks /\ Kind(i) = "call" /\ s[n].parts = Said(i) /\ Len(s[n].parts) = PartsSent(i)
  BY CallEntry
<1>2. Parses(s[n]) <=> s[n].parts = <<>> \/ s[n].parts = all
  BY DEF Parses
<1> HIDE DEF i
<1>3. request.answer[i].parts \in Nat /\ sent[i] \in Nat /\ Opens(i) = 1
  BY <1>1, AnswerBlocks DEF Opens
<1>4. Len(all) = request.answer[i].parts
  BY <1>3
<1>5. Finished(i) => PartsSent(i) = request.answer[i].parts
  BY <1>3 DEF Finished, PartsSent
<1>6. Finished(i) => Said(i) = all
  BY <1>5 DEF Said
<1>7. Len(<<>>) = 0
  OBVIOUS
<1>8. Parses(s[n]) => PartsSent(i) \in {0, request.answer[i].parts}
  BY <1>1, <1>2, <1>4, <1>7
<1>9. Finished(i) => Parses(s[n])
  BY <1>1, <1>2, <1>6
<1> QED
  BY <1>8, <1>9 DEF i

\* What the parser answers, for the events of a connection that was closed.
LEMMA ParsedDelivered ==
  ASSUME StreamInv, connection = "closed"
  PROVE  /\ Parsed.kind = "response" => Delivered(Parsed)
         /\ Emitted("end") /\ ~Emitted("error") =>
              Parsed.kind = "response" \/ (Parsed.kind = "invalid_response" /\ CutCall)
<1> DEFINE wrong == {n \in 1..Len(events) : events[n].what \in {"error", "torn"}}
           first == events[CHOOSE n \in wrong : \A m \in wrong : n <= m]
           response == [kind |-> "response", content |-> Content, state |-> ThinkingState]
           cut == \E n \in 1..Len(Content) : ~Parses(Content[n])
<1>1. Parsed = IF events = <<>> THEN Failed("invalid_response")
               ELSE IF wrong # {} THEN Failed(PayloadFailure(first.hint))
               ELSE IF ~Emitted("end") THEN Failed("stream_interrupted")
               ELSE IF cut THEN Failed("invalid_response") ELSE response
  BY Zenon DEF Parsed, Completed
<1>2. \A kind : Failed(kind).kind = kind
  BY DEF Failed, NoOutcome
<1>3. \A hint : PayloadFailure(hint) # "response"
  BY DEF PayloadFailure
<1>4. wrong = {} <=> ~Emitted("error") /\ ~Emitted("torn")
  BY DEF Emitted
<1>5. response.kind = "response" /\ response.content = Content /\ response.state = ThinkingState
  OBVIOUS
<1> HIDE DEF wrong, first, response, cut
<1>6. ASSUME Emitted("end")
      PROVE  /\ Parser(Content, {"text", "refusal", "call"}) /\ Parser(ThinkingState, StateKinds)
             /\ ~Emitted("torn") /\ events # <<>>
  <2>1. Spoken /\ (request.protocol = "responses" => \A i \in Blocks : Finished(i)) /\ ~Emitted("torn")
    BY <1>6 DEF StreamInv, EventOrder
  <2>2. events # <<>>
    <3>1. Len(<<>>) = 0
      OBVIOUS
    <3> QED
      BY <1>6, <3>1 DEF Emitted
  <2> QED
    BY <2>1, <2>2, ContentParser, ThinkingParser DEF StreamInv
<1>7. ASSUME Parsed.kind = "response" PROVE Delivered(Parsed)
  <2>1. /\ Parsed = response /\ ~cut /\ Emitted("end") /\ ~Emitted("error") /\ ~Emitted("torn")
    BY <1>1, <1>2, <1>3, <1>4, <1>7
  <2>2. Whole(Content)
    BY <1>6, <2>1 DEF Parser
  <2>3. ASSUME NEW n \in 1..Len(Content), Content[n].kind = "call"
        PROVE  PartsSent(Content[n].block) \in {0, request.answer[Content[n].block].parts}
    <3>1. Parses(Content[n])
      BY <2>1 DEF cut
    <3> DEFINE s == Content
    <3>2. Whole(s) /\ n \in 1..Len(s) /\ s[n].kind = "call" /\ Parses(s[n])
      BY <2>2, <2>3, <3>1
    <3> HIDE DEF s
    <3>3. PartsSent(s[n].block) \in {0, request.answer[s[n].block].parts}
      BY <3>2, CallParses DEF StreamInv
    <3> QED
      BY <3>3 DEF s
  <2> QED
    BY <1>5, <1>6, <2>1, <2>3 DEF Delivered
<1>8. ASSUME Emitted("end"), ~Emitted("error")
      PROVE  Parsed.kind = "response" \/ (Parsed.kind = "invalid_response" /\ CutCall)
  <2>1. Parsed = IF cut THEN Failed("invalid_response") ELSE response
    BY <1>1, <1>4, <1>6, <1>8
  <2>2. ASSUME cut PROVE CutCall
    <3> DEFINE s == Content
    <3>1. PICK n \in 1..Len(s) : ~Parses(s[n])
      BY <2>2 DEF cut
    <3>2. Whole(s)
      BY <1>6, <1>8 DEF Parser
    <3> HIDE DEF s
    <3>3. s[n].kind = "call"
      BY <3>1 DEF Parses
    <3>4. s[n].block \in Blocks /\ Kind(s[n].block) = "call" /\ ~Finished(s[n].block)
      BY <3>1, <3>2, <3>3, CallEntry, CallParses DEF StreamInv
    <3> QED
      BY <3>4 DEF CutCall
  <2>3. CASE cut
    BY <1>2, <2>1, <2>2, <2>3
  <2>4. CASE ~cut
    BY <1>5, <2>1, <2>4
  <2> QED
    BY <2>3, <2>4
<1> QED
  BY <1>7, <1>8

\* What is taken of the answer, for the next request.
LEMMA ResentWhole ==
  ASSUME StreamInv, inferred.kind = "response"
  PROVE  SentBack(Resent)
<1> DEFINE c == inferred.content
           All == {"text", "refusal", "call"}
<1>1. Parser(inferred.state, StateKinds) /\ Parser(c, All) /\ Spoken
  BY DEF StreamInv, AnswerRead, Delivered, EventOrder
<1> HIDE DEF c, All
<1>2. ASSUME NEW K, K \subseteq All
      PROVE  Parser(Only(K), K)
  <2> DEFINE places == {n \in 1..Len(c) : c[n].kind \in K}
             t == Taken(c, places)
  <2>1. t = Only(K)
    BY DEF Only, c
  <2>2. \A n \in 1..Len(c) : n \in places <=> c[n].kind \in K
    OBVIOUS
  <2> HIDE DEF places
  <2>3. /\ Whole(t) /\ CallsInOrder(t)
        /\ \A n \in 1..Len(t) : \E m \in 1..Len(c) : m \in places /\ t[n] = c[m]
        /\ \A m \in 1..Len(c) : m \in places => Has(t, c[m].block)
    BY <1>1, TakenWhole DEF Parser
  <2> HIDE DEF t
  <2>4. OfKinds(t, K)
    BY <2>2, <2>3 DEF OfKinds
  <2>5. ASSUME NEW i \in Blocks, Kind(i) \in K, PartsSent(i) > 0 PROVE Has(t, i)
    <3>1. PICK m \in 1..Len(c) : c[m].block = i
      BY <1>1, <1>2, <2>5 DEF Parser, Has
    <3>2. i # 0
      BY SaidType DEF StreamInv
    <3>3. c[m].kind = Kind(i)
      BY <1>1, <3>1, <3>2 DEF Parser, Whole, IsWhole
    <3> QED
      BY <2>2, <2>3, <2>5, <3>1, <3>3
  <2> QED
    BY <2>1, <2>3, <2>4, <2>5 DEF Parser
<1>3. CASE request.protocol = "messages"
  <2>1. Parser(Only({"text", "call"}), {"text", "call"})
    BY <1>2 DEF All
  <2>2. StateKinds = {"thinking"}
    BY <1>3 DEF StateKinds
  <2>5. Parser(inferred.state \o Only({"text", "call"}), {"thinking"} \cup {"text", "call"})
    BY <1>1, <2>1, <2>2, ParsersJoined
  <2>3. Resent = inferred.state \o Only({"text", "call"})
    BY <1>3 DEF Resent, AnthropicMessage
  <2>4. \A i \in Blocks : Kind(i) # "refusal" => Kind(i) \in {"thinking"} \cup {"text", "call"}
    BY AnswerBlocks DEF StreamInv, BlockKinds
  <2> QED
    BY <2>3, <2>4, <2>5 DEF SentBack, Parser
<1>4. CASE request.protocol # "messages"
  <2>1. Parser(Only({"text"}), {"text"}) /\ Parser(Only({"call"}), {"call"})
    BY <1>2 DEF All
  <2>2. Parser(Only({"text"}) \o Only({"call"}), {"text"} \cup {"call"})
    BY <2>1, ParsersJoined
  <2>3. Resent = Only({"text"}) \o Only({"call"})
    BY <1>4 DEF Resent, OpenAiMessage
  <2>4. \A i \in Blocks : ~Dropped(i) => Kind(i) # "thinking"
    BY <1>1, <1>4 DEF Spoken, Speaks, Blocks, Kind, Dropped
  <2>5. \A i \in Blocks : Kind(i) # "refusal" /\ ~Dropped(i) => Kind(i) \in {"text"} \cup {"call"}
    BY <2>4, AnswerBlocks DEF StreamInv, BlockKinds
  <2> QED
    BY <2>2, <2>3, <2>5 DEF SentBack, Parser
<1> QED
  BY <1>3, <1>4

-----------------------------------------------------------------------------
(* The invariant is inductive *)

LEMMA StreamInvStart == StreamsInit => StreamInv
<1> SUFFICES ASSUME StreamsInit PROVE StreamInv
  OBVIOUS
<1>1. StreamsTypes
  BY StreamsTypesStart
<1>2. Blocks = {} /\ events = <<>> /\ Len(events) = 0 /\ connection = "idle" /\ inferred.kind = "none"
      /\ resent = <<>> /\ request.protocol = "none"
  <2>1. Len(<<>>) = 0
    OBVIOUS
  <2> QED
    BY <2>1 DEF StreamsInit, Blocks, NoRequest, NoOutcome
<1>3. \A what : ~Emitted(what)
  BY <1>2 DEF Emitted
<1>4. Fragments /\ EventOrder /\ AnswerRead
  BY <1>2, <1>3 DEF Fragments, EventOrder, AnswerRead
<1> QED
  BY <1>1, <1>4 DEF StreamInv

\* A set of blocks and what was sent of them, as long as both stay.
LEMMA BlocksStay ==
  ASSUME UNCHANGED <<request, sent>>
  PROVE  /\ Blocks' = Blocks /\ Spoken' = Spoken /\ CutCall' = CutCall
         /\ \A i : Kind(i)' = Kind(i) /\ Opens(i)' = Opens(i) /\ PartsSent(i)' = PartsSent(i)
         /\ \A i : Finished(i)' = Finished(i) /\ Said(i)' = Said(i)
<1>1. Blocks' = Blocks /\ Spoken' = Spoken
  BY DEF Blocks, Spoken
<1>2. \A i : Kind(i)' = Kind(i) /\ Opens(i)' = Opens(i)
  BY DEF Kind, Opens
<1>3. \A i : PartsSent(i)' = PartsSent(i)
  BY <1>2 DEF PartsSent
<1>4. \A i : Finished(i)' = Finished(i)
  BY <1>2 DEF Finished
<1>5. \A i : Said(i)' = Said(i)
  BY <1>3 DEF Said
<1>6. CutCall' = CutCall
  BY <1>1, <1>2, <1>4 DEF CutCall
<1> QED
  BY <1>1, <1>2, <1>3, <1>4, <1>5, <1>6

LEMMA WholeStays ==
  ASSUME UNCHANGED <<request, sent>>, NEW s
  PROVE  Whole(s)' <=> Whole(s)
<1>1. \A e : IsWhole(e)' <=> IsWhole(e)
  BY BlocksStay DEF IsWhole
<1> QED
  BY <1>1 DEF Whole, Entries

\* An answer and what goes back stay what they are while the events stay.
LEMMA AnswerStays ==
  ASSUME UNCHANGED <<request, sent, events>>, NEW a
  PROVE  /\ Delivered(a)' <=> Delivered(a)
         /\ SentBack(a)' <=> SentBack(a)
<1>1. \A what : Emitted(what)' <=> Emitted(what)
  BY DEF Emitted
<1>2. ASSUME NEW s, NEW K PROVE Parser(s, K)' <=> Parser(s, K)
  <2>1. Whole(s)' <=> Whole(s)
    BY WholeStays
  <2> QED
    BY <2>1, BlocksStay DEF Parser, OfKinds, CallsInOrder, Has
<1>3. Delivered(a)' <=> Delivered(a)
  <2> DEFINE Calls == \A n \in 1..Len(a.content) : a.content[n].kind = "call" =>
                        PartsSent(a.content[n].block) \in {0, request.answer[a.content[n].block].parts}
  <2>1. Calls' <=> Calls
    BY BlocksStay
  <2>2. Delivered(a) <=> /\ Emitted("end") /\ ~Emitted("error") /\ ~Emitted("torn")
                         /\ Parser(a.state, StateKinds) /\ Parser(a.content, {"text", "refusal", "call"})
                         /\ Calls
    BY Zenon DEF Delivered
  <2>3. Delivered(a)' <=> /\ Emitted("end")' /\ ~Emitted("error")' /\ ~Emitted("torn")'
                          /\ Parser(a.state, StateKinds)' /\ Parser(a.content, {"text", "refusal", "call"})'
                          /\ Calls'
    BY Zenon DEF Delivered
  <2> HIDE DEF Calls
  <2>4. /\ Parser(a.state, StateKinds)' <=> Parser(a.state, StateKinds)
        /\ Parser(a.content, {"text", "refusal", "call"})' <=> Parser(a.content, {"text", "refusal", "call"})
    <3>1. StateKinds' = StateKinds
      BY DEF StateKinds
    <3>2. CASE request.protocol = "messages"
      <4>1. StateKinds = {"thinking"} /\ StateKinds' = {"thinking"}
        BY <3>1, <3>2 DEF StateKinds
      <4> QED
        BY <1>2, <4>1
    <3>3. CASE request.protocol # "messages"
      <4>1. StateKinds = {} /\ StateKinds' = {}
        BY <3>1, <3>3 DEF StateKinds
      <4> QED
        BY <1>2, <4>1
    <3> QED
      BY <3>2, <3>3
  <2> QED
    BY <1>1, <2>1, <2>2, <2>3, <2>4
<1>4. SentBack(a)' <=> SentBack(a)
  <2>1. Whole(a)' <=> Whole(a)
    BY WholeStays
  <2>2. \A i : Dropped(i)' <=> Dropped(i)
    BY BlocksStay DEF Dropped
  <2> QED
    BY <2>1, <2>2, BlocksStay DEF SentBack, Has
<1> QED
  BY <1>3, <1>4

\* One more event.
LEMMA OneMore ==
  ASSUME StreamsTypes, NEW e, Emits(e), StreamsTypes'
  PROVE  /\ Len(events') = Len(events) + 1 /\ Len(events) \in Nat /\ events'[Len(events')] = e
         /\ \A n \in 1..Len(events) : events'[n] = events[n]
         /\ \A what : Emitted(what)' <=> Emitted(what) \/ e.what = what
<1>1. events \in Seq(EventRecords) /\ events' = Append(events, e)
  BY DEF StreamsTypes, Emits
<1>2. Len(events') = Len(events) + 1 /\ Len(events) \in Nat
  BY <1>1
<1>3. events'[Len(events')] = e
  BY <1>1, <1>2
<1>4. \A n \in 1..Len(events) : events'[n] = events[n]
  BY <1>1
<1>5. ASSUME NEW what PROVE Emitted(what)' <=> Emitted(what) \/ e.what = what
  <2>1. Emitted(what)' => Emitted(what) \/ e.what = what
    BY <1>2, <1>3, <1>4 DEF Emitted
  <2>2. ASSUME Emitted(what) PROVE Emitted(what)'
    <3>1. PICK n \in 1..Len(events) : events[n].what = what
      BY <2>2 DEF Emitted
    <3>2. n \in 1..Len(events') /\ events'[n].what = what
      BY <1>2, <1>4, <3>1
    <3> QED
      BY <3>2 DEF Emitted
  <2>3. ASSUME e.what = what PROVE Emitted(what)'
    <3>1. Len(events') \in 1..Len(events') /\ events'[Len(events')].what = what
      BY <1>2, <1>3, <2>3
    <3> QED
      BY <3>1 DEF Emitted
  <2> QED
    BY <2>1, <2>2, <2>3
<1> QED
  BY <1>2, <1>3, <1>4, <1>5

\* An event that is no fragment of a block leaves the fragments as they are.
LEMMA FragmentsStay ==
  ASSUME StreamsTypes, StreamsTypes', Fragments, UNCHANGED <<request, sent>>,
         UNCHANGED events \/ \E e : Emits(e) /\ e.what # "part"
  PROVE  Fragments'
<1>1. /\ Blocks' = Blocks
      /\ \A i \in Blocks : Opens(i)' = Opens(i) /\ PartsSent(i)' = PartsSent(i)
  BY BlocksStay
<1>2. CASE UNCHANGED events
  BY <1>1, <1>2 DEF Fragments, IsPart
<1>3. ASSUME NEW e, Emits(e), e.what # "part" PROVE Fragments'
  <2>1. /\ Len(events') = Len(events) + 1 /\ Len(events) \in Nat /\ events'[Len(events')] = e
        /\ \A n \in 1..Len(events) : events'[n] = events[n]
    BY <1>3, OneMore
  <2>2. ASSUME NEW i, NEW p \in 1..Len(events')
        PROVE  IsPart(p, i)' <=> p \in 1..Len(events) /\ IsPart(p, i)
    BY <1>3, <2>1 DEF IsPart
  <2>3. 1..Len(events) \subseteq 1..Len(events')
    BY <2>1
  <2> SUFFICES ASSUME NEW i \in Blocks
               PROVE  /\ sent'[i] <= Opens(i)' + request'.answer[i].parts
                      /\ \A p \in 1..Len(events') : IsPart(p, i)' => events'[p].part \in 1..PartsSent(i)'
                      /\ \A p, q \in 1..Len(events') : p < q /\ IsPart(p, i)' /\ IsPart(q, i)' => events'[p].part < events'[q].part
                      /\ \A n \in 1..PartsSent(i)' : \E p \in 1..Len(events') : IsPart(p, i)' /\ events'[p].part = n
    BY <1>1 DEF Fragments
  <2>4. sent'[i] <= Opens(i)' + request'.answer[i].parts
    BY <1>1 DEF Fragments
  <2>5. \A p \in 1..Len(events') : IsPart(p, i)' => events'[p].part \in 1..PartsSent(i)'
    BY <1>1, <2>1, <2>2 DEF Fragments
  <2>6. ASSUME NEW p \in 1..Len(events'), NEW q \in 1..Len(events'), p < q, IsPart(p, i)', IsPart(q, i)'
        PROVE  events'[p].part < events'[q].part
    BY <2>1, <2>2, <2>6 DEF Fragments
  <2>7. ASSUME NEW n \in 1..PartsSent(i)' PROVE \E p \in 1..Len(events') : IsPart(p, i)' /\ events'[p].part = n
    <3>1. PICK p \in 1..Len(events) : IsPart(p, i) /\ events[p].part = n
      BY <1>1, <2>7 DEF Fragments
    <3> QED
      BY <2>1, <2>2, <2>3, <3>1
  <2> QED
    BY <2>4, <2>5, <2>6, <2>7
<1> QED
  BY <1>2, <1>3

\* The next fragment of a block is the one after those that were sent.
LEMMA StreamsFragments ==
  ASSUME StreamInv, StreamsTypes', NEW i \in Blocks, Streams(i)
  PROVE  Fragments' /\ \E e : Emits(e) /\ e.what \in {"start", "part"}
<1> DEFINE e == IF sent[i] < Opens(i) THEN Event("start", i, 0, "other")
                                      ELSE Event("part", i, PartsSent(i) + 1, "other")
<1>1. StreamsTypes /\ Fragments /\ sent[i] \in Nat /\ sent' = [sent EXCEPT ![i] = sent[i] + 1] /\ request' = request
      /\ Emits(e) /\ ~Finished(i)
  BY DEF StreamInv, StreamsTypes, StreamsType, Streams
<1>2. /\ Opens(i) \in {0, 1} /\ PartsSent(i) \in Nat /\ request.answer[i].parts \in Nat
      /\ PartsSent(i) = IF sent[i] > Opens(i) THEN sent[i] - Opens(i) ELSE 0
  BY <1>1, AnswerBlocks DEF PartsSent
<1>3. e.block = i /\ e.what \in {"start", "part"}
  BY DEF Event
<1>4. e.what = "part" <=> ~(sent[i] < Opens(i))
  BY DEF Event
<1>5. e.what = "part" => e.part = PartsSent(i) + 1
  BY DEF Event
<1> HIDE DEF e
<1>6. /\ Len(events') = Len(events) + 1 /\ Len(events) \in Nat /\ events'[Len(events')] = e
      /\ \A n \in 1..Len(events) : events'[n] = events[n]
  BY <1>1, OneMore
<1>7. Blocks' = Blocks /\ \A j : Opens(j)' = Opens(j) /\ Kind(j)' = Kind(j)
  BY <1>1 DEF Blocks, Kind, Opens
<1>8. sent \in [Blocks -> Nat]
  BY <1>1 DEF StreamsTypes, StreamsType
<1>9. \A j \in Blocks : j # i => sent'[j] = sent[j] /\ PartsSent(j)' = PartsSent(j)
  BY <1>1, <1>7, <1>8 DEF PartsSent
<1>10. sent'[i] = sent[i] + 1 /\ PartsSent(i)' = IF e.what = "part" THEN PartsSent(i) + 1 ELSE PartsSent(i)
  <2>1. sent'[i] = sent[i] + 1
    BY <1>1, <1>8
  <2>2. PartsSent(i)' = IF sent'[i] > Opens(i) THEN sent'[i] - Opens(i) ELSE 0
    BY <1>7 DEF PartsSent
  <2> QED
    BY <1>1, <1>2, <1>4, <2>1, <2>2
<1>11. ASSUME NEW j, NEW p \in 1..Len(events')
       PROVE  /\ p \in 1..Len(events) \/ p = Len(events')
              /\ p \in 1..Len(events) => (IsPart(p, j)' <=> IsPart(p, j))
              /\ p = Len(events') => (IsPart(p, j)' <=> e.what = "part" /\ j = i)
  BY <1>3, <1>6 DEF IsPart
<1>12. 1..Len(events) \subseteq 1..Len(events') /\ Len(events') \in 1..Len(events')
       /\ \A p \in 1..Len(events) : p < Len(events')
  BY <1>6
<1>13. ASSUME NEW j \in Blocks, j # i
       PROVE  /\ sent'[j] <= Opens(j)' + request'.answer[j].parts
              /\ \A p \in 1..Len(events') : IsPart(p, j)' => events'[p].part \in 1..PartsSent(j)'
              /\ \A p, q \in 1..Len(events') : p < q /\ IsPart(p, j)' /\ IsPart(q, j)' => events'[p].part < events'[q].part
              /\ \A n \in 1..PartsSent(j)' : \E p \in 1..Len(events') : IsPart(p, j)' /\ events'[p].part = n
  <2>1. sent'[j] <= Opens(j)' + request'.answer[j].parts
    BY <1>1, <1>7, <1>9, <1>13 DEF Fragments
  <2>2. \A p \in 1..Len(events') : IsPart(p, j)' => p \in 1..Len(events) /\ IsPart(p, j)
    BY <1>11, <1>13
  <2>3. \A p \in 1..Len(events') : IsPart(p, j)' => events'[p].part \in 1..PartsSent(j)'
    BY <1>1, <1>6, <1>9, <1>13, <2>2 DEF Fragments
  <2>4. ASSUME NEW p \in 1..Len(events'), NEW q \in 1..Len(events'), p < q, IsPart(p, j)', IsPart(q, j)'
        PROVE  events'[p].part < events'[q].part
    BY <1>1, <1>6, <2>2, <2>4 DEF Fragments
  <2>5. ASSUME NEW n \in 1..PartsSent(j)' PROVE \E p \in 1..Len(events') : IsPart(p, j)' /\ events'[p].part = n
    <3>1. PICK p \in 1..Len(events) : IsPart(p, j) /\ events[p].part = n
      BY <1>1, <1>9, <1>13, <2>5 DEF Fragments
    <3> QED
      BY <1>6, <1>11, <1>12, <3>1
  <2> QED
    BY <2>1, <2>3, <2>4, <2>5
<1>14. /\ sent'[i] <= Opens(i)' + request'.answer[i].parts
       /\ \A p \in 1..Len(events') : IsPart(p, i)' => events'[p].part \in 1..PartsSent(i)'
       /\ \A p, q \in 1..Len(events') : p < q /\ IsPart(p, i)' /\ IsPart(q, i)' => events'[p].part < events'[q].part
       /\ \A n \in 1..PartsSent(i)' : \E p \in 1..Len(events') : IsPart(p, i)' /\ events'[p].part = n
  <2>1. sent'[i] <= Opens(i)' + request'.answer[i].parts
    <3>1. sent[i] <= Opens(i) + request.answer[i].parts /\ sent[i] # Opens(i) + request.answer[i].parts
      BY <1>1 DEF Fragments, Finished
    <3> QED
      BY <1>1, <1>2, <1>7, <1>10, <3>1
  <2>2. /\ \A p \in 1..Len(events) : IsPart(p, i) => events[p].part \in 1..PartsSent(i)
        /\ \A p, q \in 1..Len(events) : p < q /\ IsPart(p, i) /\ IsPart(q, i) => events[p].part < events[q].part
        /\ \A n \in 1..PartsSent(i) : \E p \in 1..Len(events) : IsPart(p, i) /\ events[p].part = n
    BY <1>1 DEF Fragments
  <2>3. ASSUME NEW p \in 1..Len(events'), IsPart(p, i)'
        PROVE  \/ p \in 1..Len(events) /\ IsPart(p, i) /\ events'[p] = events[p] /\ events[p].part \in 1..PartsSent(i)
               \/ p = Len(events') /\ e.what = "part" /\ events'[p].part = PartsSent(i) + 1
    BY <1>5, <1>6, <1>11, <2>2, <2>3
  <2>4. \A p \in 1..Len(events') : IsPart(p, i)' => events'[p].part \in 1..PartsSent(i)'
    BY <1>2, <1>10, <2>3
  <2>5. ASSUME NEW p \in 1..Len(events'), NEW q \in 1..Len(events'), p < q, IsPart(p, i)', IsPart(q, i)'
        PROVE  events'[p].part < events'[q].part
    <3>1. p \in 1..Len(events) /\ IsPart(p, i) /\ events'[p] = events[p] /\ events[p].part \in 1..PartsSent(i)
      BY <1>6, <2>3, <2>5
    <3>2. CASE q \in 1..Len(events) /\ IsPart(q, i) /\ events'[q] = events[q]
      BY <2>2, <2>5, <3>1, <3>2
    <3>3. CASE events'[q].part = PartsSent(i) + 1
      BY <1>2, <3>1, <3>3
    <3> QED
      BY <2>3, <2>5, <3>2, <3>3
  <2>6. ASSUME NEW n \in 1..PartsSent(i)' PROVE \E p \in 1..Len(events') : IsPart(p, i)' /\ events'[p].part = n
    <3>1. CASE n \in 1..PartsSent(i)
      <4>1. PICK p \in 1..Len(events) : IsPart(p, i) /\ events[p].part = n
        BY <2>2, <3>1
      <4> QED
        BY <1>6, <1>11, <1>12, <4>1
    <3>2. CASE n \notin 1..PartsSent(i)
      <4>1. e.what = "part" /\ n = PartsSent(i) + 1
        BY <1>2, <1>10, <2>6, <3>2
      <4> QED
        BY <1>5, <1>6, <1>11, <1>12, <4>1
    <3> QED
      BY <3>1, <3>2
  <2> QED
    BY <2>1, <2>4, <2>5, <2>6
<1>15. Fragments'
  BY <1>7, <1>13, <1>14 DEF Fragments
<1> QED
  BY <1>1, <1>3, <1>15

\* While the connection is open nothing was read.
LEMMA OpenSteps ==
  ASSUME StreamInv, StreamsTypes', Fragments', EventOrder', connection = "open", UNCHANGED <<inferred, resent>>
  PROVE  StreamInv'
<1>1. inferred'.kind = "none" /\ resent' = <<>>
  BY DEF StreamInv, AnswerRead
<1>2. AnswerRead'
  BY <1>1 DEF AnswerRead
<1> QED
  BY <1>2 DEF StreamInv

\* Every step of the stream keeps the invariant.
LEMMA StreamInvKeep == StreamInv /\ [StreamsNext]_streamVars => StreamInv'
<1> SUFFICES ASSUME StreamInv, [StreamsNext]_streamVars PROVE StreamInv'
  OBVIOUS
<1>1. StreamsTypes /\ StreamsTypes' /\ Fragments /\ EventOrder /\ AnswerRead
  BY StreamsTypesKeep DEF StreamInv
<1>2. ASSUME events' = <<>> PROVE \A what : ~Emitted(what)'
  <2>1. Len(<<>>) = 0
    OBVIOUS
  <2> QED
    BY <1>2, <2>1 DEF Emitted
<1>3. ASSUME NotSent PROVE StreamInv'
  <2>1. /\ connection = "idle" /\ connection' = "rejected" /\ UNCHANGED <<request, sent, events, resent>>
        /\ \E kind \in FailureKinds : inferred' = Failed(kind)
    BY <1>3 DEF NotSent, FailureKinds, HttpFailure
  <2>2. events' = <<>> /\ resent' = <<>>
    BY <1>1, <2>1 DEF EventOrder, AnswerRead
  <2>3. inferred'.kind # "response"
    BY <2>1 DEF Failed, NoOutcome, FailureKinds
  <2>4. Fragments'
    BY <1>1, <2>1, FragmentsStay
  <2>5. EventOrder' /\ AnswerRead'
    BY <1>2, <2>1, <2>2, <2>3 DEF EventOrder, AnswerRead
  <2> QED
    BY <1>1, <2>4, <2>5 DEF StreamInv
<1>4. ASSUME Sends PROVE StreamInv'
  <2>1. PICK protocol \in Protocols, answer \in Answers :
          /\ Speaks(protocol, answer)
          /\ request' = [protocol |-> protocol, answer |-> answer]
          /\ sent' = [i \in DOMAIN answer |-> 0]
    BY <1>4 DEF Sends
  <2>2. connection = "idle" /\ connection' = "open" /\ events' = <<>> /\ inferred'.kind = "none" /\ resent' = <<>>
    BY <1>1, <1>4 DEF Sends, EventOrder, AnswerRead
  <2>3. Spoken'
    BY <2>1, ProtocolAssumption DEF Spoken
  <2>4. Fragments'
    <3>1. \A i \in Blocks' : sent'[i] = 0 /\ Opens(i)' \in {0, 1} /\ request'.answer[i].parts \in Nat
      <4>1. \A i \in Blocks' : sent'[i] = 0
        BY <2>1 DEF Blocks
      <4>2. \A i \in Blocks' : Opens(i)' \in {0, 1} /\ request'.answer[i].parts \in Nat
        <5> DEFINE X == [kind : BlockKinds, parts : Nat]
        <5>1. answer \in Seq(X) /\ Blocks' = DOMAIN answer /\ request'.answer = answer
          BY <2>1, AnswerAssumption DEF Blocks
        <5> HIDE DEF X
        <5>2. \A i \in DOMAIN answer : answer[i] \in X
          BY <5>1
        <5> QED
          BY <5>1, <5>2 DEF X, Opens
      <4> QED
        BY <4>1, <4>2
    <3>2. \A i \in Blocks' : PartsSent(i)' = 0
      BY <3>1 DEF PartsSent
    <3>3. 1..Len(events') = {}
      BY <2>2
    <3> QED
      BY <3>1, <3>2, <3>3 DEF Fragments
  <2>5. EventOrder' /\ AnswerRead'
    BY <1>2, <2>2, <2>3 DEF EventOrder, AnswerRead
  <2> QED
    BY <1>1, <2>4, <2>5 DEF StreamInv
<1>5. ASSUME NEW i \in Blocks, Streams(i) PROVE StreamInv'
  <2>1. /\ connection = "open" /\ ~Emitted("finish") /\ UNCHANGED <<request, connection, inferred, resent>>
    BY <1>5 DEF Streams, Speaking
  <2>2. Fragments'
    BY <1>1, <1>5, StreamsFragments
  <2>3. PICK e : Emits(e) /\ e.what \in {"start", "part"}
    BY <1>1, <1>5, StreamsFragments
  <2>4. \A what : Emitted(what)' <=> Emitted(what) \/ e.what = what
    BY <1>1, <2>3, OneMore
  <2>5. Spoken'
    BY <1>1, <2>1 DEF EventOrder, Spoken
  <2>6. ~Emitted("finish")' /\ ~Emitted("end")' /\ ~Emitted("torn")'
    BY <1>1, <2>1, <2>3, <2>4 DEF EventOrder
  <2>7. EventOrder'
    BY <2>1, <2>5, <2>6 DEF EventOrder
  <2> QED
    BY <1>1, <2>1, <2>2, <2>7, OpenSteps
\* The events without a fragment.
<1>6. ASSUME NEW e, Emits(e), e.what \in {"finish", "end", "error", "torn"}, connection = "open",
             UNCHANGED <<request, sent, inferred, resent>>, connection' \in {"open", "closed"},
             e.what = "torn" => connection' = "closed" /\ ~Emitted("end"),
             e.what = "end" => connection' = "open" /\ Emitted("finish"),
             e.what = "finish" /\ request.protocol = "responses" => \A i \in Blocks : Finished(i)
      PROVE  StreamInv'
  <2>1. Fragments'
    BY <1>1, <1>6, FragmentsStay
  <2>2. \A what : Emitted(what)' <=> Emitted(what) \/ e.what = what
    BY <1>1, <1>6, OneMore
  <2>3. Spoken' /\ Blocks' = Blocks /\ \A i : Finished(i)' = Finished(i)
    BY <1>1, <1>6, BlocksStay DEF EventOrder
  <2>4. ~Emitted("torn")
    BY <1>1, <1>6 DEF EventOrder
  <2>5. EventOrder'
    BY <1>1, <1>6, <2>2, <2>3, <2>4 DEF EventOrder
  <2> QED
    BY <1>1, <1>6, <2>1, <2>5, OpenSteps
<1>7. ASSUME Stops PROVE StreamInv'
  <2>1. PICK reason \in {"other", "filter"} :
          /\ request.protocol = "responses" => reason = "other" /\ \A i \in Blocks : Finished(i)
          /\ Emits(Event("finish", 0, 0, reason))
    BY <1>7 DEF Stops
  <2>2. connection = "open" /\ UNCHANGED <<request, sent, connection, inferred, resent>>
    BY <1>7 DEF Stops, Speaking
  <2>3. Event("finish", 0, 0, reason).what = "finish"
    BY DEF Event
  <2> QED
    BY <1>6, <2>1, <2>2, <2>3
<1>8. ASSUME EndsAnswer PROVE StreamInv'
  <2>1. /\ connection = "open" /\ Emitted("finish") /\ Emits(Event("end", 0, 0, "other"))
        /\ UNCHANGED <<request, sent, connection, inferred, resent>>
    BY <1>8 DEF EndsAnswer
  <2>2. Event("end", 0, 0, "other").what = "end"
    BY DEF Event
  <2> QED
    BY <1>6, <2>1, <2>2
<1>9. ASSUME ReportsError PROVE StreamInv'
  <2>1. PICK hint \in Hints : Emits(Event("error", 0, 0, hint))
    BY <1>9 DEF ReportsError
  <2>2. connection = "open" /\ UNCHANGED <<request, sent, connection, inferred, resent>>
    BY <1>9 DEF ReportsError
  <2>3. Event("error", 0, 0, hint).what = "error"
    BY DEF Event
  <2> QED
    BY <1>6, <2>1, <2>2, <2>3
<1>10. ASSUME Closes PROVE StreamInv'
  <2>1. connection = "open" /\ UNCHANGED <<request, sent, inferred, resent>>
    BY <1>10 DEF Closes
  <2>2. CASE UNCHANGED events /\ connection' \in {"closed", "broken", "large"}
    <3>1. Fragments'
      BY <1>1, <2>1, <2>2, FragmentsStay
    <3>2. \A what : Emitted(what)' <=> Emitted(what)
      BY <2>2 DEF Emitted
    <3>3. Spoken' /\ Blocks' = Blocks /\ \A i : Finished(i)' = Finished(i)
      BY <1>1, <2>1, BlocksStay DEF EventOrder
    <3>4. ~Emitted("torn")
      BY <1>1, <2>1 DEF EventOrder
    <3>5. EventOrder'
      BY <1>1, <2>1, <2>2, <3>2, <3>3, <3>4 DEF EventOrder
    <3> QED
      BY <1>1, <2>1, <3>1, <3>5, OpenSteps
  <2>3. CASE connection' = "closed" /\ ~Emitted("end") /\ Emits(Event("torn", 0, 0, "other"))
    <3>1. Event("torn", 0, 0, "other").what = "torn"
      BY DEF Event
    <3> QED
      BY <1>6, <2>1, <2>3, <3>1
  <2> QED
    BY <1>10, <2>2, <2>3 DEF Closes
\* The events stay, and what they are of; the connection is not open.
<1>11. ASSUME UNCHANGED <<request, sent, events, connection>>, AnswerRead' PROVE StreamInv'
  <2>1. Fragments'
    BY <1>1, <1>11, FragmentsStay
  <2>2. \A what : Emitted(what)' <=> Emitted(what)
    BY <1>11 DEF Emitted
  <2>3. EventOrder'
    BY <1>1, <1>11, <2>2, BlocksStay DEF EventOrder
  <2> QED
    BY <1>1, <1>11, <2>1, <2>3 DEF StreamInv
<1>12. ASSUME UNCHANGED <<request, sent, events>>
       PROVE  /\ \A a : Delivered(a)' <=> Delivered(a)
              /\ \A a : SentBack(a)' <=> SentBack(a)
              /\ \A what : Emitted(what)' <=> Emitted(what)
              /\ CutCall' <=> CutCall
  BY <1>12, AnswerStays, BlocksStay DEF Emitted
<1>13. ASSUME Reads PROVE StreamInv'
  <2>1. /\ connection \in {"closed", "broken", "large"} /\ inferred.kind = "none"
        /\ inferred' = CASE connection = "broken" -> Failed("stream_interrupted")
                         [] connection = "large" -> Failed("response_too_large")
                         [] OTHER -> Parsed
        /\ UNCHANGED <<request, sent, events, connection, resent>>
    BY <1>13 DEF Reads
  <2>2. resent' = <<>>
    BY <1>1, <2>1 DEF AnswerRead
  <2>3. CASE connection = "closed"
    <3>1. inferred' = Parsed
      BY <2>1, <2>3
    <3>2. /\ Parsed.kind = "response" => Delivered(Parsed)
          /\ Emitted("end") /\ ~Emitted("error") =>
               Parsed.kind = "response" \/ (Parsed.kind = "invalid_response" /\ CutCall)
      BY <2>3, ParsedDelivered
    <3> DEFINE a == Parsed
    <3>3. inferred' = a
      BY <3>1
    <3>4. /\ a.kind = "response" => Delivered(a)
          /\ Emitted("end") /\ ~Emitted("error") => a.kind = "response" \/ (a.kind = "invalid_response" /\ CutCall)
      BY <3>2
    <3> HIDE DEF a
    <3>5. inferred'.kind = "response" => Delivered(inferred)'
      <4>1. \A b : b = inferred' /\ Delivered(b)' => Delivered(inferred)'
        BY DEF Delivered
      <4> QED
        BY <1>12, <2>1, <3>3, <3>4, <4>1
    <3>6. AnswerRead'
      BY <1>12, <2>1, <2>2, <2>3, <3>3, <3>4, <3>5 DEF AnswerRead
    <3> QED
      BY <1>11, <2>1, <3>6
  <2>4. CASE connection \in {"broken", "large"}
    <3>1. inferred'.kind \in {"stream_interrupted", "response_too_large"}
      BY <2>1, <2>4 DEF Failed, NoOutcome
    <3>2. AnswerRead'
      BY <2>1, <2>2, <2>4, <3>1 DEF AnswerRead
    <3> QED
      BY <1>11, <2>1, <3>2
  <2> QED
    BY <2>1, <2>3, <2>4
<1>14. ASSUME SendsBack PROVE StreamInv'
  <2>1. inferred.kind = "response" /\ resent' = Resent /\ UNCHANGED <<request, sent, events, connection, inferred>>
    BY <1>14 DEF SendsBack
  <2>2. SentBack(Resent)
    BY <2>1, ResentWhole
  <2> DEFINE r == Resent
  <2>3. SentBack(r) /\ resent' = r
    BY <2>1, <2>2
  <2> HIDE DEF r
  <2>4. SentBack(resent)'
    <3>1. \A b : b = resent' /\ SentBack(b)' => SentBack(resent)'
      BY DEF SentBack
    <3> QED
      BY <1>12, <2>1, <2>3, <3>1
  <2>5. Delivered(inferred)' <=> Delivered(inferred)
    <3>1. \A b : b = inferred' => (Delivered(b)' <=> Delivered(inferred)')
      BY DEF Delivered
    <3> QED
      BY <1>12, <2>1, <3>1
  <2>6. AnswerRead'
    BY <1>1, <1>12, <2>1, <2>4, <2>5 DEF AnswerRead
  <2> QED
    BY <1>11, <2>1, <2>6
<1>15. ASSUME UNCHANGED streamVars PROVE StreamInv'
  <2>1. UNCHANGED <<request, sent, events, connection, inferred, resent>>
    BY <1>15 DEF streamVars
  <2>2. Delivered(inferred)' <=> Delivered(inferred)
    <3>1. \A b : b = inferred' => (Delivered(b)' <=> Delivered(inferred)')
      BY DEF Delivered
    <3> QED
      BY <1>12, <2>1, <3>1
  <2>3. SentBack(resent)' <=> SentBack(resent)
    <3>1. \A b : b = resent' => (SentBack(b)' <=> SentBack(resent)')
      BY DEF SentBack
    <3> QED
      BY <1>12, <2>1, <3>1
  <2>4. AnswerRead'
    BY <1>1, <1>12, <2>1, <2>2, <2>3 DEF AnswerRead
  <2> QED
    BY <1>11, <2>1, <2>4
<1> QED
  BY <1>3, <1>4, <1>5, <1>7, <1>8, <1>9, <1>10, <1>13, <1>14, <1>15 DEF StreamsNext

-----------------------------------------------------------------------------
(* What the invariant says of the answers *)

\* The answer that the agent gets is whole, and an answer that the provider ended is no
\* error but for a call that was cut.
LEMMA ResponsesWhole == StreamInv => ResponsesAreWhole
<1> SUFFICES ASSUME StreamInv PROVE ResponsesAreWhole
  OBVIOUS
<1> DEFINE entries == inferred.state \o inferred.content
<1>1. ASSUME inferred.kind = "response"
      PROVE  /\ Emitted("end") /\ ~Emitted("error") /\ ~Emitted("torn")
             /\ \A i \in Blocks : ~Dropped(i) /\ PartsSent(i) > 0 =>
                  \E n \in EntriesOf(i, entries) :
                    EntriesOf(i, entries) = {n} /\ entries[n].kind = Kind(i) /\ entries[n].parts = Said(i)
             /\ \A n, m \in 1..Len(entries) :
                  /\ entries[n].kind = "call" => PartsSent(entries[n].block) \in {0, request.answer[entries[n].block].parts}
                  /\ n < m /\ entries[n].kind = "call" /\ entries[m].kind = "call" => entries[n].block < entries[m].block
  <2>1. Delivered(inferred) /\ StreamsTypes
    BY <1>1 DEF StreamInv, AnswerRead
  <2>2. /\ Emitted("end") /\ ~Emitted("error") /\ ~Emitted("torn")
        /\ Parser(inferred.state, StateKinds) /\ Parser(inferred.content, {"text", "refusal", "call"})
        /\ \A n \in 1..Len(inferred.content) :
             inferred.content[n].kind = "call" =>
               PartsSent(inferred.content[n].block) \in {0, request.answer[inferred.content[n].block].parts}
    BY <2>1 DEF Delivered
  <2>3. Parser(entries, StateKinds \cup {"text", "refusal", "call"})
    BY <2>2, ParsersJoined DEF StateKinds
  <2>4. inferred.state \in Seq(Entries) /\ inferred.content \in Seq(Entries)
    BY <2>2 DEF Parser, Whole
  <2>5. \A n \in 1..Len(entries) :
          \/ n \in 1..Len(inferred.state) /\ entries[n] = inferred.state[n]
          \/ \E m \in 1..Len(inferred.content) : n = Len(inferred.state) + m /\ entries[n] = inferred.content[m]
    <3> DEFINE s == inferred.state
               c == inferred.content
               X == Entries
    <3>1. s \in Seq(X) /\ c \in Seq(X) /\ entries = s \o c
      BY <2>4
    <3> HIDE DEF s, c, X
    <3>2. /\ s \o c \in Seq(X) /\ Len(s \o c) = Len(s) + Len(c) /\ Len(s) \in Nat /\ Len(c) \in Nat
          /\ \A n \in 1..Len(s) : n \in 1..Len(s \o c) /\ (s \o c)[n] = s[n]
          /\ \A n \in 1..Len(c) : Len(s) + n \in 1..Len(s \o c) /\ (s \o c)[Len(s) + n] = c[n]
          /\ \A n \in 1..Len(s \o c) :
               \/ n \in 1..Len(s) /\ (s \o c)[n] = s[n]
               \/ \E m \in 1..Len(c) : n = Len(s) + m /\ (s \o c)[n] = c[m]
      BY <3>1, JoinedPlaces
    <3> HIDE DEF entries
    <3>3. \A n \in 1..Len(entries) :
            \/ n \in 1..Len(s) /\ entries[n] = s[n]
            \/ \E m \in 1..Len(c) : n = Len(s) + m /\ entries[n] = c[m]
      BY <3>1, <3>2
    <3> QED
      BY <3>3 DEF s, c
  <2> HIDE DEF entries
  <2>6. ASSUME NEW n \in 1..Len(entries), entries[n].kind = "call"
        PROVE  PartsSent(entries[n].block) \in {0, request.answer[entries[n].block].parts}
    <3>1. \A m \in 1..Len(inferred.state) : inferred.state[m].kind # "call"
      BY <2>2 DEF Parser, OfKinds, StateKinds
    <3>2. PICK m \in 1..Len(inferred.content) : entries[n] = inferred.content[m]
      BY <2>5, <2>6, <3>1
    <3> QED
      BY <2>2, <2>6, <3>2
  <2>7. ASSUME NEW i \in Blocks, ~Dropped(i), PartsSent(i) > 0
        PROVE  \E n \in EntriesOf(i, entries) :
                 EntriesOf(i, entries) = {n} /\ entries[n].kind = Kind(i) /\ entries[n].parts = Said(i)
    <3>1. Kind(i) \in StateKinds \cup {"text", "refusal", "call"} /\ i # 0
      <4>1. Spoken
        BY <1>1 DEF StreamInv, AnswerRead, EventOrder
      <4>2. request.protocol # "messages" => Kind(i) # "thinking"
        BY <2>7, <4>1 DEF Spoken, Speaks, Blocks, Kind, Dropped
      <4> QED
        BY <2>1, <4>2, AnswerBlocks, SaidType DEF BlockKinds, StateKinds
    <3>2. PICK n \in 1..Len(entries) : entries[n].block = i
      BY <2>3, <2>7, <3>1 DEF Parser, Has
    <3>3. EntriesOf(i, entries) = {n}
      BY <2>3, <3>1, <3>2 DEF EntriesOf, Parser, Whole
    <3>4. entries[n].kind = Kind(i) /\ entries[n].parts = Said(i)
      BY <2>3, <3>1, <3>2 DEF Parser, Whole, IsWhole
    <3> QED
      BY <3>3, <3>4
  <2>8. \A n, m \in 1..Len(entries) :
          n < m /\ entries[n].kind = "call" /\ entries[m].kind = "call" => entries[n].block < entries[m].block
    BY <2>3 DEF Parser, CallsInOrder
  <2> QED
    BY <2>2, <2>6, <2>7, <2>8
<1>2. connection = "closed" /\ Emitted("end") /\ ~Emitted("error") /\ inferred.kind # "none" =>
        \/ inferred.kind = "response"
        \/ inferred.kind = "invalid_response" /\ \E i \in Blocks : Kind(i) = "call" /\ ~Finished(i)
  BY DEF StreamInv, AnswerRead, CutCall
<1> HIDE DEF entries
<1> QED
  BY <1>1, <1>2, Zenon DEF ResponsesAreWhole, entries

\* What goes back to the provider is what it said.
LEMMA AnswersResent == StreamInv => AnswersAreResent
<1> SUFFICES ASSUME StreamInv, resent # <<>>, NEW i \in Blocks, Kind(i) # "refusal", ~Dropped(i), PartsSent(i) > 0
             PROVE  \E n \in EntriesOf(i, resent) : EntriesOf(i, resent) = {n} /\ resent[n].parts = Said(i)
  BY DEF AnswersAreResent
<1>1. Whole(resent) /\ Has(resent, i) /\ i # 0
  BY SaidType DEF StreamInv, AnswerRead, SentBack
<1>2. PICK n \in 1..Len(resent) : resent[n].block = i
  BY <1>1 DEF Has
<1>3. EntriesOf(i, resent) = {n}
  BY <1>1, <1>2 DEF EntriesOf, Whole
<1>4. resent[n].parts = Said(i)
  BY <1>1, <1>2 DEF Whole, IsWhole
<1> QED
  BY <1>3, <1>4
=============================================================================
