---------------------------- MODULE KListProofs ----------------------------
(***************************************************************************)
(* What the list operations of KList return, for every list; and before    *)
(* that, what the other proofs too need of the least number, of induction  *)
(* and of remainders.                                                      *)
(***************************************************************************)
EXTENDS KList, WellFoundedInduction, TLAPS

(* A non-empty set of numbers has a least one: the position of a list that *)
(* a walk stops at.                                                        *)
LEMMA Least ==
  ASSUME NEW S \in SUBSET Nat, S # {}
  PROVE  \E k \in S : \A j \in S : k <= j
  <1>1. PICK k \in S : \A j \in S : ~(<<j, k>> \in OpToRel(<, Nat))
    BY NatLessThanWellFounded, WFMin
  <1>2. \A j \in S : ~(j < k)
    BY <1>1 DEF OpToRel
  <1>3. QED
    BY <1>2

(* The numbers that satisfy what holds at zero and goes on to the next     *)
(* number are all of them.                                                 *)
LEMMA Induct ==
  ASSUME NEW n \in Nat, NEW G \in SUBSET (0..n), 0 \in G,
         \A m \in 0..(n - 1) : m \in G => m + 1 \in G
  PROVE  G = 0..n
  <1>1. SUFFICES ASSUME (0..n) \ G # {} PROVE FALSE
    OBVIOUS
  <1>2. PICK k \in (0..n) \ G : \A j \in (0..n) \ G : k <= j
    BY <1>1, Least, (0..n) \ G \in SUBSET Nat
  <1>3. k - 1 \in 0..(n - 1) /\ k - 1 \in G
    BY <1>2
  <1>4. QED
    BY <1>2, <1>3

(* Quotient and remainder. *)
LEMMA ModRange ==
  ASSUME NEW m \in Nat \ {0}, NEW a \in Int
  PROVE  a % m \in 0..(m - 1) /\ a \div m \in Int /\ a = m * (a \div m) + (a % m)
  OBVIOUS

(* There is one remainder. *)
LEMMA ModUnique ==
  ASSUME NEW m \in Nat \ {0}, NEW a \in Int, NEW q \in Int, NEW r \in 0..(m - 1), a = m * q + r
  PROVE  a % m = r
  OBVIOUS

(* There is one quotient. *)
LEMMA DivUnique ==
  ASSUME NEW m \in Nat \ {0}, NEW a \in Int, NEW q \in Int, NEW r \in 0..(m - 1), a = m * q + r
  PROVE  a \div m = q
  OBVIOUS

(* A remainder that is one already. *)
LEMMA ModSmall ==
  ASSUME NEW m \in Nat \ {0}, NEW a \in 0..(m - 1)
  PROVE  a % m = a
  BY ModUnique, a = m * 0 + a

(* A counter that wraps around may be reduced before or after an addition. *)
LEMMA ModAdd ==
  ASSUME NEW m \in Nat \ {0}, NEW a \in Int, NEW b \in Int
  PROVE  ((a % m) + b) % m = (a + b) % m
  <1> DEFINE q == a \div m
             r == a % m
             p == (a + b) \div m
             s == (a + b) % m
  <1>1. /\ r \in 0..(m - 1) /\ q \in Int /\ a = m * q + r
        /\ s \in 0..(m - 1) /\ p \in Int /\ a + b = m * p + s
    BY ModRange
  <1> HIDE DEF q, r, p, s
  <1>2. r + b = m * (p - q) + s
    BY <1>1
  <1>3. (r + b) % m = s
    <2>1. r + b \in Int /\ p - q \in Int
      BY <1>1
    <2>2. QED
      BY <1>1, <1>2, <2>1, ModUnique
  <1>4. QED
    BY <1>3 DEF r, s

-----------------------------------------------------------------------------
(* An empty list has no entries and a non-empty one has a first entry.     *)
LEMMA ListEmpty ==
  ASSUME NEW S, NEW q \in Seq(S)
  PROVE  /\ Entries(q) \subseteq S
         /\ list_empty(q) <=> Entries(q) = {}
         /\ list_empty(q) <=> Len(q) = 0
         /\ ~list_empty(q) => list_first_entry(q) \in Entries(q)
  BY DEF Entries, list_empty, list_first_entry

(* list_add_tail() links one more entry, once if it was not linked. *)
LEMMA ListAddTail ==
  ASSUME NEW S, NEW q \in Seq(S), NEW e \in S
  PROVE  /\ list_add_tail(e, q) \in Seq(S)
         /\ Entries(list_add_tail(e, q)) = Entries(q) \cup {e}
         /\ LinkedOnce(q) /\ e \notin Entries(q) => LinkedOnce(list_add_tail(e, q))
  <1> DEFINE r == list_add_tail(e, q)
  <1>1. /\ r \in Seq(S) /\ Len(r) = Len(q) + 1
        /\ r[Len(r)] = e
        /\ \A i \in 1..Len(q) : r[i] = q[i]
    BY DEF list_add_tail
  <1>2. Entries(r) = Entries(q) \cup {e}
    <2>1. Entries(r) \subseteq Entries(q) \cup {e}
      BY <1>1 DEF Entries
    <2>2. Entries(q) \cup {e} \subseteq Entries(r)
      BY <1>1 DEF Entries
    <2>3. QED
      BY <2>1, <2>2
  <1>3. ASSUME LinkedOnce(q), e \notin Entries(q)
        PROVE  LinkedOnce(r)
    BY <1>1, <1>3 DEF LinkedOnce, Entries
  <1>4. QED
    BY <1>1, <1>2, <1>3

(* list_add() puts the entry first; the others move up by one. *)
LEMMA ListAddAt ==
  ASSUME NEW S, NEW q \in Seq(S), NEW e \in S
  PROVE  /\ list_add(e, q) \in Seq(S)
         /\ Len(list_add(e, q)) = Len(q) + 1
         /\ list_add(e, q)[1] = e
         /\ \A i \in 1..Len(q) : list_add(e, q)[i + 1] = q[i]
  <1> DEFINE r == list_add(e, q)
  <1>1. Len(q) \in Nat /\ \A i \in 1..Len(q) : q[i] \in S
    OBVIOUS
  <1>2. /\ r \in [1..(Len(q) + 1) -> S]
        /\ \A i \in 1..(Len(q) + 1) : r[i] = IF i = 1 THEN e ELSE q[i - 1]
    BY <1>1 DEF list_add
  <1> HIDE DEF r
  <1>3. r \in Seq(S) /\ Len(r) = Len(q) + 1
    BY <1>1, <1>2
  <1>4. r[1] = e /\ \A i \in 1..Len(q) : r[i + 1] = q[i]
    BY <1>1, <1>2, <1>3
  <1>5. QED
    BY <1>3, <1>4 DEF r

(* list_add() links one more entry, once if it was not linked. *)
LEMMA ListAdd ==
  ASSUME NEW S, NEW q \in Seq(S), NEW e \in S
  PROVE  /\ list_add(e, q) \in Seq(S)
         /\ Entries(list_add(e, q)) = Entries(q) \cup {e}
         /\ LinkedOnce(q) /\ e \notin Entries(q) => LinkedOnce(list_add(e, q))
  <1>1. PICK r \in Seq(S) : /\ r = list_add(e, q)
                            /\ Len(r) = Len(q) + 1 /\ r[1] = e
                            /\ \A i \in 1..Len(q) : r[i + 1] = q[i]
    BY ListAddAt
  <1>2. Len(q) \in Nat
    OBVIOUS
  <1>3. \A i \in 1..Len(r) : i = 1 \/ \E h \in 1..Len(q) : i = h + 1 /\ r[i] = q[h]
    <2> SUFFICES ASSUME NEW i \in 1..Len(r), i # 1
                 PROVE  \E h \in 1..Len(q) : i = h + 1 /\ r[i] = q[h]
      OBVIOUS
    <2>1. i - 1 \in 1..Len(q) /\ i = (i - 1) + 1
      BY <1>1, <1>2
    <2>2. r[(i - 1) + 1] = q[i - 1]
      BY <1>1, <2>1
    <2>3. QED
      BY <2>1, <2>2
  <1>4. Entries(r) = Entries(q) \cup {e}
    <2>1. Entries(r) \subseteq Entries(q) \cup {e}
      BY <1>1, <1>3 DEF Entries
    <2>2. \A i \in 1..Len(q) : i + 1 \in 1..Len(r)
      BY <1>1, <1>2
    <2>3. 1 \in 1..Len(r)
      BY <1>1, <1>2
    <2>4. Entries(q) \cup {e} \subseteq Entries(r)
      BY <1>1, <2>2, <2>3 DEF Entries
    <2>5. QED
      BY <2>1, <2>4
  <1>5. ASSUME LinkedOnce(q), e \notin Entries(q)
        PROVE  LinkedOnce(r)
    <2> SUFFICES ASSUME NEW i \in 1..Len(r), NEW j \in 1..Len(r), r[i] = r[j]
                 PROVE  i = j
      BY DEF LinkedOnce
    <2>1. \A h \in 1..Len(q) : q[h] # e
      BY <1>5 DEF Entries
    <2>2. QED
      BY <1>1, <1>3, <1>5, <2>1 DEF LinkedOnce
  <1>6. QED
    BY <1>1, <1>4, <1>5

(* list_del() of a linked entry unlinks that entry and no other. *)
LEMMA ListDel ==
  ASSUME NEW S, NEW q \in Seq(S), LinkedOnce(q), NEW e \in Entries(q)
  PROVE  /\ list_del(e, q) \in Seq(S)
         /\ Len(list_del(e, q)) = Len(q) - 1
         /\ Entries(list_del(e, q)) = Entries(q) \ {e}
         /\ LinkedOnce(list_del(e, q))
  <1> DEFINE k == CHOOSE i \in 1..Len(q) : q[i] = e
             r == [i \in 1..(Len(q) - 1) |-> IF i < k THEN q[i] ELSE q[i + 1]]
  <1>1. k \in 1..Len(q) /\ q[k] = e
    BY DEF Entries
  <1>2. list_del(e, q) = r
    BY DEF list_del
  <1> HIDE DEF k
  <1>3. Len(q) \in Nat /\ Len(q) > 0 /\ \A i \in 1..Len(q) : q[i] \in S
    BY <1>1
  <1>4. /\ r \in Seq(S) /\ Len(r) = Len(q) - 1
        /\ \A i \in 1..Len(r) : r[i] = IF i < k THEN q[i] ELSE q[i + 1]
    <2>1. \A i \in 1..(Len(q) - 1) : r[i] \in S
      BY <1>1, <1>3
    <2>2. r \in [1..(Len(q) - 1) -> S]
      BY <2>1
    <2>3. r \in Seq(S)
      BY <2>2, <1>3
    <2>4. Len(r) = Len(q) - 1
      BY <2>2, <2>3, <1>3
    <2>5. QED
      BY <2>3, <2>4
  <1> HIDE DEF r
  <1>5. LinkedOnce(r)
    <2> SUFFICES ASSUME NEW i \in 1..Len(r), NEW j \in 1..Len(r), r[i] = r[j]
                 PROVE  i = j
      BY DEF LinkedOnce
    <2>1. \A m, n \in 1..Len(q) : q[m] = q[n] => m = n
      BY DEF LinkedOnce
    <2>2. QED
      BY <1>1, <1>3, <1>4, <2>1
  <1>6. Entries(r) = Entries(q) \ {e}
    <2>1. ASSUME NEW i \in 1..Len(r)
          PROVE  r[i] \in Entries(q) \ {e}
      <3>1. \A m, n \in 1..Len(q) : q[m] = q[n] => m = n
        BY DEF LinkedOnce
      <3>2. CASE i < k
        BY <1>1, <1>3, <1>4, <3>1, <3>2 DEF Entries
      <3>3. CASE ~(i < k)
        <4>1. r[i] = q[i + 1] /\ i + 1 \in 1..Len(q) /\ i + 1 # k
          BY <1>1, <1>3, <1>4, <3>3
        <4>2. QED
          BY <1>1, <4>1, <3>1 DEF Entries
      <3>4. QED
        BY <3>2, <3>3
    <2>2. ASSUME NEW m \in 1..Len(q), q[m] # e
          PROVE  \E i \in 1..Len(r) : r[i] = q[m]
      <3>1. CASE m < k
        BY <1>1, <1>3, <1>4, <3>1
      <3>2. CASE m > k
        <4>1. m - 1 \in 1..Len(r) /\ ~(m - 1 < k) /\ (m - 1) + 1 = m
          BY <1>1, <1>3, <1>4, <3>2
        <4>2. r[m - 1] = q[m]
          BY <1>4, <4>1
        <4>3. QED
          BY <4>1, <4>2
      <3>3. m # k
        BY <1>1, <2>2
      <3>4. QED
        BY <1>1, <1>3, <3>1, <3>2, <3>3
    <2>3. QED
      BY <2>1, <2>2 DEF Entries
  <1>7. QED
    BY <1>2, <1>4, <1>5, <1>6

(* list_del() leaves the other entries in their order. *)
LEMMA ListDelOrder ==
  ASSUME NEW S, NEW q \in Seq(S), NEW e \in Entries(q),
         NEW i \in 1..Len(list_del(e, q)), NEW j \in 1..Len(list_del(e, q)), i < j
  PROVE  \E m, n \in 1..Len(q) : m < n /\ list_del(e, q)[i] = q[m] /\ list_del(e, q)[j] = q[n]
  <1> DEFINE k == CHOOSE h \in 1..Len(q) : q[h] = e
             r == [h \in 1..(Len(q) - 1) |-> IF h < k THEN q[h] ELSE q[h + 1]]
  <1>1. k \in 1..Len(q) /\ q[k] = e
    BY DEF Entries
  <1>2. list_del(e, q) = r
    BY DEF list_del
  <1> HIDE DEF k
  <1>3. Len(q) \in Nat /\ Len(q) > 0 /\ \A h \in 1..Len(q) : q[h] \in S
    BY <1>1
  <1>4. r \in [1..(Len(q) - 1) -> S]
    BY <1>1, <1>3
  <1>5. Len(r) = Len(q) - 1
    BY <1>3, <1>4
  <1>6. \A h \in 1..(Len(q) - 1) : r[h] = IF h < k THEN q[h] ELSE q[h + 1]
    OBVIOUS
  <1> HIDE DEF r
  <1>7. i \in 1..(Len(q) - 1) /\ j \in 1..(Len(q) - 1)
    BY <1>2, <1>5
  <1>8. \E m \in 1..Len(q) : r[i] = q[m] /\ (i < k => m = i) /\ (~(i < k) => m = i + 1)
    BY <1>1, <1>3, <1>6, <1>7
  <1>9. \E n \in 1..Len(q) : r[j] = q[n] /\ (j < k => n = j) /\ (~(j < k) => n = j + 1)
    BY <1>1, <1>3, <1>6, <1>7
  <1>10. QED
    BY <1>1, <1>2, <1>7, <1>8, <1>9

(* Taking the first entry off a list. *)
LEMMA HeadTail ==
  ASSUME NEW S, NEW q \in Seq(S), LinkedOnce(q), q # <<>>
  PROVE  /\ Head(q) \in Entries(q) /\ Tail(q) \in Seq(S)
         /\ LinkedOnce(Tail(q)) /\ Entries(Tail(q)) = Entries(q) \ {Head(q)}
  <1>1. /\ Len(q) \in Nat /\ Len(q) > 0 /\ Head(q) = q[1] /\ Tail(q) \in Seq(S)
        /\ Len(Tail(q)) = Len(q) - 1
        /\ \A i \in 1..Len(Tail(q)) : Tail(q)[i] = q[i + 1]
    OBVIOUS
  <1>2. LinkedOnce(Tail(q))
    BY <1>1 DEF LinkedOnce
  <1>3. Entries(Tail(q)) \subseteq Entries(q) \ {Head(q)}
    BY <1>1 DEF LinkedOnce, Entries
  <1>4. ASSUME NEW i \in 1..Len(q), q[i] # q[1]
        PROVE  q[i] \in Entries(Tail(q))
    <2>1. i - 1 \in 1..Len(Tail(q)) /\ Tail(q)[i - 1] = q[i]
      BY <1>1, <1>4
    <2>2. QED
      BY <2>1 DEF Entries
  <1>5. Entries(q) \ {Head(q)} \subseteq Entries(Tail(q)) /\ Head(q) \in Entries(q)
    BY <1>1, <1>4 DEF Entries
  <1>6. QED
    BY <1>1, <1>2, <1>3, <1>5

=============================================================================
