------------------------------ MODULE ListLemmas ------------------------------
(***************************************************************************)
(* Linking and unlinking nodes, for lists of any nodes and any length.     *)
(***************************************************************************)
EXTENDS Lists, TLAPS

(* What is on a list of nodes is a node. *)
LEMMA ElemsType == ASSUME NEW S, NEW q \in Seq(S) PROVE Elems(q) \subseteq S
BY DEF Elems

(* push_front, of a node that is not linked. *)
LEMMA AppendElems ==
  ASSUME NEW S, NEW q \in Seq(S), NEW w \in S, Distinct(q), w \notin Elems(q)
  PROVE  /\ Append(q, w) \in Seq(S) /\ Append(q, w) # <<>>
         /\ Distinct(Append(q, w))
         /\ Elems(Append(q, w)) = Elems(q) \cup {w}
<1> DEFINE r == Append(q, w)
<1>1. r \in Seq(S) /\ Len(r) = Len(q) + 1
  OBVIOUS
<1>2. \A i \in 1..Len(q) : r[i] = q[i]
  OBVIOUS
<1>3. r[Len(q) + 1] = w
  OBVIOUS
<1>4. DOMAIN q = 1..Len(q) /\ DOMAIN r = 1..(Len(q) + 1) /\ Len(q) \in Nat
  BY <1>1
<1>5. Elems(r) = Elems(q) \cup {w}
  BY <1>2, <1>3, <1>4 DEF Elems
<1>6. Distinct(r)
  BY <1>2, <1>3, <1>4 DEF Distinct, Elems
<1>7. r # <<>>
  BY <1>1, <1>4
<1> QED
  BY <1>1, <1>5, <1>6, <1>7

(* pop_back. *)
LEMMA TailElems ==
  ASSUME NEW S, NEW q \in Seq(S), Distinct(q), q # <<>>
  PROVE  /\ Tail(q) \in Seq(S) /\ Head(q) \in S
         /\ Distinct(Tail(q))
         /\ Head(q) \in Elems(q)
         /\ Elems(Tail(q)) = Elems(q) \ {Head(q)}
<1> DEFINE r == Tail(q)
<1>1. r \in Seq(S) /\ Len(r) = Len(q) - 1 /\ Len(q) \in Nat \ {0}
  OBVIOUS
<1>2. \A i \in 1..Len(r) : r[i] = q[i + 1]
  OBVIOUS
<1>3. Head(q) = q[1]
  OBVIOUS
<1>4. DOMAIN q = 1..Len(q) /\ DOMAIN r = 1..(Len(q) - 1)
  BY <1>1
<1>5. Distinct(r)
  BY <1>1, <1>2, <1>4 DEF Distinct
<1>6. Head(q) \in Elems(q) /\ Head(q) \in S
  BY <1>1, <1>3, <1>4 DEF Elems
<1>7. ASSUME NEW x \in Elems(r) PROVE x \in Elems(q) \ {Head(q)}
  BY <1>1, <1>2, <1>3, <1>4, <1>7 DEF Elems, Distinct
<1>8. ASSUME NEW x \in Elems(q) \ {Head(q)} PROVE x \in Elems(r)
  <2>1. PICK i \in 1..Len(q) : x = q[i] /\ i # 1
    BY <1>3, <1>4, <1>8 DEF Elems
  <2>2. i - 1 \in 1..Len(r) /\ r[i - 1] = x
    BY <1>1, <1>2, <2>1
  <2> QED
    BY <1>1, <1>4, <2>2 DEF Elems
<1> QED
  BY <1>1, <1>5, <1>6, <1>7, <1>8

(* List::remove of a node that is not linked. *)
LEMMA UnlinkAbsent ==
  ASSUME NEW S, NEW q \in Seq(S), NEW w \in S, w \notin Elems(q)
  PROVE  Unlink(q, w) = q
BY DEF Unlink, Elems

(* List::remove of a node that is. *)
LEMMA UnlinkElems ==
  ASSUME NEW S, NEW q \in Seq(S), NEW w \in S, Distinct(q)
  PROVE  /\ Unlink(q, w) \in Seq(S)
         /\ Distinct(Unlink(q, w))
         /\ Elems(Unlink(q, w)) = Elems(q) \ {w}
<1>1. CASE w \notin Elems(q)
  BY <1>1, UnlinkAbsent
<1>2. CASE w \in Elems(q)
  <2> DEFINE k == CHOOSE i \in DOMAIN q : q[i] = w
             r == [i \in 1..(Len(q) - 1) |-> IF i < k THEN q[i] ELSE q[i + 1]]
  <2>1. k \in DOMAIN q /\ q[k] = w
    BY <1>2 DEF Elems
  <2>2. Unlink(q, w) = r
    BY <1>2 DEF Unlink, Elems
  <2>3. Len(q) \in Nat \ {0} /\ DOMAIN q = 1..Len(q) /\ DOMAIN r = 1..(Len(q) - 1)
    BY <2>1
  <2> HIDE DEF k
  <2>4. \A i \in 1..(Len(q) - 1) : r[i] = IF i < k THEN q[i] ELSE q[i + 1]
    OBVIOUS
  <2>5. r \in Seq(S)
    <3>1. Len(q) - 1 \in Nat
      BY <2>3
    <3>2. \A i \in 1..(Len(q) - 1) : (IF i < k THEN q[i] ELSE q[i + 1]) \in S
      BY <2>3
    <3>3. r \in [1..(Len(q) - 1) -> S]
      BY <3>2
    <3> QED
      BY <3>1, <3>3
  <2> HIDE DEF r
  <2>6. Distinct(r)
    <3> SUFFICES ASSUME NEW i \in 1..(Len(q) - 1), NEW j \in 1..(Len(q) - 1), r[i] = r[j]
                 PROVE  i = j
      BY <2>3 DEF Distinct
    <3>1. k \in Nat
      BY <2>1, <2>3
    <3>2. \A a, b \in 1..Len(q) : q[a] = q[b] => a = b
      BY <2>3 DEF Distinct
    <3>3. /\ i \in 1..Len(q) /\ i + 1 \in 1..Len(q) /\ j \in 1..Len(q) /\ j + 1 \in 1..Len(q)
      BY <2>3
    <3> QED
      BY <2>4, <3>1, <3>2, <3>3
  <2>7. ASSUME NEW x \in Elems(r) PROVE x \in Elems(q) \ {w}
    <3>1. PICK i \in 1..(Len(q) - 1) : x = r[i]
      BY <2>3, <2>7 DEF Elems
    <3>2. i \in 1..Len(q) /\ i + 1 \in 1..Len(q) /\ k \in 1..Len(q)
      BY <2>1, <2>3
    <3>3. \E j \in 1..Len(q) : x = q[j] /\ j # k
      BY <2>3, <2>4, <3>1, <3>2
    <3> QED
      BY <2>1, <2>3, <3>3 DEF Elems, Distinct
  <2>8. ASSUME NEW x \in Elems(q) \ {w} PROVE x \in Elems(r)
    <3>1. PICK j \in 1..Len(q) : x = q[j] /\ j # k
      BY <2>1, <2>3, <2>8 DEF Elems
    <3>2. k \in 1..Len(q)
      BY <2>1, <2>3
    <3>3. CASE j < k
      BY <2>3, <2>4, <3>1, <3>2, <3>3 DEF Elems
    <3>4. CASE j > k
      <4>1. j - 1 \in 1..(Len(q) - 1) /\ r[j - 1] = q[j]
        BY <2>3, <2>4, <3>1, <3>2, <3>4
      <4> QED
        BY <2>3, <3>1, <4>1 DEF Elems
    <3> QED
      BY <2>3, <3>1, <3>2, <3>3, <3>4
  <2> QED
    BY <2>2, <2>5, <2>6, <2>7, <2>8
<1> QED
  BY <1>1, <1>2

(* The list r is q without its first n nodes. *)
IsSuffix(S, r, q, n) ==
  /\ r \in Seq(S) /\ Len(r) = Len(q) - n
  /\ \A i \in 1..(Len(q) - n) : r[i] = q[n + i]
  /\ r = <<>> <=> n = Len(q)

(* What is left of a list after popping n nodes. *)
LEMMA Suffix ==
  ASSUME NEW S, NEW q \in Seq(S), NEW n \in Nat, n <= Len(q)
  PROVE  IsSuffix(S, SubSeq(q, n + 1, Len(q)), q, n)
<1> DEFINE r == SubSeq(q, n + 1, Len(q))
<1>1. r \in Seq(S)
  OBVIOUS
<1>2. Len(r) = Len(q) - n
  OBVIOUS
<1>3. \A i \in 1..(Len(q) - n) : r[i] = q[n + i]
  OBVIOUS
<1>4. Len(r) = 0 <=> n = Len(q)
  BY <1>2
<1>5. r = <<>> <=> Len(r) = 0
  BY <1>1
<1> QED
  BY <1>1, <1>2, <1>3, <1>4, <1>5 DEF IsSuffix

(* The set of its first n nodes. *)
ArePopped(popped, q, n) == \A x : x \in popped <=> \E i \in 1..n : x = q[i]

(* Which nodes are left. *)
LEMMA PopElems ==
  ASSUME NEW S, NEW q \in Seq(S), Distinct(q), NEW n \in 0..Len(q), NEW r, IsSuffix(S, r, q, n),
         NEW popped, ArePopped(popped, q, n)
  PROVE  /\ r \in Seq(S) /\ Distinct(r)
         /\ popped \subseteq Elems(q)
         /\ Elems(r) = Elems(q) \ popped
<1>1. /\ Len(q) \in Nat /\ n \in Nat /\ n <= Len(q) /\ n + 1 \in 1..(Len(q) + 1)
      /\ DOMAIN q = 1..Len(q) /\ \A i \in 1..Len(q) : q[i] \in S
  OBVIOUS
<1>2. r \in Seq(S) /\ Len(r) = Len(q) - n
  BY DEF IsSuffix
<1>3. \A i \in 1..(Len(q) - n) : r[i] = q[n + i]
  BY DEF IsSuffix
<1>4. DOMAIN r = 1..(Len(q) - n)
  BY <1>1, <1>2
<1>5. Distinct(r)
  <2> SUFFICES ASSUME NEW i \in 1..(Len(q) - n), NEW j \in 1..(Len(q) - n), r[i] = r[j] PROVE i = j
    BY <1>4 DEF Distinct
  <2>1. n + i \in 1..Len(q) /\ n + j \in 1..Len(q) /\ q[n + i] = q[n + j]
    BY <1>1, <1>3
  <2>2. n + i = n + j
    BY <1>1, <2>1 DEF Distinct
  <2> QED
    BY <1>1, <2>2
<1>6. popped \subseteq Elems(q)
  BY <1>1 DEF Elems, ArePopped
<1>7. ASSUME NEW x \in Elems(r) PROVE x \in Elems(q) /\ x \notin popped
  <2>1. PICK i \in 1..(Len(q) - n) : x = r[i]
    BY <1>4, <1>7 DEF Elems
  <2>2. n + i \in 1..Len(q) /\ x = q[n + i] /\ \A j \in 1..n : j # n + i /\ j \in 1..Len(q)
    BY <1>1, <1>3, <2>1
  <2> QED
    BY <1>1, <2>2 DEF Elems, Distinct, ArePopped
<1>8. ASSUME NEW x \in Elems(q), x \notin popped PROVE x \in Elems(r)
  <2>1. PICK i \in 1..Len(q) : x = q[i]
    BY <1>1, <1>8 DEF Elems
  <2>2. i \notin 1..n
    BY <1>8, <2>1 DEF ArePopped
  <2>3. i - n \in 1..(Len(q) - n) /\ n + (i - n) = i
    BY <1>1, <2>1, <2>2
  <2>4. x = r[i - n]
    BY <1>3, <2>1, <2>3
  <2> QED
    BY <1>4, <2>3, <2>4 DEF Elems
<1> QED
  BY <1>2, <1>5, <1>6, <1>7, <1>8
=============================================================================
