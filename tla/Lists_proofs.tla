---------------------------- MODULE Lists_proofs ----------------------------
(***************************************************************************)
(* What the operators of Lists return, for every sequence, and the least    *)
(* element that an argument by induction looks at.                          *)
(***************************************************************************)
EXTENDS Lists, SequenceTheorems, WellFoundedInduction, TLAPS

\* Linking an element in yields a sequence one longer, in which the new element
\* is at the chosen place and every old one where it was or one further back.
LEMMA LinkType ==
  ASSUME NEW S, NEW q \in Seq(S), NEW x \in S, NEW k \in 1..(Len(q) + 1)
  PROVE  /\ Link(q, k, x) \in Seq(S)
         /\ Len(Link(q, k, x)) = Len(q) + 1
         /\ \A i \in 1..(Len(q) + 1) :
              Link(q, k, x)[i] = IF i < k THEN q[i] ELSE IF i = k THEN x ELSE q[i - 1]
<1> DEFINE n == Len(q) + 1
           f == Link(q, k, x)
<1>1. Len(q) \in Nat /\ DOMAIN q = 1..Len(q) /\ \A i \in 1..Len(q) : q[i] \in S
  BY LenProperties, ElementOfSeq
<1>2. f = [i \in 1..n |-> IF i < k THEN q[i] ELSE IF i = k THEN x ELSE q[i - 1]]
  BY DEF Link
<1>3. f \in [1..n -> S]
  BY <1>1, <1>2
<1>4. f \in Seq(S)
  BY <1>1, <1>3, SeqDef
<1>5. Len(f) = n
  BY <1>1, <1>3, <1>4, LenProperties
<1> QED BY <1>2, <1>4, <1>5

\* The elements of the linked sequence are the old ones and the new one.
LEMMA LinkElements ==
  ASSUME NEW S, NEW q \in Seq(S), NEW x \in S, NEW k \in 1..(Len(q) + 1),
         NEW f, f = Link(q, k, x)
  PROVE  /\ \E i \in 1..Len(f) : f[i] = x
         /\ \A m \in 1..Len(q) : \E i \in 1..Len(f) : f[i] = q[m]
         /\ \A i \in 1..Len(f) : f[i] = x \/ \E m \in 1..Len(q) : f[i] = q[m]
<1>1. Len(q) \in Nat
  BY LenProperties
<1>2. /\ Len(f) = Len(q) + 1
      /\ \A i \in 1..(Len(q) + 1) : f[i] = IF i < k THEN q[i] ELSE IF i = k THEN x ELSE q[i - 1]
  BY LinkType, SMTT(30)
<1>3. \E i \in 1..Len(f) : f[i] = x
  <2>1. k \in 1..Len(f) /\ f[k] = x
    BY <1>1, <1>2
  <2> QED BY <2>1
<1>4. ASSUME NEW m \in 1..Len(q)  PROVE \E i \in 1..Len(f) : f[i] = q[m]
  <2>1. CASE m < k
    BY <1>1, <1>2, <2>1
  <2>2. CASE m >= k
    <3>1. m + 1 \in 1..Len(f) /\ f[m + 1] = q[m]
      BY <1>1, <1>2, <2>2
    <3> QED BY <3>1
  <2> QED BY <2>1, <2>2, <1>1
<1>5. ASSUME NEW i \in 1..Len(f), f[i] # x  PROVE \E m \in 1..Len(q) : f[i] = q[m]
  <2>1. CASE i < k
    BY <1>1, <1>2, <2>1
  <2>2. CASE i > k
    <3>1. i - 1 \in 1..Len(q) /\ f[i] = q[i - 1]
      BY <1>1, <1>2, <2>2
    <3> QED BY <3>1
  <2>3. i # k
    BY <1>1, <1>2, <1>5
  <2> QED BY <2>1, <2>2, <2>3, <1>1
<1> QED BY <1>3, <1>4, <1>5

\* Linking an element that is not there keeps all elements distinct.
LEMMA LinkDistinct ==
  ASSUME NEW S, NEW q \in Seq(S), NEW x \in S, NEW k \in 1..(Len(q) + 1),
         \A i, m \in 1..Len(q) : q[i] = q[m] => i = m,
         \A i \in 1..Len(q) : q[i] # x
  PROVE  \A i, m \in 1..Len(Link(q, k, x)) : Link(q, k, x)[i] = Link(q, k, x)[m] => i = m
<1>1. Len(q) \in Nat
  BY LenProperties
<1>2. /\ Len(Link(q, k, x)) = Len(q) + 1
      /\ \A i \in 1..(Len(q) + 1) :
           Link(q, k, x)[i] = IF i < k THEN q[i] ELSE IF i = k THEN x ELSE q[i - 1]
  BY LinkType
<1> DEFINE f == Link(q, k, x)
           old(i) == IF i < k THEN i ELSE i - 1
<1>3. ASSUME NEW i \in 1..Len(f), i # k
      PROVE  old(i) \in 1..Len(q) /\ f[i] = q[old(i)]
  BY <1>1, <1>2, <1>3
<1>4. f[k] = x
  BY <1>1, <1>2
<1>5. ASSUME NEW i \in 1..Len(f), NEW m \in 1..Len(f), f[i] = f[m]
      PROVE  i = m
  <2>1. CASE i = k /\ m = k
    BY <2>1
  <2>2. CASE i = k /\ m # k
    BY <2>2, <1>3, <1>4, <1>5
  <2>3. CASE i # k /\ m = k
    BY <2>3, <1>3, <1>4, <1>5
  <2>4. CASE i # k /\ m # k
    <3>1. old(i) = old(m)
      BY <2>4, <1>3, <1>5
    <3> QED BY <3>1, <2>4, <1>1, <1>2
  <2> QED BY <2>1, <2>2, <2>3, <2>4
<1> QED BY <1>5

\* The same facts one at a time, of the linked sequence by its name.
LEMMA LinkHas ==
  ASSUME NEW S, NEW q \in Seq(S), NEW x \in S, NEW k \in 1..(Len(q) + 1),
         NEW f, f = Link(q, k, x)
  PROVE  \E i \in 1..Len(f) : f[i] = x
BY LinkElements

\* Where each element stands.
LEMMA LinkPlaces ==
  ASSUME NEW S, NEW q \in Seq(S), NEW x \in S, NEW k \in 1..(Len(q) + 1),
         NEW f, f = Link(q, k, x)
  PROVE  /\ Len(f) = Len(q) + 1
         /\ \A i \in 1..(Len(q) + 1) : f[i] = IF i < k THEN q[i] ELSE IF i = k THEN x ELSE q[i - 1]
BY LinkType, SMTT(30)

\* No old element is lost.
LEMMA LinkKeeps ==
  ASSUME NEW S, NEW q \in Seq(S), NEW x \in S, NEW k \in 1..(Len(q) + 1),
         NEW f, f = Link(q, k, x)
  PROVE  \A m \in 1..Len(q) : \E i \in 1..Len(f) : f[i] = q[m]
BY LinkElements

\* Nothing else comes in.
LEMMA LinkOnly ==
  ASSUME NEW S, NEW q \in Seq(S), NEW x \in S, NEW k \in 1..(Len(q) + 1),
         NEW f, f = Link(q, k, x)
  PROVE  \A i \in 1..Len(f) : f[i] = x \/ \E m \in 1..Len(q) : f[i] = q[m]
BY LinkElements

\* No element is there twice.
LEMMA LinkInjective ==
  ASSUME NEW S, NEW q \in Seq(S), NEW x \in S, NEW k \in 1..(Len(q) + 1),
         NEW f, f = Link(q, k, x),
         \A i, m \in 1..Len(q) : q[i] = q[m] => i = m,
         \A i \in 1..Len(q) : q[i] # x
  PROVE  \A i, m \in 1..Len(f) : f[i] = f[m] => i = m
BY LinkDistinct

\* Unlinking an element yields a sequence one shorter.
LEMMA UnlinkType ==
  ASSUME NEW S, NEW q \in Seq(S), NEW k \in 1..Len(q)
  PROVE  /\ Unlink(q, k) \in Seq(S)
         /\ Len(Unlink(q, k)) = Len(q) - 1
         /\ \A i \in 1..(Len(q) - 1) : Unlink(q, k)[i] = IF i < k THEN q[i] ELSE q[i + 1]
<1> DEFINE n == Len(q) - 1
           f == Unlink(q, k)
<1>1. Len(q) \in Nat /\ \A i \in 1..Len(q) : q[i] \in S
  BY LenProperties, ElementOfSeq
<1>2. f = [i \in 1..n |-> IF i < k THEN q[i] ELSE q[i + 1]]
  BY DEF Unlink
<1>3. f \in [1..n -> S] /\ n \in Nat
  BY <1>1, <1>2
<1>4. f \in Seq(S)
  BY <1>3, SeqDef
<1>5. Len(f) = n
  BY <1>3, <1>4, LenProperties
<1> QED BY <1>2, <1>4, <1>5

\* Lists as sets: what is on a list, and that nothing is on it twice.
Listed(q) == {q[i] : i \in 1..Len(q)}
NoneTwice(q) == \A i, k \in 1..Len(q) : q[i] = q[k] => i = k

\* Linking in front what is not on the list.
LEMMA LinkListed ==
  ASSUME NEW S, NEW q \in Seq(S), NEW x \in S, x \notin Listed(q), NoneTwice(q)
  PROVE  /\ Link(q, 1, x) \in Seq(S) /\ NoneTwice(Link(q, 1, x))
         /\ Listed(Link(q, 1, x)) = Listed(q) \union {x}
<1> DEFINE f == Link(q, 1, x)
<1>1. Len(q) \in Nat
  BY LenProperties
<1>2. 1 \in 1..(Len(q) + 1)
  BY <1>1
<1>3. f \in Seq(S) /\ Len(f) = Len(q) + 1
      /\ \A i \in 1..(Len(q) + 1) : f[i] = IF i < 1 THEN q[i] ELSE IF i = 1 THEN x ELSE q[i - 1]
  BY <1>2, LinkType
<1> HIDE DEF f
<1>4. f[1] = x /\ (\A i \in 2..Len(f) : f[i] = q[i - 1]) /\ (\A m \in 1..Len(q) : f[m + 1] = q[m])
  BY <1>1, <1>3
<1>5. ASSUME NEW i \in 1..Len(f), NEW k \in 1..Len(f), f[i] = f[k]  PROVE i = k
  <2>1. \A m \in 1..Len(q) : q[m] # x
    BY DEF Listed
  <2>2. \A m \in 2..Len(f) : m - 1 \in 1..Len(q) /\ f[m] # x
    BY <1>1, <1>3, <1>4, <2>1
  <2>3. CASE i = 1 \/ k = 1
    BY <1>1, <1>3, <1>4, <1>5, <2>2, <2>3
  <2>4. CASE i # 1 /\ k # 1
    <3>1. i - 1 \in 1..Len(q) /\ k - 1 \in 1..Len(q) /\ q[i - 1] = q[k - 1]
      BY <1>1, <1>3, <1>4, <1>5, <2>4
    <3>2. i - 1 = k - 1
      BY <3>1 DEF NoneTwice
    <3> QED BY <1>1, <1>3, <3>2
  <2> QED BY <2>3, <2>4
<1>6. Listed(f) \subseteq Listed(q) \union {x}
  BY <1>1, <1>3, <1>4 DEF Listed
<1>7. ASSUME NEW m \in 1..Len(q)  PROVE q[m] \in Listed(f)
  <2>1. m + 1 \in 1..Len(f)
    BY <1>1, <1>3
  <2> QED BY <1>4, <2>1 DEF Listed
<1>8. x \in Listed(f)
  BY <1>1, <1>3, <1>4 DEF Listed
<1>9. Listed(f) = Listed(q) \union {x}
  BY <1>6, <1>7, <1>8 DEF Listed
<1>10. NoneTwice(f)
  BY <1>5 DEF NoneTwice
<1> QED BY <1>3, <1>9, <1>10 DEF f

\* Unlinking one of a list.
LEMMA UnlinkListed ==
  ASSUME NEW S, NEW q \in Seq(S), NEW k \in 1..Len(q), NoneTwice(q)
  PROVE  /\ Unlink(q, k) \in Seq(S) /\ NoneTwice(Unlink(q, k))
         /\ Listed(Unlink(q, k)) = Listed(q) \ {q[k]}
<1> DEFINE f == Unlink(q, k)
<1>1. Len(q) \in Nat
  BY LenProperties
<1>2. f \in Seq(S) /\ Len(f) = Len(q) - 1
      /\ \A i \in 1..(Len(q) - 1) : f[i] = IF i < k THEN q[i] ELSE q[i + 1]
  BY UnlinkType
<1> HIDE DEF f
<1>3. ASSUME NEW i \in 1..Len(f), NEW m \in 1..Len(f), f[i] = f[m]  PROVE i = m
  <2> DEFINE at(n) == IF n < k THEN n ELSE n + 1
  <2>1. at(i) \in 1..Len(q) /\ at(m) \in 1..Len(q) /\ f[i] = q[at(i)] /\ f[m] = q[at(m)]
    BY <1>1, <1>2
  <2>2. at(i) = at(m)
    <3> HIDE DEF at
    <3> QED BY <1>3, <2>1 DEF NoneTwice
  <2> QED BY <1>1, <1>2, <2>2
<1>4. Listed(f) \subseteq Listed(q) \ {q[k]}
  BY <1>1, <1>2 DEF Listed, NoneTwice
<1>5. ASSUME NEW m \in 1..Len(q), m # k  PROVE q[m] \in Listed(f)
  <2>1. CASE m < k
    <3>1. m \in 1..Len(f) /\ f[m] = q[m]
      BY <1>1, <1>2, <2>1
    <3> QED BY <3>1 DEF Listed
  <2>2. CASE m > k
    <3>1. m - 1 \in 1..Len(f) /\ f[m - 1] = q[m]
      BY <1>1, <1>2, <2>2
    <3> QED BY <3>1 DEF Listed
  <2> QED BY <1>1, <1>5, <2>1, <2>2
<1>6. Listed(f) = Listed(q) \ {q[k]}
  BY <1>4, <1>5 DEF Listed
<1>7. NoneTwice(f)
  BY <1>3 DEF NoneTwice
<1> QED BY <1>2, <1>6, <1>7 DEF f

\* Taking the first of a list.
LEMMA TailListed ==
  ASSUME NEW S, NEW q \in Seq(S), q # <<>>, NoneTwice(q)
  PROVE  /\ Tail(q) \in Seq(S) /\ NoneTwice(Tail(q)) /\ Head(q) \in Listed(q)
         /\ Listed(Tail(q)) = Listed(q) \ {Head(q)}
<1> DEFINE f == Tail(q)
<1>1. Len(q) \in Nat \ {0} /\ Head(q) = q[1]
  BY EmptySeq, LenProperties
<1>2. f \in Seq(S) /\ Len(f) = Len(q) - 1 /\ \A i \in 1..(Len(q) - 1) : f[i] = q[i + 1]
  BY HeadTailProperties
<1> HIDE DEF f
<1>3. NoneTwice(f)
  BY <1>1, <1>2 DEF NoneTwice
<1>4. Listed(f) \subseteq Listed(q) \ {q[1]}
  BY <1>1, <1>2 DEF Listed, NoneTwice
<1>5. ASSUME NEW m \in 1..Len(q), m # 1  PROVE q[m] \in Listed(f)
  <2>1. m - 1 \in 1..Len(f) /\ f[m - 1] = q[m]
    BY <1>1, <1>2, <1>5
  <2> QED BY <2>1 DEF Listed
<1>6. q[1] \in Listed(q)
  BY <1>1 DEF Listed
<1>7. Listed(f) = Listed(q) \ {q[1]}
  BY <1>4, <1>5 DEF Listed
<1> QED BY <1>1, <1>2, <1>3, <1>6, <1>7 DEF f

\* Every nonempty set of natural numbers has a least one: proofs by induction
\* look at the least counterexample.
LEMMA Smallest ==
  ASSUME NEW T, T \subseteq Nat, T # {}
  PROVE  \E x \in T : \A y \in T : x <= y
<1>1. PICK R : R = {ss \in Nat \X Nat : ss[1] < ss[2]}
  OBVIOUS
<1>2. IsWellFoundedOn(R, Nat)
  BY <1>1, NatLessThanWellFounded DEF OpToRel
<1>3. PICK x \in T : \A y \in T : ~ (<<y, x>> \in R)
  BY <1>2, WFMin
<1>4. ASSUME NEW y \in T  PROVE x <= y
  <2>1. x \in Nat /\ y \in Nat
    OBVIOUS
  <2>2. ~ (<<y, x>> \in R)
    BY <1>3
  <2>3. ~ (y < x)
    BY <1>1, <2>1, <2>2
  <2> QED BY <2>1, <2>3
<1> QED BY <1>4
=============================================================================
