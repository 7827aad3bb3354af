------------------------- MODULE ReceivePathProofs --------------------------
(***************************************************************************)
(* Proofs about the way of a packet into the AC: Fragments, for every path *)
(* MTU, every length of a message, every number of messages and of         *)
(* identifiers, and ACDispatcher, for every number of slots, WTPs and      *)
(* sockets.                                                                *)
(*                                                                         *)
(* Fragments.  The list holds fragments of one message, each once, and not *)
(* all of them (ListInv).  That a message is returned when, and only when, *)
(* the sum of the sizes reaches the size that the last fragment announces  *)
(* is a counting argument: the fragments of a message cut its bytes into   *)
(* pieces, CurrentSize counts the bytes of the pieces in the list, and so  *)
(* it is the length of the message when no piece is missing.               *)
(*                                                                         *)
(* ACDispatcher.  SlotOwnership is inductive with the types.               *)
(* PacketsOfOneWTP also needs that the slot the main thread works on keeps *)
(* the sender's address, which no other thread writes.  NoGhostSessions    *)
(* follows the sessions in and out of the set Counted.                     *)
(***************************************************************************)
EXTENDS ACDispatcher, Fragments, SequenceTheorems, FiniteSetTheorems,
        WellFoundedInduction, TLAPS

(* A set of natural numbers has a least element: what the proofs about loops use in the
   place of an induction. *)
LEMMA LeastNumber ==
  ASSUME NEW S \in SUBSET Nat, S # {}
  PROVE  \E n \in S : \A m \in S : n <= m
<1> DEFINE T == {1 .. n : n \in S}
<1>1. T \subseteq FiniteSubsetsOf(Nat) /\ T # {}
  <2>1. \A n \in S : IsFiniteSet(1 .. n) /\ 1 .. n \subseteq Nat
    BY FS_Interval
  <2> QED BY <2>1 DEF FiniteSubsetsOf
<1>2. IsWellFoundedOn(StrictSubsetOrdering(Nat), FiniteSubsetsOf(Nat))
  BY FS_StrictSubsetOrderingWellFounded
<1>3. PICK X \in T : \A Y \in T : ~ (<<Y, X>> \in StrictSubsetOrdering(Nat))
  <2> HIDE DEF T
  <2> QED BY <1>1, <1>2, WFMin
<1>4. PICK n \in S : X = 1 .. n
  OBVIOUS
<1>5. ASSUME NEW m \in S, m < n PROVE FALSE
  <2>1. 1 .. m \in T /\ 1 .. m \subseteq 1 .. n /\ n \in 1 .. n /\ n \notin 1 .. m
    BY <1>5
  <2>2. <<1 .. m, 1 .. n>> \in StrictSubsetOrdering(Nat)
    BY <2>1 DEF StrictSubsetOrdering
  <2> QED BY <1>3, <1>4, <2>1, <2>2
<1> QED BY <1>5

-----------------------------------------------------------------------------
(* Arithmetic of groups of 8 bytes. *)
LEMMA Quotient ==
  ASSUME NEW x \in Nat, NEW a \in Nat \ {0}
  PROVE  x \div a \in Nat /\ (x \div a) * a <= x /\ x < (x \div a) * a + a
OBVIOUS

LEMMA RoundedUp ==
  ASSUME NEW x \in Nat \ {0}, NEW a \in Nat \ {0}, NEW n, n = (x + a - 1) \div a
  PROVE  n \in Nat \ {0} /\ (n - 1) * a < x /\ x <= n * a
<1>1. x + a - 1 \in Nat
  OBVIOUS
<1>2. n \in Nat /\ n * a <= x + a - 1 /\ x + a - 1 < n * a + a
  BY <1>1, Quotient
<1>3. (n - 1) * a = n * a - a
  BY <1>2
<1>4. n # 0
  BY <1>2
<1> QED BY <1>2, <1>3, <1>4

LEMMA Eighth ==
  ASSUME NEW i \in Int, NEW w \in Int
  PROVE  (i * (w * 8)) \div 8 = i * w
<1>1. i * (w * 8) = (i * w) * 8
  OBVIOUS
<1>2. \A x \in Int : (x * 8) \div 8 = x
  OBVIOUS
<1> QED BY <1>1, <1>2

LEMMA Products ==
  ASSUME NEW i \in Int, NEW j \in Int, NEW a \in Nat \ {0}
  PROVE  /\ i * a \in Int /\ j * a \in Int
         /\ i <= j => i * a <= j * a
         /\ i < j => i * a + a <= j * a
         /\ i * a = j * a => i = j
<1>1. i <= j => i * a <= j * a
  OBVIOUS
<1>2. i < j => (i + 1) * a <= j * a
  OBVIOUS
<1>3. (i + 1) * a = i * a + a
  OBVIOUS
<1>4. j < i => (j + 1) * a <= i * a
  OBVIOUS
<1>5. (j + 1) * a = j * a + a
  OBVIOUS
<1>6. i * a \in Int /\ j * a \in Int
  OBVIOUS
<1> HIDE DEF *
<1> QED BY <1>1, <1>2, <1>3, <1>4, <1>5, <1>6

-----------------------------------------------------------------------------
(* The fragments of a message. *)
Words == PMTU \div 8

TypeInv == FragmentsTypeOK /\ fragID <= Len(sent)

Num(k) == FragmentsNum(sent[k].length)

LEMMA Number ==
  ASSUME PMTU \in Int, NEW length \in Nat \ {0}
  PROVE  /\ FragmentsNum(length) \in Nat \ {0}
         /\ PMTU < 8 => FragmentsNum(length) = 1
         /\ PMTU >= 8 => /\ Words \in Nat \ {0} /\ Aligned = Words * 8
                         /\ Aligned \in Nat \ {0}
                         /\ (FragmentsNum(length) - 1) * Aligned < length
                         /\ length <= FragmentsNum(length) * Aligned
<1>1. CASE PMTU < 8
  BY <1>1 DEF FragmentsNum
<1>2. CASE PMTU >= 8
  <2>1. Words \in Nat \ {0} /\ Aligned = Words * 8 /\ Aligned \in Nat \ {0}
    BY <1>2 DEF Words, Aligned
  <2> DEFINE n == FragmentsNum(length)
  <2>2. n = (length + Aligned - 1) \div Aligned
    BY <1>2 DEF FragmentsNum
  <2> HIDE DEF n
  <2>3. n \in Nat \ {0} /\ (n - 1) * Aligned < length /\ length <= n * Aligned
    BY <2>1, <2>2, RoundedUp
  <2>4. ~ (PMTU < 8)
    BY <1>2
  <2> QED BY <2>1, <2>3, <2>4 DEF n
<1> QED BY <1>1, <1>2

LEMMA SentType ==
  ASSUME TypeInv, NEW k \in DOMAIN sent
  PROVE  /\ PMTU \in Int /\ k \in Nat \ {0} /\ k <= MaxMessages
         /\ sent[k].length \in Nat \ {0} /\ sent[k].fragID \in Nat
<1>1. k \in 1 .. Len(sent) /\ Len(sent) \in Nat /\ sent[k] \in [length : Lengths, fragID : Nat]
  BY ElementOfSeq, LenProperties DEF TypeInv, FragmentsTypeOK
<1>2. PMTU \in PMTUs /\ Len(sent) <= MaxMessages
  BY DEF TypeInv, FragmentsTypeOK
<1>3. sent[k].length \in Lengths /\ sent[k].fragID \in Nat
  BY <1>1
<1>4. PMTU \in Int /\ sent[k].length \in Nat \ {0} /\ MaxMessages \in Nat
  BY <1>2, <1>3, FragmentsAssumption
<1>5. k \in Nat \ {0} /\ k <= MaxMessages
  <2>1. \A n \in Nat : n <= MaxMessages => \A i \in 1 .. n : i \in Nat \ {0} /\ i <= MaxMessages
    BY <1>4
  <2> QED BY <1>1, <1>2, <2>1
<1> QED BY <1>3, <1>4, <1>5

LEMMA Assembled ==
  ASSUME TypeInv, NEW k \in DOMAIN sent
  PROVE  /\ Num(k) \in Nat \ {0}
         /\ CWAssembleMessage(k) \in Seq(Fragment)
         /\ Len(CWAssembleMessage(k)) = Num(k)
         /\ CWAssembleMessage(k) \in [1 .. Num(k) -> Fragment]
         /\ \A i \in 1 .. Num(k) :
              LET f == CWAssembleMessage(k)[i]
              IN /\ f.msg = k /\ f.isFragment = (Num(k) > 1)
                 /\ f.fragmentID = sent[k].fragID % FragmentIDs
                 /\ f.last = (Num(k) > 1 /\ i = Num(k))
                 /\ Num(k) > 1 =>
                      /\ f.fragmentOffset = (i - 1) * Words
                      /\ f.fragmentOffset * 8 = (i - 1) * Aligned
                      /\ i < Num(k) => f.dataLen = Aligned
                      /\ i = Num(k) => f.dataLen = sent[k].length - (i - 1) * Aligned
<1> DEFINE m == CWAssembleMessage(k)
           n == Num(k)
           L == sent[k].length
<1>1. /\ PMTU \in Int /\ k \in 1 .. MaxMessages
      /\ L \in Nat \ {0} /\ sent[k].fragID \in Nat
  BY SentType, FragmentsAssumption
<1>2. n \in Nat \ {0}
  BY <1>1, Number DEF Num
<1>a. ASSUME n > 1
      PROVE  /\ Words \in Nat \ {0} /\ Aligned = Words * 8 /\ Aligned \in Nat \ {0}
             /\ (n - 1) * Aligned < L
  <2>1. PMTU >= 8
    BY <1>1, <1>a, Number DEF Num
  <2> QED BY <1>1, <2>1, Number DEF Num
<1>3. m = [i \in 1 .. n |->
        [msg |-> k, isFragment |-> n > 1, fragmentID |-> sent[k].fragID % FragmentIDs,
         fragmentOffset |-> ((i - 1) * Aligned) \div 8,
         last |-> n > 1 /\ i = n,
         dataLen |-> IF i < n THEN Aligned ELSE L - (n - 1) * Aligned]]
  BY DEF CWAssembleMessage, Num
<1>4. sent[k].fragID % FragmentIDs \in 0 .. FragmentIDs - 1
  BY <1>1, FragmentsAssumption
<1> HIDE DEF m, n, L
<1>5. ASSUME NEW i \in 1 .. n, n > 1
      PROVE  /\ ((i - 1) * Aligned) \div 8 = (i - 1) * Words
             /\ ((i - 1) * Words) * 8 = (i - 1) * Aligned
             /\ (i - 1) * Words \in Nat
             /\ L - (n - 1) * Aligned \in Nat \ {0}
  <2>1. i - 1 \in Nat /\ n - 1 \in Nat
    BY <1>2
  <2>2. /\ Words \in Nat \ {0} /\ Aligned = Words * 8 /\ Aligned \in Nat
        /\ (n - 1) * Aligned < L
    BY <1>5, <1>a
  <2>3. (i - 1) * Words \in Nat
    BY <2>1, <2>2
  <2>4. ((i - 1) * Aligned) \div 8 = (i - 1) * Words
    BY <2>1, <2>2, Eighth
  <2>5. ((i - 1) * Words) * 8 = (i - 1) * Aligned
    BY <2>1, <2>2
  <2>6. (n - 1) * Aligned \in Nat
    BY <2>1, <2>2
  <2>7. L - (n - 1) * Aligned \in Nat \ {0}
    BY <1>1, <2>2, <2>6
  <2> QED BY <2>3, <2>4, <2>5, <2>7
<1>6. ASSUME NEW i \in 1 .. n, ~ (n > 1)
      PROVE  /\ i = 1 /\ n = 1 /\ ((i - 1) * Aligned) \div 8 = 0
             /\ L - (n - 1) * Aligned = L
  <2>1. i = 1 /\ n = 1
    BY <1>2, <1>6
  <2>2. Aligned \in Int
    BY <1>1 DEF Aligned
  <2> QED BY <1>1, <2>1, <2>2
<1>7. ASSUME NEW i \in 1 .. n
      PROVE  /\ ((i - 1) * Aligned) \div 8 \in Nat
             /\ (IF i < n THEN Aligned ELSE L - (n - 1) * Aligned) \in Nat \ {0}
  <2>1. CASE n > 1
    <3>1. Aligned \in Nat \ {0}
      BY <1>a, <2>1
    <3>2. /\ ((i - 1) * Aligned) \div 8 \in Nat
          /\ L - (n - 1) * Aligned \in Nat \ {0}
      BY <1>5, <2>1
    <3> QED BY <3>1, <3>2
  <2>2. CASE ~ (n > 1)
    BY <1>1, <1>6, <2>2
  <2> QED BY <2>1, <2>2
<1>8. \A i \in 1 .. n : m[i] \in Fragment
  <2>1. ASSUME NEW i \in 1 .. n, NEW o \in Nat, NEW d \in Nat \ {0}
        PROVE  [msg |-> k, isFragment |-> n > 1, fragmentID |-> sent[k].fragID % FragmentIDs,
                fragmentOffset |-> o, last |-> n > 1 /\ i = n, dataLen |-> d] \in Fragment
    BY <1>1, <1>4 DEF Fragment
  <2> QED BY <1>3, <1>7, <2>1
<1>9. m \in [1 .. n -> Fragment]
  <2>1. m = [i \in 1 .. n |-> m[i]]
    BY <1>3
  <2> QED BY <1>8, <2>1
<1>10. m \in Seq(Fragment) /\ Len(m) = n
  BY <1>2, <1>9, LenProperties
<1>11. ASSUME NEW i \in 1 .. n
       PROVE  /\ m[i].msg = k /\ (m[i].isFragment = (n > 1))
              /\ m[i].fragmentID = sent[k].fragID % FragmentIDs
              /\ m[i].last = (n > 1 /\ i = n)
              /\ n > 1 => /\ m[i].fragmentOffset = (i - 1) * Words
                          /\ m[i].fragmentOffset * 8 = (i - 1) * Aligned
                          /\ i < n => m[i].dataLen = Aligned
                          /\ i = n => m[i].dataLen = L - (i - 1) * Aligned
  BY <1>3, <1>5
<1> QED BY <1>2, <1>9, <1>10, <1>11 DEF m, n, L

-----------------------------------------------------------------------------
(* The bytes of a fragment: their numbers in the message, from 1. *)
BytesOf(f) == f.fragmentOffset * 8 + 1 .. f.fragmentOffset * 8 + f.dataLen

(* A list whose elements are fragments of the k-th message, each once. *)
PartOf(l, k) ==
  /\ l \in Seq(Fragment)
  /\ \A i \in 1 .. Len(l) : l[i] \in ToSet(CWAssembleMessage(k))
  /\ \A i, j \in 1 .. Len(l) : l[i] = l[j] => i = j

Complete(l, k) == ToSet(CWAssembleMessage(k)) \subseteq ToSet(l)

(* The fragments of a message cut its bytes into pieces. *)
LEMMA BytesOfFragments ==
  ASSUME TypeInv, NEW k \in DOMAIN sent, Num(k) > 1
  PROVE  /\ \A i \in 1 .. Num(k) :
              LET f == CWAssembleMessage(k)[i]
              IN /\ BytesOf(f) \subseteq 1 .. sent[k].length
                 /\ BytesOf(f) # {}
                 /\ IsFiniteSet(BytesOf(f)) /\ Cardinality(BytesOf(f)) = f.dataLen
         /\ \A i, j \in 1 .. Num(k) :
              i # j => BytesOf(CWAssembleMessage(k)[i]) \cap BytesOf(CWAssembleMessage(k)[j]) = {}
         /\ \A x \in 1 .. sent[k].length :
              \E i \in 1 .. Num(k) : x \in BytesOf(CWAssembleMessage(k)[i])
<1> DEFINE m == CWAssembleMessage(k)
           n == Num(k)
           L == sent[k].length
           a == Aligned
<1>1. PMTU \in Int /\ L \in Nat \ {0} /\ n \in Nat \ {0}
  BY SentType, Assembled
<1>2. PMTU >= 8
  BY <1>1, Number DEF Num
<1>3. a \in Nat \ {0} /\ (n - 1) * a < L /\ L <= n * a
  BY <1>1, <1>2, Number DEF Num
<1>4. ASSUME NEW i \in 1 .. n
      PROVE  /\ m[i].fragmentOffset * 8 = (i - 1) * a
             /\ i < n => m[i].dataLen = a
             /\ i = n => m[i].dataLen = L - (i - 1) * a
  BY Assembled
<1> HIDE DEF m, n, L, a
<1>5. ASSUME NEW i \in 1 .. n
      PROVE  /\ (i - 1) * a \in Nat /\ (i - 1) * a < L
             /\ i < n => (i - 1) * a + a < L
             /\ m[i].dataLen \in Nat \ {0}
             /\ m[i].dataLen <= a
             /\ (i - 1) * a + m[i].dataLen <= L
             /\ BytesOf(m[i]) = (i - 1) * a + 1 .. (i - 1) * a + m[i].dataLen
  <2>1. i - 1 \in Nat /\ n - 1 \in Nat /\ i - 1 <= n - 1
    BY <1>1
  <2>2. /\ (i - 1) * a \in Int /\ (n - 1) * a \in Int
        /\ (i - 1) * a <= (n - 1) * a
        /\ i - 1 < n - 1 => (i - 1) * a + a <= (n - 1) * a
    BY <2>1, <1>3, Products
  <2>3. (i - 1) * a \in Nat
    BY <2>1, <1>3
  <2>4. i < n => i - 1 < n - 1
    BY <1>1
  <2>5. (i - 1) * a < L /\ (i < n => (i - 1) * a + a < L)
    BY <2>2, <2>4, <1>1, <1>3
  <2>6. n * a = (n - 1) * a + a
    BY <1>1, <1>3
  <2>7. CASE i < n
    BY <2>3, <2>5, <2>7, <1>1, <1>3, <1>4 DEF BytesOf
  <2>8. CASE i = n
    <3>1. m[i].dataLen = L - (i - 1) * a
      BY <2>8, <1>4
    <3>2. L <= (i - 1) * a + a
      BY <2>6, <2>8, <1>3
    <3>3. m[i].dataLen \in Nat \ {0} /\ m[i].dataLen <= a /\ (i - 1) * a + m[i].dataLen <= L
      BY <3>1, <3>2, <2>3, <2>5, <1>1, <1>3
    <3> QED BY <3>3, <2>3, <2>5, <2>8, <1>4 DEF BytesOf
  <2> QED BY <2>7, <2>8, <1>1
<1>6. ASSUME NEW i \in 1 .. n
      PROVE  /\ BytesOf(m[i]) \subseteq 1 .. L /\ BytesOf(m[i]) # {}
             /\ IsFiniteSet(BytesOf(m[i])) /\ Cardinality(BytesOf(m[i])) = m[i].dataLen
  <2> DEFINE o == (i - 1) * a
             d == m[i].dataLen
  <2>1. o \in Nat /\ d \in Nat \ {0} /\ o + d <= L /\ BytesOf(m[i]) = o + 1 .. o + d
    BY <1>5
  <2> HIDE DEF o, d
  <2>2. BytesOf(m[i]) \subseteq 1 .. L /\ o + 1 \in BytesOf(m[i])
    BY <2>1, <1>1
  <2>3. IsFiniteSet(o + 1 .. o + d) /\ Cardinality(o + 1 .. o + d) = d
    BY <2>1, FS_Interval
  <2> QED BY <2>1, <2>2, <2>3 DEF d
<1>7. ASSUME NEW i \in 1 .. n, NEW j \in 1 .. n, i < j
      PROVE  BytesOf(m[i]) \cap BytesOf(m[j]) = {}
  <2>1. i - 1 \in Int /\ j - 1 \in Int /\ i - 1 < j - 1
    BY <1>7, <1>1
  <2>2. (i - 1) * a \in Int /\ (j - 1) * a \in Int /\ (i - 1) * a + a <= (j - 1) * a
    BY <2>1, <1>3, Products
  <2>3. /\ m[i].dataLen \in Nat /\ m[i].dataLen <= a /\ m[j].dataLen \in Nat
        /\ BytesOf(m[i]) = (i - 1) * a + 1 .. (i - 1) * a + m[i].dataLen
        /\ BytesOf(m[j]) = (j - 1) * a + 1 .. (j - 1) * a + m[j].dataLen
    BY <1>5
  <2>4. \A o, p, d, e, b \in Int :
          d <= b /\ o + b <= p => (o + 1 .. o + d) \cap (p + 1 .. p + e) = {}
    OBVIOUS
  <2>5. a \in Int /\ m[i].dataLen \in Int /\ m[j].dataLen \in Int
    BY <2>3, <1>3
  <2>6. ((i - 1) * a + 1 .. (i - 1) * a + m[i].dataLen)
          \cap ((j - 1) * a + 1 .. (j - 1) * a + m[j].dataLen) = {}
    BY <2>2, <2>3, <2>4, <2>5
  <2> QED BY <2>3, <2>6
<1>8. ASSUME NEW i \in 1 .. n, NEW j \in 1 .. n, i # j
      PROVE  BytesOf(m[i]) \cap BytesOf(m[j]) = {}
  <2>1. i < j \/ j < i
    BY <1>8, <1>1
  <2> QED BY <2>1, <1>7
<1>9. ASSUME NEW x \in 1 .. L
      PROVE  \E i \in 1 .. n : x \in BytesOf(m[i])
  <2> DEFINE q == (x - 1) \div a
  <2>1. x - 1 \in Nat
    BY <1>1
  <2>2. q \in Nat /\ q * a <= x - 1 /\ x - 1 < q * a + a
    BY <2>1, <1>3, Quotient
  <2> HIDE DEF q
  <2>3. q < n
    <3>1. n <= q => n * a <= q * a
      BY <2>2, <1>1, <1>3, Products
    <3>2. n * a \in Int /\ q * a \in Int
      BY <2>2, <1>1, <1>3
    <3> QED BY <3>1, <3>2, <2>2, <1>1, <1>3
  <2>4. q + 1 \in 1 .. n /\ (q + 1) - 1 = q
    BY <2>2, <2>3, <1>1
  <2>5. /\ BytesOf(m[q + 1]) = q * a + 1 .. q * a + m[q + 1].dataLen
        /\ q + 1 < n => m[q + 1].dataLen = a
        /\ q + 1 = n => m[q + 1].dataLen = L - q * a
    BY <2>4, <1>4, <1>5
  <2>6. q * a \in Int
    BY <2>2, <1>3
  <2>7. q + 1 < n \/ q + 1 = n
    BY <2>4, <1>1
  <2>8. x \in BytesOf(m[q + 1])
    BY <2>2, <2>5, <2>6, <2>7, <1>1, <1>3
  <2> QED BY <2>4, <2>8
<1> QED BY <1>6, <1>8, <1>9 DEF m, n, L

-----------------------------------------------------------------------------
(* CurrentSize is the sum that a loop over the list computes. *)
LEMMA SizeOfLoop ==
  ASSUME NEW l \in Seq(Fragment), NEW size \in [0 .. Len(l) -> Nat], size[0] = 0,
         \A i \in 1 .. Len(l) : size[i] = size[i - 1] + l[i].dataLen
  PROVE  CurrentSize(l) = size[Len(l)]
<1> DEFINE Loop(g) == g = [i \in 0 .. Len(l) |-> IF i = 0 THEN 0 ELSE g[i - 1] + l[i].dataLen]
           f == CHOOSE g : Loop(g)
<1>1. Len(l) \in Nat
  BY LenProperties
<1>2. CurrentSize(l) = f[Len(l)]
  BY DEF CurrentSize
<1>3. Loop(size)
  <2>1. size = [i \in 0 .. Len(l) |-> size[i]]
    OBVIOUS
  <2>2. \A i \in 0 .. Len(l) : i = 0 \/ i \in 1 .. Len(l)
    BY <1>1
  <2>3. \A i \in 0 .. Len(l) : size[i] = IF i = 0 THEN 0 ELSE size[i - 1] + l[i].dataLen
    BY <2>2
  <2> QED BY <2>1, <2>3
<1>4. Loop(f)
  <2> HIDE DEF Loop
  <2> QED BY <1>3
<1> HIDE DEF f
<1>5. /\ f[0] = 0
      /\ \A i \in 1 .. Len(l) : f[i] = f[i - 1] + l[i].dataLen
  <2>1. 0 \in 0 .. Len(l) /\ \A i \in 1 .. Len(l) : i \in 0 .. Len(l) /\ i # 0
    BY <1>1
  <2>2. \A i \in 0 .. Len(l) : f[i] = IF i = 0 THEN 0 ELSE f[i - 1] + l[i].dataLen
    BY <1>4
  <2> HIDE DEF Loop
  <2> QED BY <2>1, <2>2
<1> DEFINE S == {i \in 0 .. Len(l) : f[i] # size[i]}
<1>6. CASE S # {}
  <2>1. S \subseteq Nat
    BY <1>1
  <2>2. PICK i \in S : \A j \in S : i <= j
    <3> HIDE DEF S
    <3> QED BY <1>6, <2>1, LeastNumber
  <2>3. i \in 0 .. Len(l) /\ i # 0 /\ f[i] # size[i]
    BY <1>5
  <2>4. i \in 1 .. Len(l) /\ i - 1 \in 0 .. Len(l) /\ ~ (i <= i - 1)
    BY <2>3, <1>1
  <2>5. f[i - 1] = size[i - 1]
    BY <2>2, <2>4
  <2> QED BY <2>3, <2>4, <2>5, <1>5
<1>7. CASE S = {}
  <2>1. Len(l) \in 0 .. Len(l)
    BY <1>1
  <2> QED BY <2>1, <1>2, <1>7
<1> QED BY <1>6, <1>7

-----------------------------------------------------------------------------
(* CurrentSize counts the bytes that the list holds of the message. *)
LEMMA SizeCountsBytes ==
  ASSUME TypeInv, NEW k \in DOMAIN sent, Num(k) > 1, NEW l, PartOf(l, k)
  PROVE  LET bytes == UNION {BytesOf(l[i]) : i \in 1 .. Len(l)}
         IN /\ bytes \subseteq 1 .. sent[k].length
            /\ CurrentSize(l) = Cardinality(bytes)
<1> DEFINE m == CWAssembleMessage(k)
           L == sent[k].length
           Upto(j) == UNION {BytesOf(l[i]) : i \in 1 .. j}
           size == [j \in 0 .. Len(l) |-> Cardinality(Upto(j))]
<1>1. l \in Seq(Fragment) /\ Len(l) \in Nat /\ \A i \in 1 .. Len(l) : l[i] \in ToSet(m)
  BY LenProperties DEF PartOf
<1>2. ASSUME NEW i \in 1 .. Len(l)
      PROVE  \E x \in 1 .. Num(k) : l[i] = m[x]
  <2>1. DOMAIN m = 1 .. Num(k)
    BY Assembled
  <2> HIDE DEF m
  <2> QED BY <2>1, <1>1 DEF ToSet
<1>3. ASSUME NEW i \in 1 .. Len(l)
      PROVE  /\ BytesOf(l[i]) \subseteq 1 .. L
             /\ IsFiniteSet(BytesOf(l[i])) /\ Cardinality(BytesOf(l[i])) = l[i].dataLen
  <2>1. PICK x \in 1 .. Num(k) : l[i] = m[x]
    BY <1>2
  <2> HIDE DEF L
  <2> QED BY <2>1, BytesOfFragments DEF L
<1>4. ASSUME NEW i \in 1 .. Len(l), NEW j \in 1 .. Len(l), i # j
      PROVE  BytesOf(l[i]) \cap BytesOf(l[j]) = {}
  <2>1. PICK x \in 1 .. Num(k) : l[i] = m[x]
    BY <1>2
  <2>2. PICK y \in 1 .. Num(k) : l[j] = m[y]
    BY <1>2
  <2>3. l[i] # l[j]
    BY <1>4 DEF PartOf
  <2> HIDE DEF m
  <2>4. x # y
    BY <2>1, <2>2, <2>3
  <2> QED BY <2>1, <2>2, <2>4, BytesOfFragments DEF m
<1> HIDE DEF m
<1>5. L \in Nat
  BY SentType
<1>6. ASSUME NEW j \in 0 .. Len(l)
      PROVE  Upto(j) \subseteq 1 .. L /\ IsFiniteSet(Upto(j)) /\ Cardinality(Upto(j)) \in Nat
  <2>1. \A i \in 1 .. j : i \in 1 .. Len(l)
    BY <1>1
  <2>2. Upto(j) \subseteq 1 .. L
    <3> HIDE DEF L
    <3> QED BY <2>1, <1>3 DEF L
  <2>3. IsFiniteSet(1 .. L)
    <3> HIDE DEF L
    <3> QED BY <1>5, FS_Interval
  <2>4. IsFiniteSet(Upto(j))
    BY <2>2, <2>3, FS_Subset
  <2> QED BY <2>2, <2>4, FS_CardinalityType
<1>7. ASSUME NEW j \in 1 .. Len(l)
      PROVE  Cardinality(Upto(j)) = Cardinality(Upto(j - 1)) + l[j].dataLen
  <2>1. j - 1 \in 0 .. Len(l) /\ \A i : i \in 1 .. j <=> i \in 1 .. j - 1 \/ i = j
    BY <1>1
  <2>2. Upto(j) = Upto(j - 1) \union BytesOf(l[j])
    BY <2>1
  <2>3. \A i \in 1 .. j - 1 : i \in 1 .. Len(l) /\ i # j
    BY <1>1
  <2>4. Upto(j - 1) \cap BytesOf(l[j]) = {}
    BY <2>3, <1>4
  <2>5. IsFiniteSet(Upto(j - 1)) /\ Cardinality(Upto(j - 1)) \in Nat
    BY <2>1, <1>6
  <2>6. IsFiniteSet(BytesOf(l[j])) /\ Cardinality(BytesOf(l[j])) = l[j].dataLen
    BY <1>3
  <2>7. l[j].dataLen \in Nat
    <3>1. Cardinality(BytesOf(l[j])) \in Nat
      BY <2>6, FS_CardinalityType
    <3> QED BY <3>1, <2>6
  <2> HIDE DEF Upto
  <2>8. Cardinality(Upto(j - 1) \union BytesOf(l[j]))
          = Cardinality(Upto(j - 1)) + Cardinality(BytesOf(l[j]))
              - Cardinality(Upto(j - 1) \cap BytesOf(l[j]))
    BY <2>5, <2>6, FS_Union
  <2>9. Cardinality(Upto(j - 1) \cap BytesOf(l[j])) = 0
    BY <2>4, FS_EmptySet
  <2> QED BY <2>2, <2>5, <2>6, <2>7, <2>8, <2>9
<1>8. Cardinality(Upto(0)) = 0
  <2>1. Upto(0) = {}
    OBVIOUS
  <2> QED BY <2>1, FS_EmptySet
<1>9. CurrentSize(l) = Cardinality(Upto(Len(l)))
  <2> HIDE DEF Upto
  <2>1. size \in [0 .. Len(l) -> Nat]
    BY <1>6
  <2>2. 0 \in 0 .. Len(l) /\ Len(l) \in 0 .. Len(l)
        /\ \A i \in 1 .. Len(l) : i \in 0 .. Len(l) /\ i - 1 \in 0 .. Len(l)
    BY <1>1
  <2>3. size[0] = 0 /\ \A i \in 1 .. Len(l) : size[i] = size[i - 1] + l[i].dataLen
    BY <2>2, <1>7, <1>8
  <2>4. size[Len(l)] = Cardinality(Upto(Len(l)))
    BY <2>2
  <2> HIDE DEF size
  <2> QED BY <2>1, <2>3, <2>4, <1>1, SizeOfLoop
<1>10. Upto(Len(l)) \subseteq 1 .. L
  <2> HIDE DEF Upto
  <2>1. Len(l) \in 0 .. Len(l)
    BY <1>1
  <2> QED BY <2>1, <1>6
<1> QED BY <1>9, <1>10

(* The sizes agree when, and only when, no fragment is missing. *)
LEMMA SizesAgree ==
  ASSUME TypeInv, NEW k \in DOMAIN sent, Num(k) > 1, NEW l, PartOf(l, k)
  PROVE  CurrentSize(l) = sent[k].length <=> Complete(l, k)
<1> DEFINE m == CWAssembleMessage(k)
           L == sent[k].length
           bytes == UNION {BytesOf(l[i]) : i \in 1 .. Len(l)}
<1>1. bytes \subseteq 1 .. L /\ CurrentSize(l) = Cardinality(bytes)
  BY SizeCountsBytes
<1>2. L \in Nat /\ IsFiniteSet(1 .. L) /\ Cardinality(1 .. L) = L
  <2>1. L \in Nat
    BY SentType
  <2> HIDE DEF L
  <2> QED BY <2>1, FS_Interval
<1>3. CurrentSize(l) = L <=> bytes = 1 .. L
  <2> HIDE DEF bytes, L
  <2> QED BY <1>1, <1>2, FS_Subset
<1>4. /\ DOMAIN m = 1 .. Num(k) /\ DOMAIN l = 1 .. Len(l)
      /\ \A i \in 1 .. Len(l) : l[i] \in ToSet(m)
  BY Assembled, LenProperties DEF PartOf
<1> HIDE DEF m, L
<1>5. ASSUME bytes = 1 .. L, NEW i \in 1 .. Num(k)
      PROVE  m[i] \in ToSet(l)
  <2>1. BytesOf(m[i]) \subseteq 1 .. L /\ BytesOf(m[i]) # {}
    BY BytesOfFragments DEF m, L
  <2>2. PICK x : x \in BytesOf(m[i])
    BY <2>1
  <2>3. PICK j \in 1 .. Len(l) : x \in BytesOf(l[j])
    BY <2>1, <2>2, <1>5
  <2>4. PICK y \in 1 .. Num(k) : l[j] = m[y]
    BY <1>4 DEF ToSet
  <2>5. y = i
    BY <2>2, <2>3, <2>4, BytesOfFragments DEF m
  <2> QED BY <2>4, <2>5, <1>4 DEF ToSet
<1>6. ASSUME ToSet(m) \subseteq ToSet(l), NEW x \in 1 .. L
      PROVE  x \in bytes
  <2>1. PICK i \in 1 .. Num(k) : x \in BytesOf(m[i])
    BY BytesOfFragments DEF m, L
  <2>2. m[i] \in ToSet(l)
    BY <1>4, <1>6 DEF ToSet
  <2>3. PICK j \in 1 .. Len(l) : l[j] = m[i]
    BY <2>2, <1>4 DEF ToSet
  <2> QED BY <2>1, <2>3
<1>7. bytes = 1 .. L <=> ToSet(m) \subseteq ToSet(l)
  <2>1. ToSet(m) = {m[i] : i \in 1 .. Num(k)}
    BY <1>4 DEF ToSet
  <2> HIDE DEF bytes
  <2> QED BY <2>1, <1>1, <1>5, <1>6
<1> QED BY <1>3, <1>7 DEF m, L, Complete

(* The last fragment announces the length of the message. *)
LEMMA TotalIsLength ==
  ASSUME TypeInv, NEW k \in DOMAIN sent, Num(k) > 1, NEW l, PartOf(l, k)
  PROVE  /\ TotalSize(l) \in {0, sent[k].length}
         /\ Complete(l, k) => TotalSize(l) = sent[k].length
<1> DEFINE m == CWAssembleMessage(k)
           n == Num(k)
           L == sent[k].length
           ends == {i \in DOMAIN l : l[i].last}
<1>1. /\ n \in 1 .. n /\ DOMAIN m = 1 .. n /\ DOMAIN l = 1 .. Len(l)
      /\ \A i \in 1 .. Len(l) : l[i] \in ToSet(m)
  BY Assembled, LenProperties DEF PartOf
<1>2. \A i \in 1 .. n : m[i].last => i = n
  BY Assembled
<1>3. m[n].last /\ m[n].fragmentOffset * 8 + m[n].dataLen = L
  <2>1. /\ m[n].last /\ m[n].fragmentOffset * 8 = (n - 1) * Aligned
        /\ m[n].dataLen = L - (n - 1) * Aligned
    BY <1>1, Assembled
  <2>2. L \in Nat /\ PMTU \in Int /\ n \in Nat
    BY SentType, Assembled
  <2>3. (n - 1) * Aligned \in Int
    BY <2>2 DEF Aligned
  <2> HIDE DEF m, n, L
  <2> QED BY <2>1, <2>2, <2>3
<1> HIDE DEF m, n, L
<1>4. \A i \in ends : l[i] = m[n]
  BY <1>1, <1>2 DEF ToSet
<1>5. \A i, j \in ends : i = j
  BY <1>1, <1>4 DEF PartOf
<1>6. ASSUME ends # {}
      PROVE  TotalSize(l) = L
  <2>1. PICK i \in ends : TRUE
    BY <1>6
  <2>2. i \in Nat /\ ends = {i}
    BY <2>1, <1>1, <1>5
  <2>3. Max(ends) = i
    BY <2>2 DEF Max
  <2>4. TotalSize(l) = l[i].fragmentOffset * 8 + l[i].dataLen
    BY <1>6, <2>3 DEF TotalSize
  <2> QED BY <2>1, <2>4, <1>3, <1>4
<1>7. ends = {} => TotalSize(l) = 0
  BY DEF TotalSize
<1>8. Complete(l, k) => ends # {}
  <2>1. ASSUME Complete(l, k) PROVE ends # {}
    <3>1. m[n] \in ToSet(l)
      BY <2>1, <1>1 DEF Complete, m, ToSet
    <3> QED BY <3>1, <1>3 DEF ToSet
  <2> QED BY <2>1
<1> QED BY <1>6, <1>7, <1>8 DEF L

-----------------------------------------------------------------------------
(* The pieces of any list are fragments of it. *)
LEMMA PiecesType ==
  ASSUME NEW l \in Seq(Fragment)
  PROVE  Pieces(l) \in Seq(Fragment)
<1> DEFINE chains == {p \in UNION {[1 .. n -> ToSet(l)] : n \in 1 .. Len(l)} : Chain(p)}
<1>1. ToSet(l) \subseteq Fragment /\ Len(l) \in Nat
  BY LenProperties DEF ToSet
<1>2. \A p \in chains : p \in Seq(Fragment)
  <2>1. ASSUME NEW p \in chains PROVE p \in Seq(Fragment)
    <3>1. PICK n \in 1 .. Len(l) : p \in [1 .. n -> ToSet(l)]
      OBVIOUS
    <3>2. n \in Nat
      BY <1>1
    <3>3. p \in [1 .. n -> Fragment]
      BY <3>1, <1>1
    <3> QED BY <3>2, <3>3, SeqDef
  <2> QED BY <2>1
<1>3. Pieces(l) = IF chains = {} THEN <<>> ELSE CHOOSE p \in chains : TRUE
  BY DEF Pieces
<1>4. <<>> \in Seq(Fragment)
  BY EmptySeq
<1> HIDE DEF chains
<1> QED BY <1>2, <1>3, <1>4

(* A message is the only chain that its fragments make. *)
LEMMA OnlyChain ==
  ASSUME TypeInv, NEW k \in DOMAIN sent, Num(k) > 1,
         NEW n \in Nat \ {0}, NEW p \in [1 .. n -> ToSet(CWAssembleMessage(k))], Chain(p)
  PROVE  p = CWAssembleMessage(k)
<1> DEFINE m == CWAssembleMessage(k)
           S == {i \in 1 .. n : ~ (i \in 1 .. Num(k) /\ p[i] = m[i])}
<1>1. /\ Num(k) \in Nat \ {0} /\ m \in [1 .. Num(k) -> Fragment]
      /\ \A i \in 1 .. Num(k) : m[i].fragmentOffset = (i - 1) * Words
      /\ \A i \in 1 .. Num(k) : i < Num(k) => m[i].dataLen = Words * 8
      /\ \A i \in 1 .. Num(k) : m[i].last <=> i = Num(k)
      /\ Words \in Nat \ {0}
  <2>1. PMTU \in Int /\ sent[k].length \in Nat \ {0}
    BY SentType
  <2>2. PMTU >= 8 /\ Num(k) \in Nat \ {0}
    <3>1. Num(k) \in Nat \ {0}
      BY Assembled
    <3>2. PMTU < 8 => Num(k) = 1
      BY <2>1, Number DEF Num
    <3> QED BY <2>1, <3>1, <3>2
  <2>3. Words \in Nat \ {0} /\ Aligned = Words * 8
    BY <2>1, <2>2, Number
  <2> HIDE DEF m
  <2>4. m \in [1 .. Num(k) -> Fragment]
        /\ \A i \in 1 .. Num(k) :
             /\ m[i].fragmentOffset = (i - 1) * Words
             /\ i < Num(k) => m[i].dataLen = Aligned
             /\ m[i].last = (Num(k) > 1 /\ i = Num(k))
    BY Assembled DEF m
  <2> QED BY <2>2, <2>3, <2>4
<1>2. /\ p[1].fragmentOffset = 0
      /\ \A i \in 1 .. n - 1 :
           ~ p[i].last /\ p[i + 1].fragmentOffset = p[i].fragmentOffset + p[i].dataLen \div 8
      /\ p[n].last
  <2>1. Len(p) = n
    <3>1. p \in Seq(ToSet(m))
      BY SeqDef
    <3>2. DOMAIN p = 1 .. n /\ DOMAIN p = 1 .. Len(p) /\ Len(p) \in Nat
      BY <3>1, LenProperties
    <3> HIDE DEF m
    <3> QED BY <3>2
  <2> QED BY <2>1 DEF Chain
<1>3. \A i \in 1 .. n : \E x \in 1 .. Num(k) : p[i] = m[x]
  <2>1. \A i \in 1 .. n : p[i] \in ToSet(m)
    OBVIOUS
  <2>2. DOMAIN m = 1 .. Num(k)
    BY <1>1
  <2> HIDE DEF m
  <2> QED BY <2>1, <2>2 DEF ToSet
<1> HIDE DEF m
<1>4. ASSUME NEW i \in Int, NEW j \in Int, i * Words = j * Words
      PROVE  i = j
  BY <1>1, <1>4, Products
<1>5. CASE S # {}
  <2>1. S \subseteq Nat
    OBVIOUS
  <2>2. PICK i \in S : \A j \in S : i <= j
    <3> HIDE DEF S
    <3> QED BY <1>5, <2>1, LeastNumber
  <2>3. i \in 1 .. n /\ i \in Nat
    OBVIOUS
  <2>4. PICK x \in 1 .. Num(k) : p[i] = m[x]
    BY <2>3, <1>3
  <2>5. x \in Int /\ m[x].fragmentOffset = (x - 1) * Words
    BY <1>1
  <2>6. CASE i = 1
    <3>1. (x - 1) * Words = 0 * Words
      BY <2>4, <2>5, <2>6, <1>1, <1>2
    <3>2. x - 1 = 0
      BY <3>1, <2>5, <1>4
    <3> QED BY <3>2, <2>4, <2>5, <2>6
  <2>7. CASE i # 1
    <3>1. i - 1 \in 1 .. n - 1 /\ i - 1 \in 1 .. n /\ (i - 1) + 1 = i /\ ~ (i <= i - 1)
      BY <2>3, <2>7
    <3>2. i - 1 \in 1 .. Num(k) /\ p[i - 1] = m[i - 1]
      BY <2>2, <3>1
    <3>3. /\ ~ p[i - 1].last
          /\ p[i].fragmentOffset = p[i - 1].fragmentOffset + p[i - 1].dataLen \div 8
      BY <3>1, <1>2
    <3>4. i - 1 # Num(k)
      BY <3>2, <3>3, <1>1
    <3>5. i - 1 < Num(k) /\ i \in 1 .. Num(k)
      BY <3>2, <3>4, <2>3, <1>1
    <3>6. m[i - 1].fragmentOffset = (i - 2) * Words /\ m[i - 1].dataLen = Words * 8
      <4>1. (i - 1) - 1 = i - 2
        BY <2>3
      <4> QED BY <3>2, <3>5, <4>1, <1>1
    <3>7. (Words * 8) \div 8 = Words
      BY <1>1
    <3>8. (i - 2) * Words + Words = (i - 1) * Words
      BY <2>3, <1>1
    <3>9. (x - 1) * Words = (i - 1) * Words
      BY <2>4, <2>5, <3>2, <3>3, <3>6, <3>7, <3>8
    <3>10. x - 1 = i - 1
      BY <3>9, <2>3, <2>5, <1>4
    <3>11. x = i
      BY <3>10, <2>3, <2>5
    <3> QED BY <3>11, <2>4, <3>5
  <2> QED BY <2>6, <2>7
<1>6. CASE S = {}
  <2>1. \A i \in 1 .. n : i \in 1 .. Num(k) /\ p[i] = m[i]
    BY <1>6
  <2>2. n \in 1 .. n
    OBVIOUS
  <2>3. n = Num(k)
    BY <2>1, <2>2, <1>1, <1>2
  <2>4. p = [i \in 1 .. n |-> p[i]] /\ m = [i \in 1 .. n |-> m[i]]
    BY <2>3, <1>1
  <2> QED BY <2>1, <2>4 DEF m
<1> QED BY <1>5, <1>6

(* A complete list gives the message. *)
LEMMA CompletePieces ==
  ASSUME TypeInv, NEW k \in DOMAIN sent, Num(k) > 1, NEW l, PartOf(l, k), Complete(l, k)
  PROVE  Pieces(l) = CWAssembleMessage(k)
<1> DEFINE m == CWAssembleMessage(k)
           n == Num(k)
           chains == {p \in UNION {[1 .. q -> ToSet(l)] : q \in 1 .. Len(l)} : Chain(p)}
<1>1. /\ n \in Nat \ {0} /\ m \in [1 .. n -> Fragment] /\ Len(m) = n
      /\ DOMAIN l = 1 .. Len(l) /\ Len(l) \in Nat
      /\ \A i \in 1 .. Len(l) : l[i] \in ToSet(m)
  BY Assembled, LenProperties DEF PartOf
<1>2. Chain(m)
  <2>1. PMTU \in Int /\ sent[k].length \in Nat \ {0}
    BY SentType
  <2>2. PMTU >= 8
    BY <2>1, Number DEF Num
  <2>3. Words \in Nat \ {0} /\ Aligned = Words * 8
    BY <2>1, <2>2, Number
  <2>4. \A i \in 1 .. n :
             /\ m[i].fragmentOffset = (i - 1) * Words
             /\ i < n => m[i].dataLen = Aligned
             /\ m[i].last = (n > 1 /\ i = n)
    BY Assembled
  <2> HIDE DEF m, n
  <2>5. 1 \in 1 .. n /\ n \in 1 .. n /\ (1 - 1) * Words = 0 /\ n > 1
    BY <1>1, <2>3 DEF n
  <2>6. ASSUME NEW i \in 1 .. n - 1
        PROVE  ~ m[i].last /\ m[i + 1].fragmentOffset = m[i].fragmentOffset + m[i].dataLen \div 8
    <3>1. i \in 1 .. n /\ i + 1 \in 1 .. n /\ i < n /\ i # n /\ (i + 1) - 1 = i /\ i \in Int
      BY <1>1
    <3>2. (Words * 8) \div 8 = Words
      BY <2>3
    <3>3. (i - 1) * Words + Words = i * Words
      BY <3>1, <2>3
    <3>4. m[i + 1].fragmentOffset = i * Words /\ m[i].fragmentOffset = (i - 1) * Words
          /\ m[i].dataLen = Words * 8 /\ ~ m[i].last
      BY <3>1, <2>3, <2>4
    <3> QED BY <3>2, <3>3, <3>4
  <2> QED BY <2>4, <2>5, <2>6, <1>1 DEF Chain
<1> HIDE DEF m
<1>3. m \in [1 .. n -> ToSet(l)]
  <2>1. \A i \in 1 .. n : m[i] \in ToSet(l)
    BY <1>1 DEF Complete, m, ToSet
  <2> QED BY <2>1, <1>1
<1>4. n \in 1 .. Len(l)
  <2> DEFINE g == [i \in 1 .. n |-> CHOOSE j \in 1 .. Len(l) : l[j] = m[i]]
  <2>1. ASSUME NEW i \in 1 .. n
        PROVE  g[i] \in 1 .. Len(l) /\ l[g[i]] = m[i]
    <3>1. \E j \in 1 .. Len(l) : l[j] = m[i]
      BY <1>1, <1>3 DEF ToSet
    <3> QED BY <3>1
  <2>2. g \in [1 .. n -> 1 .. Len(l)]
    BY <2>1
  <2>3. \A i, j \in 1 .. n : m[i] = m[j] => i = j
    <3>1. ASSUME NEW i \in 1 .. n, NEW j \in 1 .. n, m[i] = m[j]
          PROVE  i = j
      <4>1. BytesOf(m[i]) # {} /\ (i # j => BytesOf(m[i]) \cap BytesOf(m[j]) = {})
        BY BytesOfFragments DEF m
      <4> QED BY <3>1, <4>1
    <3> QED BY <3>1
  <2> HIDE DEF g, n
  <2>4. g \in Injection(1 .. n, 1 .. Len(l))
    BY <2>1, <2>2, <2>3 DEF Injection, IsInjective
  <2>5. /\ IsFiniteSet(1 .. Len(l)) /\ Cardinality(1 .. Len(l)) = Len(l)
        /\ Cardinality(1 .. n) = n
    <3>1. \A b \in Nat : IsFiniteSet(1 .. b) /\ Cardinality(1 .. b) = b
      <4>1. \A b \in Nat : Cardinality(1 .. b) = IF 1 > b THEN 0 ELSE b - 1 + 1
        BY FS_Interval
      <4>2. \A b \in Nat : IsFiniteSet(1 .. b)
        BY FS_Interval
      <4>3. \A b \in Nat : (IF 1 > b THEN 0 ELSE b - 1 + 1) = b
        OBVIOUS
      <4> QED BY <4>1, <4>2, <4>3
    <3> QED BY <3>1, <1>1
  <2>6. n <= Len(l)
    BY <2>4, <2>5, FS_Injection
  <2> QED BY <2>6, <1>1
<1>5. m \in chains
  <2> HIDE DEF n
  <2> QED BY <1>2, <1>3, <1>4
<1>6. \A p \in chains : p = m
  <2>1. ASSUME NEW p \in chains PROVE p = m
    <3>1. PICK q \in 1 .. Len(l) : p \in [1 .. q -> ToSet(l)]
      OBVIOUS
    <3>2. Chain(p)
      OBVIOUS
    <3>3. ToSet(l) \subseteq ToSet(m)
      BY <1>1 DEF ToSet
    <3>4. q \in Nat \ {0} /\ p \in [1 .. q -> ToSet(m)]
      BY <3>1, <3>3, <1>1
    <3> HIDE DEF chains
    <3> QED BY <3>2, <3>4, OnlyChain DEF m
  <2> QED BY <2>1
<1>7. Pieces(l) = IF chains = {} THEN <<>> ELSE CHOOSE p \in chains : TRUE
  BY DEF Pieces
<1> HIDE DEF chains
<1> QED BY <1>5, <1>6, <1>7 DEF m

-----------------------------------------------------------------------------
(* A message that is sent takes an identifier that no fragment has had, and a  *)
(* message of several fragments keeps it for itself.                           *)
SentInv ==
  \A k \in DOMAIN sent :
    /\ sent[k].fragID <= fragID
    /\ Num(k) > 1 => sent[k].fragID < fragID
    /\ \A j \in DOMAIN sent : j < k /\ Num(j) > 1 => sent[j].fragID < sent[k].fragID

(* The list holds fragments of one message, each once, and not all of them.    *)
ListInv ==
  NotWrapped /\ list # <<>> =>
    \E k \in DOMAIN sent : Num(k) > 1 /\ PartOf(list, k) /\ ~ Complete(list, k)

FragmentsInv ==
  /\ TypeInv
  /\ SentInv
  /\ ListInv
  /\ ReturnedWasSent

(* A packet is a fragment of a message that was sent. *)
LEMMA PacketOf ==
  ASSUME TypeInv, NEW f \in Packets
  PROVE  \E k \in DOMAIN sent : \E i \in 1 .. Num(k) : f = CWAssembleMessage(k)[i]
<1>1. PICK k \in DOMAIN sent : f \in ToSet(CWAssembleMessage(k))
  BY DEF Packets
<1>2. DOMAIN CWAssembleMessage(k) = 1 .. Num(k)
  BY Assembled
<1> QED BY <1>1, <1>2 DEF ToSet

(* As long as the identifiers have not wrapped, two fragments with one         *)
(* identifier are of one message.                                              *)
LEMMA OneMessage ==
  ASSUME TypeInv, SentInv, NotWrapped,
         NEW k \in DOMAIN sent, Num(k) > 1, NEW i \in 1 .. Num(k),
         NEW j \in DOMAIN sent, Num(j) > 1, NEW x \in 1 .. Num(j),
         CWAssembleMessage(k)[i].fragmentID = CWAssembleMessage(j)[x].fragmentID
  PROVE  k = j
<1>1. /\ CWAssembleMessage(k)[i].fragmentID = sent[k].fragID % FragmentIDs
      /\ CWAssembleMessage(j)[x].fragmentID = sent[j].fragID % FragmentIDs
  BY Assembled
<1>2. /\ k \in Nat /\ sent[k].fragID \in Nat /\ sent[k].fragID < fragID
      /\ j \in Nat /\ sent[j].fragID \in Nat /\ sent[j].fragID < fragID
  BY SentType DEF SentInv
<1>3. fragID \in Int /\ fragID <= FragmentIDs /\ FragmentIDs \in Nat \ {0}
  BY FragmentsAssumption DEF TypeInv, FragmentsTypeOK, NotWrapped
<1>4. \A y \in Nat : y < FragmentIDs => y % FragmentIDs = y
  BY <1>3
<1>5. sent[k].fragID < FragmentIDs /\ sent[j].fragID < FragmentIDs
  BY <1>2, <1>3
<1>6. sent[k].fragID % FragmentIDs = sent[k].fragID /\ sent[j].fragID % FragmentIDs = sent[j].fragID
  BY <1>2, <1>4, <1>5
<1>7. sent[k].fragID = sent[j].fragID
  BY <1>1, <1>6
<1>8. ~ (j < k) /\ ~ (k < j)
  <2>1. j < k => sent[j].fragID < sent[k].fragID
    BY DEF SentInv
  <2>2. k < j => sent[k].fragID < sent[j].fragID
    BY DEF SentInv
  <2> QED BY <2>1, <2>2, <1>2, <1>7
<1> QED BY <1>2, <1>8

(* What Collect makes of the list and a new fragment is again a part of one    *)
(* message.                                                                    *)
LEMMA CollectedPart ==
  ASSUME TypeInv, SentInv, ListInv, NotWrapped,
         NEW k \in DOMAIN sent, Num(k) > 1, NEW i \in 1 .. Num(k),
         ~ InList(CWAssembleMessage(k)[i])
  PROVE  PartOf(Collect(CWAssembleMessage(k)[i]), k)
<1> DEFINE m == CWAssembleMessage(k)
           f == CWAssembleMessage(k)[i]
<1>1. f \in ToSet(m) /\ f \in Fragment
  <2>1. DOMAIN m = 1 .. Num(k) /\ m \in [1 .. Num(k) -> Fragment]
    BY Assembled
  <2> QED BY <2>1 DEF ToSet
<1>2. ~ InList(f)
  OBVIOUS
<1>3. \A j \in DOMAIN sent : \A x \in 1 .. Num(j) :
        Num(j) > 1 /\ CWAssembleMessage(j)[x].fragmentID = f.fragmentID => j = k
  BY OneMessage
<1> HIDE DEF f
<1>4. PartOf(<<f>>, k)
  <2>1. <<f>> \in Seq(Fragment) /\ Len(<<f>>) = 1 /\ <<f>>[1] = f
    BY <1>1
  <2>2. \A y \in 1 .. 1 : y = 1
    OBVIOUS
  <2> HIDE DEF m
  <2> QED BY <2>1, <2>2, <1>1 DEF PartOf, m
<1>5. CASE list = <<>>
  <2>1. Collect(f) = <<f>>
    BY <1>5 DEF Collect
  <2> QED BY <2>1, <1>4 DEF f
<1>6. CASE list # <<>> /\ Head(list).fragmentID # f.fragmentID
  <2>1. Collect(f) = <<f>>
    BY <1>6 DEF Collect
  <2> QED BY <2>1, <1>4 DEF f
<1>7. CASE list # <<>> /\ Head(list).fragmentID = f.fragmentID
  <2>1. PICK j \in DOMAIN sent : Num(j) > 1 /\ PartOf(list, j)
    BY <1>7 DEF ListInv
  <2>2. /\ list \in Seq(Fragment) /\ Len(list) \in Nat \ {0} /\ DOMAIN list = 1 .. Len(list)
        /\ Head(list) = list[1]
    BY <2>1, <1>7, LenProperties, EmptySeq DEF PartOf
  <2>3. 1 \in 1 .. Len(list)
    BY <2>2
  <2>4. Head(list) \in ToSet(CWAssembleMessage(j))
    BY <2>1, <2>2, <2>3 DEF PartOf
  <2>5. DOMAIN CWAssembleMessage(j) = 1 .. Num(j)
    BY Assembled
  <2>6. PICK x \in 1 .. Num(j) : Head(list) = CWAssembleMessage(j)[x]
    BY <2>4, <2>5 DEF ToSet
  <2>7. j = k
    BY <2>1, <2>6, <1>3, <1>7
  <2>8. PartOf(list, k)
    BY <2>1, <2>7
  <2>9. Collect(f) = <<f>> \o list
    BY <1>7 DEF Collect
  <2>10. \A y \in 1 .. Len(list) : list[y] # f
    BY <1>2, <2>2 DEF InList, CWCompareFragment
  <2> HIDE DEF m
  <2> DEFINE l == <<f>> \o list
  <2>11. /\ l \in Seq(Fragment) /\ Len(l) = Len(list) + 1
         /\ l[1] = f /\ \A y \in 2 .. Len(l) : l[y] = list[y - 1]
    <3>1. <<f>> \in Seq(Fragment) /\ Len(<<f>>) = 1 /\ <<f>>[1] = f
      BY <1>1
    <3>2. /\ l \in Seq(Fragment) /\ Len(l) = 1 + Len(list)
          /\ \A y \in 1 .. 1 + Len(list) : l[y] = IF y <= 1 THEN <<f>>[y] ELSE list[y - 1]
      <4> HIDE DEF l
      <4> QED BY <2>2, <3>1, ConcatProperties DEF l
    <3> HIDE DEF l
    <3>3. 1 \in 1 .. 1 + Len(list) /\ 1 <= 1
      BY <2>2
    <3>4. \A y \in 2 .. Len(l) : y \in 1 .. 1 + Len(list) /\ ~ (y <= 1)
      BY <2>2, <3>2
    <3>5. Len(l) = Len(list) + 1
      BY <2>2, <3>2
    <3> QED BY <3>1, <3>2, <3>3, <3>4, <3>5
  <2> HIDE DEF l
  <2>12. \A y \in 1 .. Len(l) : y = 1 \/ (y \in 2 .. Len(l) /\ y - 1 \in 1 .. Len(list))
    BY <2>2, <2>11
  <2>13. \A y \in 1 .. Len(l) : l[y] \in ToSet(m)
    <3>1. \A y \in 1 .. Len(list) : list[y] \in ToSet(m)
      BY <2>8 DEF PartOf, m
    <3> QED BY <3>1, <2>11, <2>12, <1>1
  <2>14. ASSUME NEW y \in 1 .. Len(l), NEW z \in 1 .. Len(l), l[y] = l[z]
         PROVE  y = z
    <3>1. CASE y = 1 /\ z = 1
      BY <3>1
    <3>2. CASE y = 1 /\ z # 1
      BY <3>2, <2>10, <2>11, <2>12, <2>14
    <3>3. CASE y # 1 /\ z = 1
      BY <3>3, <2>10, <2>11, <2>12, <2>14
    <3>4. CASE y # 1 /\ z # 1
      <4>1. list[y - 1] = list[z - 1] /\ y - 1 \in 1 .. Len(list) /\ z - 1 \in 1 .. Len(list)
        BY <3>4, <2>11, <2>12, <2>14
      <4>2. y - 1 = z - 1
        BY <4>1, <2>8 DEF PartOf
      <4> QED BY <4>2, <2>2, <2>11
    <3> QED BY <3>1, <3>2, <3>3, <3>4
  <2>15. PartOf(l, k)
    BY <2>11, <2>13, <2>14 DEF PartOf, m
  <2> QED BY <2>9, <2>15 DEF l, f
<1> QED BY <1>5, <1>6, <1>7

-----------------------------------------------------------------------------
(* The messages sent so far do not change. *)
LEMMA SameMessages ==
  ASSUME UNCHANGED <<PMTU, sent>>, NEW k
  PROVE  /\ CWAssembleMessage(k)' = CWAssembleMessage(k) /\ Num(k)' = Num(k)
         /\ \A l : PartOf(l, k) => PartOf(l, k)'
         /\ \A l : Complete(l, k)' <=> Complete(l, k)
<1>1. CWAssembleMessage(k)' = CWAssembleMessage(k)
  BY DEF CWAssembleMessage, FragmentsNum, Aligned
<1>2. Num(k)' = Num(k)
  BY DEF Num, FragmentsNum, Aligned
<1> QED BY <1>1, <1>2 DEF PartOf, Complete

LEMMA KeptMessages ==
  ASSUME TypeInv, NEW length \in Lengths, Send(length), NEW k \in DOMAIN sent
  PROVE  /\ k \in DOMAIN sent' /\ sent'[k] = sent[k]
         /\ CWAssembleMessage(k)' = CWAssembleMessage(k) /\ Num(k)' = Num(k)
         /\ \A l : PartOf(l, k) => PartOf(l, k)'
         /\ \A l : Complete(l, k)' <=> Complete(l, k)
<1> DEFINE e == [length |-> length, fragID |-> fragID]
<1>1. sent' = Append(sent, e) /\ PMTU' = PMTU
  BY DEF Send
<1>2. sent \in Seq([length : Lengths, fragID : Nat]) /\ fragID \in Nat
  BY FragmentsAssumption DEF TypeInv, FragmentsTypeOK
<1>3. DOMAIN sent = 1 .. Len(sent) /\ Len(sent) \in Nat
  BY <1>2, LenProperties
<1>4. e \in [length : Lengths, fragID : Nat]
  BY <1>2
<1> HIDE DEF e
<1>5. /\ sent' \in Seq([length : Lengths, fragID : Nat])
      /\ Len(sent') = Len(sent) + 1 /\ sent'[k] = sent[k]
  BY <1>1, <1>2, <1>3, <1>4, AppendProperties
<1>6. DOMAIN sent' = 1 .. Len(sent) + 1
  BY <1>5, LenProperties
<1>7. k \in DOMAIN sent'
  BY <1>3, <1>6
<1>8. CWAssembleMessage(k)' = CWAssembleMessage(k)
  BY <1>1, <1>5 DEF CWAssembleMessage, FragmentsNum, Aligned
<1>9. Num(k)' = Num(k)
  BY <1>1, <1>5 DEF Num, FragmentsNum, Aligned
<1> QED BY <1>5, <1>7, <1>8, <1>9 DEF PartOf, Complete

-----------------------------------------------------------------------------
LEMMA FragmentsInitInv == FragmentsInit => FragmentsInv
<1> SUFFICES ASSUME FragmentsInit PROVE FragmentsInv
  OBVIOUS
<1>1. /\ <<>> \in Seq([length : Lengths, fragID : Nat])
      /\ <<>> \in Seq(Fragment) /\ Len(<<>>) = 0 /\ DOMAIN <<>> = {}
  BY EmptySeq
<1>2. TypeInv
  BY <1>1, FragmentsAssumption DEF FragmentsInit, TypeInv, FragmentsTypeOK, Results
<1>3. SentInv /\ ListInv /\ ReturnedWasSent
  BY <1>1 DEF FragmentsInit, SentInv, ListInv, ReturnedWasSent
<1> QED BY <1>2, <1>3 DEF FragmentsInv

(* A step that sends a message. *)
LEMMA SendInv ==
  ASSUME FragmentsInv, NEW length \in Lengths, Send(length)
  PROVE  FragmentsInv'
<1> DEFINE e == [length |-> length, fragID |-> fragID]
<1> USE DEF FragmentsInv
<1>0. PICK n : n = Len(sent)
  OBVIOUS
<1>1. /\ n < MaxMessages /\ sent' = Append(sent, e)
      /\ fragID' = IF FragmentsNum(length) > 1 THEN fragID + 1 ELSE fragID
      /\ UNCHANGED <<PMTU, receiver, list, result, reassembled>>
  BY <1>0 DEF Send
<1>2. /\ sent \in Seq([length : Lengths, fragID : Nat]) /\ fragID \in Nat
      /\ fragID <= n /\ MaxMessages \in Nat
  BY <1>0, FragmentsAssumption DEF TypeInv, FragmentsTypeOK
<1>3. DOMAIN sent = 1 .. n /\ n \in Nat
  BY <1>0, <1>2, LenProperties
<1>4. e \in [length : Lengths, fragID : Nat]
  BY <1>2
<1>5. /\ sent' \in Seq([length : Lengths, fragID : Nat])
      /\ Len(sent') = n + 1 /\ sent'[n + 1] = e
  <2> HIDE DEF e
  <2> QED BY <1>0, <1>1, <1>2, <1>3, <1>4, AppendProperties
<1>6. DOMAIN sent' = 1 .. n + 1
  BY <1>5, LenProperties
<1>7. fragID' \in {fragID, fragID + 1} /\ fragID <= fragID'
  BY <1>1, <1>2
<1>8. TypeInv'
  <2>1. fragID' \in 0 .. MaxMessages /\ Len(sent') <= MaxMessages /\ fragID' <= Len(sent')
    BY <1>1, <1>2, <1>3, <1>5, <1>7
  <2>2. /\ PMTU' \in PMTUs /\ receiver' \in {"AC", "WTP"}
        /\ list' \in Seq(Fragment) /\ result' \in Results /\ reassembled' \in Seq(Fragment)
    BY <1>1 DEF TypeInv, FragmentsTypeOK
  <2> QED BY <2>1, <2>2, <1>5 DEF TypeInv, FragmentsTypeOK
<1>9. \A k \in DOMAIN sent' : k \in DOMAIN sent \/ k = n + 1
  BY <1>3, <1>6
<1>10. n + 1 \in DOMAIN sent' /\ sent'[n + 1].fragID = fragID /\ sent'[n + 1].length = length
  BY <1>3, <1>5, <1>6
<1>11. Num(n + 1)' = FragmentsNum(length)
  <2>1. sent'[n + 1].length = length /\ PMTU' = PMTU
    BY <1>1, <1>10
  <2> QED BY <2>1 DEF Num, FragmentsNum, Aligned
<1>12. \A k \in DOMAIN sent : sent'[k] = sent[k] /\ Num(k)' = Num(k)
  BY KeptMessages
<1>13. SentInv'
  <2> SUFFICES ASSUME NEW k \in DOMAIN sent'
               PROVE  /\ sent'[k].fragID <= fragID'
                      /\ Num(k)' > 1 => sent'[k].fragID < fragID'
                      /\ \A j \in DOMAIN sent' :
                           j < k /\ Num(j)' > 1 => sent'[j].fragID < sent'[k].fragID
    BY DEF SentInv
  <2>1. CASE k \in DOMAIN sent
    <3>1. /\ sent[k].fragID \in Nat /\ sent[k].fragID <= fragID
          /\ Num(k) > 1 => sent[k].fragID < fragID
      BY <2>1, SentType DEF SentInv
    <3>2. ASSUME NEW j \in DOMAIN sent', j < k, Num(j)' > 1
          PROVE  sent'[j].fragID < sent'[k].fragID
      <4>1. j \in DOMAIN sent
        BY <3>2, <2>1, <1>3, <1>9
      <4> QED BY <4>1, <3>2, <2>1, <1>12 DEF SentInv
    <3>3. sent'[k].fragID <= fragID' /\ (Num(k)' > 1 => sent'[k].fragID < fragID')
      <4>1. sent'[k] = sent[k] /\ Num(k)' = Num(k)
        BY <2>1, <1>12
      <4> QED BY <4>1, <3>1, <1>2, <1>7
    <3> QED BY <3>2, <3>3
  <2>2. CASE k = n + 1
    <3>1. sent'[k].fragID = fragID /\ (Num(k)' > 1 => fragID' = fragID + 1)
      BY <2>2, <1>1, <1>10, <1>11
    <3>2. ASSUME NEW j \in DOMAIN sent', j < k, Num(j)' > 1
          PROVE  sent'[j].fragID < fragID
      <4>1. j \in DOMAIN sent
        BY <3>2, <2>2, <1>3, <1>9
      <4> QED BY <4>1, <3>2, <1>12 DEF SentInv
    <3> QED BY <3>1, <3>2, <1>2, <1>7
  <2> QED BY <2>1, <2>2, <1>9
<1>14. NotWrapped' => NotWrapped
  BY <1>2, <1>7, FragmentsAssumption DEF NotWrapped
<1>15. ListInv'
  <2> SUFFICES ASSUME NotWrapped', list' # <<>>
               PROVE  \E k \in DOMAIN sent' :
                        Num(k)' > 1 /\ PartOf(list, k)' /\ ~ Complete(list, k)'
    BY DEF ListInv
  <2>1. PICK k \in DOMAIN sent : Num(k) > 1 /\ PartOf(list, k) /\ ~ Complete(list, k)
    BY <1>1, <1>14 DEF ListInv
  <2>2. list' = list
    BY <1>1
  <2>3. PartOf(list, k)' /\ ~ Complete(list, k)'
    <3>1. \A l : PartOf(l, k) => PartOf(l, k)'
      BY KeptMessages
    <3>2. \A l : Complete(l, k)' <=> Complete(l, k)
      BY KeptMessages
    <3> QED BY <3>1, <3>2, <2>1, <2>2 DEF PartOf, Complete
  <2> QED BY <2>1, <2>3, KeptMessages
<1>16. ReturnedWasSent'
  <2> SUFFICES ASSUME NotWrapped'
               PROVE  /\ result' # "invalidFormat"
                      /\ result' = "message" =>
                           \E k \in DOMAIN sent' : reassembled' = CWAssembleMessage(k)'
    BY DEF ReturnedWasSent
  <2>1. /\ result # "invalidFormat"
        /\ result = "message" => \E k \in DOMAIN sent : reassembled = CWAssembleMessage(k)
    BY <1>14 DEF ReturnedWasSent
  <2>2. result' = result /\ reassembled' = reassembled
    BY <1>1
  <2> QED BY <2>1, <2>2, KeptMessages
<1> QED BY <1>8, <1>13, <1>15, <1>16

(* What a receive step leaves alone, and what follows for the invariant. *)
LEMMA ReceiveKeeps ==
  ASSUME FragmentsInv, UNCHANGED <<PMTU, receiver, sent, fragID>>,
         list' \in Seq(Fragment), result' \in Results, reassembled' \in Seq(Fragment),
         NotWrapped /\ list' # <<>> =>
           \E k \in DOMAIN sent : Num(k) > 1 /\ PartOf(list', k) /\ ~ Complete(list', k),
         NotWrapped => result' # "invalidFormat",
         NotWrapped /\ result' = "message" =>
           \E k \in DOMAIN sent : reassembled' = CWAssembleMessage(k)
  PROVE  FragmentsInv'
<1>1. NotWrapped' <=> NotWrapped
  BY DEF NotWrapped
<1>2. DOMAIN sent' = DOMAIN sent
  OBVIOUS
<1>3. \A k : CWAssembleMessage(k)' = CWAssembleMessage(k) /\ Num(k)' = Num(k)
  BY SameMessages
<1>4. TypeInv'
  BY DEF FragmentsInv, TypeInv, FragmentsTypeOK
<1>5. SentInv'
  BY <1>3 DEF FragmentsInv, SentInv
<1>6. ListInv'
  BY <1>1, <1>2, <1>3 DEF ListInv, PartOf, Complete
<1>7. ReturnedWasSent'
  BY <1>1, <1>2, <1>3 DEF ReturnedWasSent
<1> QED BY <1>4, <1>5, <1>6, <1>7 DEF FragmentsInv

LEMMA ReceiveInv ==
  ASSUME FragmentsInv, NEW f \in Packets, Receive(f)
  PROVE  FragmentsInv'
<1> DEFINE SentMessage == \E k \in DOMAIN sent : reassembled' = CWAssembleMessage(k)
           PartInv(l) == NotWrapped /\ l # <<>> =>
                           \E k \in DOMAIN sent : Num(k) > 1 /\ PartOf(l, k) /\ ~ Complete(l, k)
<1>1. TypeInv /\ SentInv /\ ListInv /\ ReturnedWasSent
  BY DEF FragmentsInv
<1>2. /\ list \in Seq(Fragment) /\ <<>> \in Seq(Fragment)
      /\ receiver \in {"AC", "WTP"} /\ PartInv(list) /\ PartInv(<<>>)
  BY <1>1, EmptySeq DEF TypeInv, FragmentsTypeOK, ListInv
<1>3. PICK k \in DOMAIN sent : \E i \in 1 .. Num(k) : f = CWAssembleMessage(k)[i]
  BY <1>1, PacketOf
<1>4. PICK i \in 1 .. Num(k) : f = CWAssembleMessage(k)[i]
  BY <1>3
<1> DEFINE m == CWAssembleMessage(k)
           L == sent[k].length
<1>5. /\ Num(k) \in Nat \ {0} /\ m \in [1 .. Num(k) -> Fragment] /\ m \in Seq(Fragment)
      /\ Len(m) = Num(k) /\ f \in Fragment /\ f.isFragment = (Num(k) > 1)
  BY <1>1, <1>4, Assembled
<1>6. CASE ReceiveMessage(f)
  <2>1. /\ ~ f.isFragment /\ UNCHANGED <<PMTU, receiver, sent, fragID>>
        /\ result' = "message" /\ reassembled' = <<f>>
        /\ list' = IF receiver = "WTP" THEN <<>> ELSE list
    BY <1>6 DEF ReceiveMessage, Returns
  <2>2. m = <<f>>
    <3>0. ~ (Num(k) > 1)
      BY <1>5, <2>1, Zenon
    <3>1. Num(k) = 1 /\ i = 1
      <4> HIDE DEF m
      <4> QED BY <1>5, <3>0
    <3> HIDE DEF m
    <3>2. <<f>> \in Seq(Fragment) /\ Len(<<f>>) = 1 /\ <<f>>[1] = f
      BY <1>5
    <3>3. m[1] = f
      BY <1>4, <3>1 DEF m
    <3>4. \A j \in 1 .. 1 : j = 1
      OBVIOUS
    <3> QED BY <1>5, <3>1, <3>2, <3>3, <3>4, SeqEqual
  <2>3. reassembled' = m
    BY <2>1, <2>2
  <2>4. /\ list' \in Seq(Fragment) /\ PartInv(list') /\ result' \in Results
        /\ reassembled' \in Seq(Fragment) /\ SentMessage /\ result' # "invalidFormat"
    <3>1. list' \in {<<>>, list}
      BY <2>1
    <3>2. list' \in Seq(Fragment) /\ PartInv(list')
      <4> HIDE DEF PartInv
      <4> QED BY <3>1, <1>2
    <3>3. result' \in Results /\ result' # "invalidFormat"
      BY <2>1 DEF Results
    <3>4. SentMessage
      BY <2>3
    <3>5. reassembled' \in Seq(Fragment)
      BY <2>3, <1>5
    <3> QED BY <3>2, <3>3, <3>4, <3>5
  <2> QED BY <2>1, <2>4, ReceiveKeeps
<1>7. CASE ReceiveCopy(f)
  <2>1. /\ UNCHANGED <<PMTU, receiver, sent, fragID>>
        /\ result' = "needResource" /\ reassembled' = <<>> /\ list' = list
    BY <1>7 DEF ReceiveCopy, NeedResource
  <2>2. /\ list' \in Seq(Fragment) /\ PartInv(list') /\ result' \in Results
        /\ reassembled' \in Seq(Fragment) /\ result' # "invalidFormat" /\ result' # "message"
    <3>1. result' \in Results /\ result' # "invalidFormat" /\ result' # "message"
      BY <2>1 DEF Results
    <3>2. PartInv(list')
      <4> HIDE DEF PartInv
      <4> QED BY <2>1, <1>2
    <3> QED BY <3>1, <3>2, <2>1, <1>2
  <2> QED BY <2>1, <2>2, ReceiveKeeps
<1>8. CASE ReceiveFragment(f)
  <2> DEFINE l == Collect(f)
             pieces == Pieces(l)
             Missing == TotalSize(l) = 0 \/ CurrentSize(l) # TotalSize(l)
  <2>1. /\ f.isFragment /\ ~ InList(f) /\ UNCHANGED <<PMTU, receiver, sent, fragID>>
        /\ IF Missing THEN NeedResource(l)
           ELSE IF pieces # <<>> THEN Returns("message", pieces, <<>>)
           ELSE Returns("invalidFormat", <<>>, <<>>)
    BY <1>8 DEF ReceiveFragment
  <2>2. Num(k) > 1
    BY <2>1, <1>5
  <2>3. l \in Seq(Fragment)
    <3>1. <<f>> \in Seq(Fragment)
      BY <1>5
    <3>2. <<f>> \o list \in Seq(Fragment)
      BY <3>1, <1>2, ConcatProperties
    <3> QED BY <3>1, <3>2 DEF Collect
  <2>4. pieces \in Seq(Fragment)
    <3> HIDE DEF l
    <3> QED BY <2>3, PiecesType
  <2>5. ASSUME NotWrapped PROVE PartOf(l, k)
    BY <2>1, <2>2, <2>5, <1>1, <1>4, CollectedPart
  <2> HIDE DEF l
  <2>6. ASSUME NotWrapped
        PROVE  /\ ~ Missing <=> Complete(l, k)
               /\ ~ Missing => pieces = m /\ pieces # <<>>
    <3>1. PartOf(l, k)
      BY <2>5, <2>6
    <3>2. /\ TotalSize(l) \in {0, L} /\ (Complete(l, k) => TotalSize(l) = L)
          /\ (CurrentSize(l) = L <=> Complete(l, k))
      BY <3>1, <2>2, <1>1, TotalIsLength, SizesAgree
    <3>3. L # 0
      BY <1>1, SentType
    <3>4. ~ Missing <=> Complete(l, k)
      <4> HIDE DEF L
      <4> QED BY <3>2, <3>3
    <3>5. Complete(l, k) => pieces = m
      BY <3>1, <2>2, <1>1, CompletePieces
    <3>6. m # <<>>
      <4>1. Len(m) # 0 /\ Len(<<>>) = 0
        BY <1>5
      <4> HIDE DEF m
      <4> QED BY <4>1
    <3> HIDE DEF Missing, pieces, m
    <3> QED BY <3>4, <3>5, <3>6
  <2> HIDE DEF Missing, pieces, m
  <2>7. CASE Missing
    <3>1. result' = "needResource" /\ reassembled' = <<>> /\ list' = l
      BY <2>1, <2>7 DEF NeedResource
    <3>2. PartInv(list')
      BY <3>1, <2>2, <2>5, <2>6, <2>7
    <3>3. result' \in Results /\ result' # "invalidFormat" /\ result' # "message"
      BY <3>1 DEF Results
    <3> QED BY <3>1, <3>2, <3>3, <2>1, <2>3, <1>2, ReceiveKeeps
  <2>8. CASE ~ Missing
    <3>1. list' = <<>> /\ result' \in {"message", "invalidFormat"} /\ reassembled' \in {pieces, <<>>}
      BY <2>1, <2>8 DEF Returns
    <3>2. ASSUME NotWrapped
          PROVE  result' = "message" /\ reassembled' = CWAssembleMessage(k)
      <4>1. pieces = m /\ pieces # <<>>
        BY <3>2, <2>6, <2>8
      <4> QED BY <4>1, <2>1, <2>8 DEF Returns, m
    <3>3. /\ list' \in Seq(Fragment) /\ reassembled' \in Seq(Fragment) /\ result' \in Results
      BY <3>1, <2>4, <1>2 DEF Results
    <3>4. PartInv(list')
      BY <3>1
    <3> QED BY <3>2, <3>3, <3>4, <2>1, ReceiveKeeps
  <2> QED BY <2>7, <2>8
<1> QED BY <1>6, <1>7, <1>8 DEF Receive

LEMMA FragmentsNextInv == FragmentsInv /\ [FragmentsNext]_fragmentsVars => FragmentsInv'
<1> SUFFICES ASSUME FragmentsInv, [FragmentsNext]_fragmentsVars PROVE FragmentsInv'
  OBVIOUS
<1>1. ASSUME NEW length \in Lengths, Send(length) PROVE FragmentsInv'
  BY <1>1, SendInv
<1>2. ASSUME NEW f \in Packets, Receive(f) PROVE FragmentsInv'
  BY <1>2, ReceiveInv
<1>3. CASE UNCHANGED fragmentsVars
  <2>1. UNCHANGED <<PMTU, receiver, sent, fragID, list, result, reassembled>>
    BY <1>3 DEF fragmentsVars
  <2>2. /\ list' \in Seq(Fragment) /\ result' \in Results /\ reassembled' \in Seq(Fragment)
    BY <2>1 DEF FragmentsInv, TypeInv, FragmentsTypeOK
  <2>3. /\ NotWrapped /\ list' # <<>> =>
             \E k \in DOMAIN sent : Num(k) > 1 /\ PartOf(list', k) /\ ~ Complete(list', k)
        /\ NotWrapped => result' # "invalidFormat"
        /\ NotWrapped /\ result' = "message" =>
             \E k \in DOMAIN sent : reassembled' = CWAssembleMessage(k)
    BY <2>1 DEF FragmentsInv, ListInv, ReturnedWasSent
  <2> QED BY <2>1, <2>2, <2>3, ReceiveKeeps
<1> QED BY <1>1, <1>2, <1>3 DEF FragmentsNext

(* The inductive invariant holds. *)
THEOREM FragmentsInvariance == FragmentsSpec => []FragmentsInv
<1> QED BY FragmentsInitInv, FragmentsNextInv, PTL DEF FragmentsSpec

(* Every variable of Fragments has its type: no list of fragments, however it  *)
(* was lost, repeated and reordered, takes a value the code does not expect.   *)
THEOREM FragmentsTypeCorrect == FragmentsSpec => []FragmentsTypeOK
<1>1. FragmentsInv => FragmentsTypeOK
  BY DEF FragmentsInv, TypeInv
<1> QED BY <1>1, FragmentsInvariance, PTL

(* A message that CWProtocolParseFragment returns is one that was sent, whole  *)
(* and in order, whatever the network loses, repeats or reorders.              *)
THEOREM MessagesAreWhole == FragmentsSpec => []ReturnedWasSent
<1>1. FragmentsInv => ReturnedWasSent
  BY DEF FragmentsInv
<1> QED BY <1>1, FragmentsInvariance, PTL

(* No message stays complete in the list: the fragment that completes it       *)
(* returns it.                                                                 *)
THEOREM NoMessageIsHeldBack == FragmentsSpec => []CompleteIsReturned
<1>1. FragmentsInv => CompleteIsReturned
  <2> SUFFICES ASSUME FragmentsInv, NotWrapped, NEW k \in DOMAIN sent, Complete(list, k)
               PROVE  FALSE
    BY DEF CompleteIsReturned, Complete
  <2>1. TypeInv /\ ListInv
    BY DEF FragmentsInv
  <2>2. DOMAIN CWAssembleMessage(k) = 1 .. Num(k) /\ Num(k) \in Nat \ {0}
    BY <2>1, Assembled
  <2>3. 1 \in 1 .. Num(k)
    BY <2>2
  <2>4. CWAssembleMessage(k)[1] \in ToSet(list) /\ CWAssembleMessage(k)[1].msg = k
    <3>1. CWAssembleMessage(k)[1] \in ToSet(CWAssembleMessage(k))
      BY <2>2, <2>3 DEF ToSet
    <3>2. CWAssembleMessage(k)[1].msg = k
      BY <2>1, <2>3, Assembled
    <3> QED BY <3>1, <3>2 DEF Complete
  <2>5. list # <<>>
    BY <2>4, EmptySeq DEF ToSet
  <2>6. PICK j \in DOMAIN sent : PartOf(list, j) /\ ~ Complete(list, j)
    BY <2>1, <2>5 DEF ListInv
  <2>7. CWAssembleMessage(k)[1] \in ToSet(CWAssembleMessage(j))
    <3>1. DOMAIN list = 1 .. Len(list)
      BY <2>6, LenProperties DEF PartOf
    <3> QED BY <3>1, <2>4, <2>6 DEF PartOf, ToSet
  <2>8. DOMAIN CWAssembleMessage(j) = 1 .. Num(j)
    BY <2>1, Assembled
  <2>9. PICK x \in 1 .. Num(j) : CWAssembleMessage(k)[1] = CWAssembleMessage(j)[x]
    BY <2>7, <2>8 DEF ToSet
  <2>10. CWAssembleMessage(j)[x].msg = j
    BY <2>1, Assembled
  <2>11. k = j
    BY <2>4, <2>9, <2>10
  <2> QED BY <2>6, <2>11
<1> QED BY <1>1, FragmentsInvariance, PTL

-----------------------------------------------------------------------------
(* ACDispatcher.                                                           *)

(* The slot the main thread works on has the address of the sender. *)
SlotOfSender ==
  main \in {"known", "claimed", "listed", "created"} => address[slot] = sender.address

IInv ==
  /\ TypeOK
  /\ SlotOwnership
  /\ PacketsOfOneWTP
  /\ SlotOfSender
  /\ NoGhostSessions

USE DispatcherAssumption

-----------------------------------------------------------------------------
(* The slots are finitely many. *)
LEMMA SlotsFinite == IsFiniteSet(Slots)
<1> QED BY FS_Interval DEF Slots

(* So are the counted ones. *)
LEMMA CountedFinite == IsFiniteSet(Counted) /\ Cardinality(Counted) \in Nat
<1>1. Counted \subseteq Slots
  BY DEF Counted
<1>2. IsFiniteSet(Counted)
  BY <1>1, SlotsFinite, FS_Subset
<1> QED BY <1>2, FS_CardinalityType

(* A step that leaves the counter alone and takes no session out of Counted *)
(* keeps the counter honest.                                                *)
LEMMA CountKept ==
  ASSUME TypeOK, NoGhostSessions, gActiveWTPs' = gActiveWTPs,
         Counted' = Counted \/ (\E s \in Slots : s \notin Counted /\ Counted' = Counted \union {s})
  PROVE  NoGhostSessions'
<1>1. CASE Counted' = Counted
  BY <1>1, CountedFinite DEF NoGhostSessions
<1>2. ASSUME NEW s \in Slots, s \notin Counted, Counted' = Counted \union {s}
      PROVE  NoGhostSessions'
  <2>1. Cardinality(Counted \union {s}) = Cardinality(Counted) + 1
    BY <1>2, CountedFinite, FS_AddElement
  <2>2. Cardinality(Counted') = Cardinality(Counted) + 1
    BY ONLY <2>1, <1>2
  <2>3. gActiveWTPs \in Int /\ gActiveWTPs <= Cardinality(Counted)
    BY DEF TypeOK, NoGhostSessions
  <2>4. gActiveWTPs' <= Cardinality(Counted')
    BY <2>2, <2>3, CountedFinite
  <2> QED BY <2>4 DEF NoGhostSessions
<1> QED BY <1>1, <1>2

(* The initial states satisfy the inductive invariant. *)
LEMMA InitInv == Init => IInv
<1> SUFFICES ASSUME Init PROVE IInv
  OBVIOUS
<1>1. TypeOK
  <2>1. slot \in Slots /\ main \in MainPlaces /\ failures \in 0 .. MaxStartFailures
    BY DEF Init, Slots, MainPlaces
  <2>2. gActiveWTPs \in Int /\ thread \in [Slots -> ThreadPlaces]
    BY DEF Init, ThreadPlaces
  <2> QED BY <2>1, <2>2 DEF Init, TypeOK
<1>2. SlotOwnership /\ PacketsOfOneWTP /\ SlotOfSender
  BY DEF Init, SlotOwnership, PacketsOfOneWTP, SlotOfSender
<1>3. NoGhostSessions
  BY CountedFinite DEF Init, NoGhostSessions
<1> QED BY <1>1, <1>2, <1>3 DEF IInv

(* Every step preserves it, action by action. *)
LEMMA NextInv == IInv /\ [Next]_vars => IInv'
<1> SUFFICES ASSUME IInv, [Next]_vars PROVE IInv'
  OBVIOUS
<1>1. ASSUME NEW w \in Senders, LookupKnown(w)
      PROVE  IInv'
  <2>1. TypeOK'
    BY <1>1 DEF LookupKnown, Serves, mainVars, slotVars, listVars, threadVars, IInv, TypeOK, MainPlaces, ThreadPlaces, Senders
  <2>2. SlotOwnership'
    BY <1>1 DEF LookupKnown, Serves, mainVars, slotVars, listVars, threadVars, IInv, TypeOK, SlotOwnership
  <2>3. PacketsOfOneWTP'
    BY <1>1 DEF LookupKnown, Serves, mainVars, slotVars, listVars, threadVars, IInv, TypeOK, SlotOwnership, PacketsOfOneWTP, SlotOfSender, Senders
  <2>4. SlotOfSender'
    BY <1>1 DEF LookupKnown, Serves, mainVars, slotVars, listVars, threadVars, IInv, TypeOK, SlotOfSender, Senders
  <2>5. NoGhostSessions'
    <3>1. Counted' = Counted /\ gActiveWTPs' = gActiveWTPs
      BY <1>1 DEF LookupKnown, Serves, mainVars, slotVars, listVars, threadVars, Counted, IInv, TypeOK
    <3> QED BY <3>1, CountKept DEF IInv
  <2> QED BY <2>1, <2>2, <2>3, <2>4, <2>5 DEF IInv
<1>2. ASSUME NEW w \in Senders, LookupUnknown(w)
      PROVE  IInv'
  <2>1. TypeOK'
    BY <1>2 DEF LookupUnknown, mainVars, slotVars, listVars, threadVars, IInv, TypeOK, MainPlaces, ThreadPlaces, Senders
  <2>2. SlotOwnership'
    BY <1>2 DEF LookupUnknown, mainVars, slotVars, listVars, threadVars, IInv, TypeOK, SlotOwnership
  <2>3. PacketsOfOneWTP'
    BY <1>2 DEF LookupUnknown, mainVars, slotVars, listVars, threadVars, IInv, TypeOK, SlotOwnership, PacketsOfOneWTP, SlotOfSender, Senders
  <2>4. SlotOfSender'
    BY <1>2 DEF LookupUnknown, mainVars, slotVars, listVars, threadVars, IInv, TypeOK, SlotOfSender, Senders
  <2>5. NoGhostSessions'
    <3>1. Counted' = Counted /\ gActiveWTPs' = gActiveWTPs
      BY <1>2 DEF LookupUnknown, mainVars, slotVars, listVars, threadVars, Counted, IInv, TypeOK
    <3> QED BY <3>1, CountKept DEF IInv
  <2> QED BY <2>1, <2>2, <2>3, <2>4, <2>5 DEF IInv
<1>3. CASE AppendPacket
  <2>1. TypeOK'
    BY <1>3 DEF AppendPacket, mainVars, slotVars, listVars, threadVars, IInv, TypeOK, MainPlaces, ThreadPlaces, Senders
  <2>2. SlotOwnership'
    BY <1>3 DEF AppendPacket, mainVars, slotVars, listVars, threadVars, IInv, TypeOK, SlotOwnership
  <2>3. PacketsOfOneWTP'
    BY <1>3 DEF AppendPacket, mainVars, slotVars, listVars, threadVars, IInv, TypeOK, SlotOwnership, PacketsOfOneWTP, SlotOfSender, Senders
  <2>4. SlotOfSender'
    BY <1>3 DEF AppendPacket, mainVars, slotVars, listVars, threadVars, IInv, TypeOK, SlotOfSender, Senders
  <2>5. NoGhostSessions'
    <3>1. Counted' = Counted /\ gActiveWTPs' = gActiveWTPs
      BY <1>3 DEF AppendPacket, mainVars, slotVars, listVars, threadVars, Counted, IInv, TypeOK
    <3> QED BY <3>1, CountKept DEF IInv
  <2> QED BY <2>1, <2>2, <2>3, <2>4, <2>5 DEF IInv
<1>4. CASE NoSession
  <2>1. TypeOK'
    BY <1>4 DEF NoSession, mainVars, slotVars, listVars, threadVars, IInv, TypeOK, MainPlaces, ThreadPlaces, Senders
  <2>2. SlotOwnership'
    BY <1>4 DEF NoSession, mainVars, slotVars, listVars, threadVars, IInv, TypeOK, SlotOwnership
  <2>3. PacketsOfOneWTP'
    BY <1>4 DEF NoSession, mainVars, slotVars, listVars, threadVars, IInv, TypeOK, SlotOwnership, PacketsOfOneWTP, SlotOfSender, Senders
  <2>4. SlotOfSender'
    BY <1>4 DEF NoSession, mainVars, slotVars, listVars, threadVars, IInv, TypeOK, SlotOfSender, Senders
  <2>5. NoGhostSessions'
    <3>1. Counted' = Counted /\ gActiveWTPs' = gActiveWTPs
      BY <1>4 DEF NoSession, mainVars, slotVars, listVars, threadVars, Counted, IInv, TypeOK
    <3> QED BY <3>1, CountKept DEF IInv
  <2> QED BY <2>1, <2>2, <2>3, <2>4, <2>5 DEF IInv
<1>5. CASE Admit
  <2>1. TypeOK'
    BY <1>5 DEF Admit, mainVars, slotVars, listVars, threadVars, IInv, TypeOK, MainPlaces, ThreadPlaces, Senders
  <2>2. SlotOwnership'
    BY <1>5 DEF Admit, mainVars, slotVars, listVars, threadVars, IInv, TypeOK, SlotOwnership
  <2>3. PacketsOfOneWTP'
    BY <1>5 DEF Admit, mainVars, slotVars, listVars, threadVars, IInv, TypeOK, SlotOwnership, PacketsOfOneWTP, SlotOfSender, Senders
  <2>4. SlotOfSender'
    BY <1>5 DEF Admit, mainVars, slotVars, listVars, threadVars, IInv, TypeOK, SlotOfSender, Senders
  <2>5. NoGhostSessions'
    <3>1. Counted' = Counted /\ gActiveWTPs' = gActiveWTPs
      BY <1>5 DEF Admit, mainVars, slotVars, listVars, threadVars, Counted, IInv, TypeOK
    <3> QED BY <3>1, CountKept DEF IInv
  <2> QED BY <2>1, <2>2, <2>3, <2>4, <2>5 DEF IInv
<1>6. CASE Claim
  <2>1. TypeOK'
    BY <1>6 DEF Claim, Take, mainVars, slotVars, listVars, threadVars, IInv, TypeOK, MainPlaces, ThreadPlaces, Senders
  <2>2. SlotOwnership'
    BY <1>6 DEF Claim, Take, mainVars, slotVars, listVars, threadVars, IInv, TypeOK, SlotOwnership
  <2>3. PacketsOfOneWTP'
    BY <1>6 DEF Claim, Take, mainVars, slotVars, listVars, threadVars, IInv, TypeOK, SlotOwnership, PacketsOfOneWTP, SlotOfSender, Senders
  <2>4. SlotOfSender'
    BY <1>6 DEF Claim, Take, mainVars, slotVars, listVars, threadVars, IInv, TypeOK, SlotOfSender, Senders
  <2>5. NoGhostSessions'
    <3>1. Counted' = Counted /\ gActiveWTPs' = gActiveWTPs
      BY <1>6 DEF Claim, Take, mainVars, slotVars, listVars, threadVars, Counted, IInv, TypeOK
    <3> QED BY <3>1, CountKept DEF IInv
  <2> QED BY <2>1, <2>2, <2>3, <2>4, <2>5 DEF IInv
<1>7. CASE ClaimOverflow
  <2>1. TypeOK'
    BY <1>7 DEF ClaimOverflow, mainVars, slotVars, listVars, threadVars, IInv, TypeOK, MainPlaces, ThreadPlaces, Senders
  <2>2. SlotOwnership'
    BY <1>7 DEF ClaimOverflow, mainVars, slotVars, listVars, threadVars, IInv, TypeOK, SlotOwnership
  <2>3. PacketsOfOneWTP'
    BY <1>7 DEF ClaimOverflow, mainVars, slotVars, listVars, threadVars, IInv, TypeOK, SlotOwnership, PacketsOfOneWTP, SlotOfSender, Senders
  <2>4. SlotOfSender'
    BY <1>7 DEF ClaimOverflow, mainVars, slotVars, listVars, threadVars, IInv, TypeOK, SlotOfSender, Senders
  <2>5. NoGhostSessions'
    <3>1. Counted' = Counted /\ gActiveWTPs' = gActiveWTPs
      BY <1>7 DEF ClaimOverflow, mainVars, slotVars, listVars, threadVars, Counted, IInv, TypeOK
    <3> QED BY <3>1, CountKept DEF IInv
  <2> QED BY <2>1, <2>2, <2>3, <2>4, <2>5 DEF IInv
<1>8. CASE CreateList
  <2>1. TypeOK'
    BY <1>8 DEF CreateList, mainVars, slotVars, listVars, threadVars, IInv, TypeOK, MainPlaces, ThreadPlaces, Senders
  <2>2. SlotOwnership'
    BY <1>8 DEF CreateList, mainVars, slotVars, listVars, threadVars, IInv, TypeOK, SlotOwnership
  <2>3. PacketsOfOneWTP'
    BY <1>8 DEF CreateList, mainVars, slotVars, listVars, threadVars, IInv, TypeOK, SlotOwnership, PacketsOfOneWTP, SlotOfSender, Senders
  <2>4. SlotOfSender'
    BY <1>8 DEF CreateList, mainVars, slotVars, listVars, threadVars, IInv, TypeOK, SlotOfSender, Senders
  <2>5. NoGhostSessions'
    <3>1. Counted' = Counted /\ gActiveWTPs' = gActiveWTPs
      BY <1>8 DEF CreateList, mainVars, slotVars, listVars, threadVars, Counted, IInv, TypeOK
    <3> QED BY <3>1, CountKept DEF IInv
  <2> QED BY <2>1, <2>2, <2>3, <2>4, <2>5 DEF IInv
<1>9. CASE CreateListFails
  <2>1. TypeOK'
    BY <1>9 DEF CreateListFails, mainVars, slotVars, listVars, threadVars, IInv, TypeOK, MainPlaces, ThreadPlaces, Senders
  <2>2. SlotOwnership'
    BY <1>9 DEF CreateListFails, mainVars, slotVars, listVars, threadVars, IInv, TypeOK, SlotOwnership
  <2>3. PacketsOfOneWTP'
    BY <1>9 DEF CreateListFails, mainVars, slotVars, listVars, threadVars, IInv, TypeOK, SlotOwnership, PacketsOfOneWTP, SlotOfSender, Senders
  <2>4. SlotOfSender'
    BY <1>9 DEF CreateListFails, mainVars, slotVars, listVars, threadVars, IInv, TypeOK, SlotOfSender, Senders
  <2>5. NoGhostSessions'
    <3>1. Counted' = Counted /\ gActiveWTPs' = gActiveWTPs
      BY <1>9 DEF CreateListFails, mainVars, slotVars, listVars, threadVars, Counted, IInv, TypeOK
    <3> QED BY <3>1, CountKept DEF IInv
  <2> QED BY <2>1, <2>2, <2>3, <2>4, <2>5 DEF IInv
<1>10. CASE CreateThread
  <2>1. TypeOK'
    BY <1>10 DEF CreateThread, mainVars, slotVars, listVars, threadVars, IInv, TypeOK, MainPlaces, ThreadPlaces, Senders
  <2>2. SlotOwnership'
    BY <1>10 DEF CreateThread, mainVars, slotVars, listVars, threadVars, IInv, TypeOK, SlotOwnership
  <2>3. PacketsOfOneWTP'
    BY <1>10 DEF CreateThread, mainVars, slotVars, listVars, threadVars, IInv, TypeOK, SlotOwnership, PacketsOfOneWTP, SlotOfSender, Senders
  <2>4. SlotOfSender'
    BY <1>10 DEF CreateThread, mainVars, slotVars, listVars, threadVars, IInv, TypeOK, SlotOfSender, Senders
  <2>5. NoGhostSessions'
    <3>1. Counted' = Counted /\ gActiveWTPs' = gActiveWTPs
      BY <1>10 DEF CreateThread, mainVars, slotVars, listVars, threadVars, Counted, IInv, TypeOK, SlotOwnership
    <3> QED BY <3>1, CountKept DEF IInv
  <2> QED BY <2>1, <2>2, <2>3, <2>4, <2>5 DEF IInv
<1>11. CASE CreateArgFails
  <2>1. TypeOK'
    BY <1>11 DEF CreateArgFails, mainVars, slotVars, listVars, threadVars, IInv, TypeOK, MainPlaces, ThreadPlaces, Senders
  <2>2. SlotOwnership'
    BY <1>11 DEF CreateArgFails, mainVars, slotVars, listVars, threadVars, IInv, TypeOK, SlotOwnership
  <2>3. PacketsOfOneWTP'
    BY <1>11 DEF CreateArgFails, mainVars, slotVars, listVars, threadVars, IInv, TypeOK, SlotOwnership, PacketsOfOneWTP, SlotOfSender, Senders
  <2>4. SlotOfSender'
    BY <1>11 DEF CreateArgFails, mainVars, slotVars, listVars, threadVars, IInv, TypeOK, SlotOfSender, Senders
  <2>5. NoGhostSessions'
    <3>1. Counted' = Counted /\ gActiveWTPs' = gActiveWTPs
      BY <1>11 DEF CreateArgFails, mainVars, slotVars, listVars, threadVars, Counted, IInv, TypeOK
    <3> QED BY <3>1, CountKept DEF IInv
  <2> QED BY <2>1, <2>2, <2>3, <2>4, <2>5 DEF IInv
<1>12. CASE CreateThreadFails
  <2>1. TypeOK'
    BY <1>12 DEF CreateThreadFails, mainVars, slotVars, listVars, threadVars, IInv, TypeOK, MainPlaces, ThreadPlaces, Senders
  <2>2. SlotOwnership'
    BY <1>12 DEF CreateThreadFails, mainVars, slotVars, listVars, threadVars, IInv, TypeOK, SlotOwnership
  <2>3. PacketsOfOneWTP'
    BY <1>12 DEF CreateThreadFails, mainVars, slotVars, listVars, threadVars, IInv, TypeOK, SlotOwnership, PacketsOfOneWTP, SlotOfSender, Senders
  <2>4. SlotOfSender'
    BY <1>12 DEF CreateThreadFails, mainVars, slotVars, listVars, threadVars, IInv, TypeOK, SlotOfSender, Senders
  <2>5. NoGhostSessions'
    <3>1. Counted' = Counted /\ gActiveWTPs' = gActiveWTPs
      BY <1>12 DEF CreateThreadFails, mainVars, slotVars, listVars, threadVars, Counted, IInv, TypeOK
    <3> QED BY <3>1, CountKept DEF IInv
  <2> QED BY <2>1, <2>2, <2>3, <2>4, <2>5 DEF IInv
<1>13. ASSUME NEW s \in Slots, Count(s)
      PROVE  IInv'
  <2>1. TypeOK'
    BY <1>13 DEF Count, mainVars, slotVars, listVars, threadVars, IInv, TypeOK, MainPlaces, ThreadPlaces, Senders
  <2>2. SlotOwnership'
    BY <1>13 DEF Count, mainVars, slotVars, listVars, threadVars, IInv, TypeOK, SlotOwnership
  <2>3. PacketsOfOneWTP'
    BY <1>13 DEF Count, mainVars, slotVars, listVars, threadVars, IInv, TypeOK, SlotOwnership, PacketsOfOneWTP, SlotOfSender, Senders
  <2>4. SlotOfSender'
    BY <1>13 DEF Count, mainVars, slotVars, listVars, threadVars, IInv, TypeOK, SlotOfSender, Senders
  <2>5. NoGhostSessions'
    <3>1. s \notin Counted
      BY <1>13 DEF Count, Counted
    <3>2. Counted' = Counted \union {s}
      BY <1>13 DEF Count, Counted, IInv, TypeOK
    <3>3. Cardinality(Counted') = Cardinality(Counted) + 1
      BY <3>1, <3>2, CountedFinite, FS_AddElement
    <3>4. gActiveWTPs' = gActiveWTPs + 1
      BY <1>13 DEF Count
    <3>5. gActiveWTPs \in Int /\ gActiveWTPs <= Cardinality(Counted)
      BY DEF IInv, TypeOK, NoGhostSessions
    <3>6. gActiveWTPs' <= Cardinality(Counted')
      BY <3>3, <3>4, <3>5, CountedFinite
    <3> QED BY <3>6 DEF NoGhostSessions
  <2> QED BY <2>1, <2>2, <2>3, <2>4, <2>5 DEF IInv
<1>14. ASSUME NEW s \in Slots, StartFails(s)
      PROVE  IInv'
  <2>1. TypeOK'
    BY <1>14 DEF StartFails, mainVars, slotVars, listVars, threadVars, IInv, TypeOK, MainPlaces, ThreadPlaces, Senders
  <2>2. SlotOwnership'
    BY <1>14 DEF StartFails, mainVars, slotVars, listVars, threadVars, IInv, TypeOK, SlotOwnership
  <2>3. PacketsOfOneWTP'
    BY <1>14 DEF StartFails, mainVars, slotVars, listVars, threadVars, IInv, TypeOK, SlotOwnership, PacketsOfOneWTP, SlotOfSender, Senders
  <2>4. SlotOfSender'
    BY <1>14 DEF StartFails, mainVars, slotVars, listVars, threadVars, IInv, TypeOK, SlotOfSender, Senders
  <2>5. NoGhostSessions'
    <3>1. s \notin Counted /\ Counted' = Counted \union {s}
      BY <1>14 DEF StartFails, Counted, IInv, TypeOK
    <3>2. gActiveWTPs' = gActiveWTPs
      BY <1>14 DEF StartFails
    <3> QED BY <3>1, <3>2, CountKept DEF IInv
  <2> QED BY <2>1, <2>2, <2>3, <2>4, <2>5 DEF IInv
<1>15. ASSUME NEW s \in Slots, SetSocket(s)
      PROVE  IInv'
  <2>1. TypeOK'
    BY <1>15 DEF SetSocket, mainVars, slotVars, listVars, threadVars, IInv, TypeOK, MainPlaces, ThreadPlaces, Senders
  <2>2. SlotOwnership'
    BY <1>15 DEF SetSocket, mainVars, slotVars, listVars, threadVars, IInv, TypeOK, SlotOwnership
  <2>3. PacketsOfOneWTP'
    BY <1>15 DEF SetSocket, mainVars, slotVars, listVars, threadVars, IInv, TypeOK, SlotOwnership, PacketsOfOneWTP, SlotOfSender, Senders
  <2>4. SlotOfSender'
    BY <1>15 DEF SetSocket, mainVars, slotVars, listVars, threadVars, IInv, TypeOK, SlotOfSender, Senders
  <2>5. NoGhostSessions'
    <3>1. Counted' = Counted /\ gActiveWTPs' = gActiveWTPs
      BY <1>15 DEF SetSocket, mainVars, slotVars, listVars, threadVars, Counted, IInv, TypeOK
    <3> QED BY <3>1, CountKept DEF IInv
  <2> QED BY <2>1, <2>2, <2>3, <2>4, <2>5 DEF IInv
<1>16. ASSUME NEW s \in Slots, ServePackets(s)
      PROVE  IInv'
  <2>1. TypeOK'
    BY <1>16 DEF ServePackets, mainVars, slotVars, listVars, threadVars, IInv, TypeOK, MainPlaces, ThreadPlaces, Senders
  <2>2. SlotOwnership'
    BY <1>16 DEF ServePackets, mainVars, slotVars, listVars, threadVars, IInv, TypeOK, SlotOwnership
  <2>3. PacketsOfOneWTP'
    BY <1>16 DEF ServePackets, mainVars, slotVars, listVars, threadVars, IInv, TypeOK, SlotOwnership, PacketsOfOneWTP, SlotOfSender, Senders
  <2>4. SlotOfSender'
    BY <1>16 DEF ServePackets, mainVars, slotVars, listVars, threadVars, IInv, TypeOK, SlotOfSender, Senders
  <2>5. NoGhostSessions'
    <3>1. Counted' = Counted /\ gActiveWTPs' = gActiveWTPs
      BY <1>16 DEF ServePackets, mainVars, slotVars, listVars, threadVars, Counted, IInv, TypeOK
    <3> QED BY <3>1, CountKept DEF IInv
  <2> QED BY <2>1, <2>2, <2>3, <2>4, <2>5 DEF IInv
<1>17. ASSUME NEW s \in Slots, EndSession(s)
      PROVE  IInv'
  <2>1. TypeOK'
    BY <1>17 DEF EndSession, mainVars, slotVars, listVars, threadVars, IInv, TypeOK, MainPlaces, ThreadPlaces, Senders
  <2>2. SlotOwnership'
    BY <1>17 DEF EndSession, mainVars, slotVars, listVars, threadVars, IInv, TypeOK, SlotOwnership
  <2>3. PacketsOfOneWTP'
    BY <1>17 DEF EndSession, mainVars, slotVars, listVars, threadVars, IInv, TypeOK, SlotOwnership, PacketsOfOneWTP, SlotOfSender, Senders
  <2>4. SlotOfSender'
    BY <1>17 DEF EndSession, mainVars, slotVars, listVars, threadVars, IInv, TypeOK, SlotOfSender, Senders
  <2>5. NoGhostSessions'
    <3>1. Counted' = Counted /\ gActiveWTPs' = gActiveWTPs
      BY <1>17 DEF EndSession, mainVars, slotVars, listVars, threadVars, Counted, IInv, TypeOK
    <3> QED BY <3>1, CountKept DEF IInv
  <2> QED BY <2>1, <2>2, <2>3, <2>4, <2>5 DEF IInv
<1>18. ASSUME NEW s \in Slots, Uncount(s)
      PROVE  IInv'
  <2>1. TypeOK'
    BY <1>18 DEF Uncount, mainVars, slotVars, listVars, threadVars, IInv, TypeOK, MainPlaces, ThreadPlaces, Senders
  <2>2. SlotOwnership'
    BY <1>18 DEF Uncount, mainVars, slotVars, listVars, threadVars, IInv, TypeOK, SlotOwnership
  <2>3. PacketsOfOneWTP'
    BY <1>18 DEF Uncount, mainVars, slotVars, listVars, threadVars, IInv, TypeOK, SlotOwnership, PacketsOfOneWTP, SlotOfSender, Senders
  <2>4. SlotOfSender'
    BY <1>18 DEF Uncount, mainVars, slotVars, listVars, threadVars, IInv, TypeOK, SlotOfSender, Senders
  <2>5. NoGhostSessions'
    <3>1. s \in Counted
      BY <1>18 DEF Uncount, Counted
    <3>2. Counted' = Counted \ {s}
      BY <1>18 DEF Uncount, Counted, IInv, TypeOK
    <3>3. Cardinality(Counted') = Cardinality(Counted) - 1
      BY <3>1, <3>2, CountedFinite, FS_RemoveElement
    <3>4. gActiveWTPs' = gActiveWTPs - 1
      BY <1>18 DEF Uncount
    <3>5. gActiveWTPs \in Int /\ gActiveWTPs <= Cardinality(Counted)
      BY DEF IInv, TypeOK, NoGhostSessions
    <3>6. gActiveWTPs' <= Cardinality(Counted')
      BY <3>3, <3>4, <3>5, CountedFinite
    <3> QED BY <3>6 DEF NoGhostSessions
  <2> QED BY <2>1, <2>2, <2>3, <2>4, <2>5 DEF IInv
<1>19. ASSUME NEW s \in Slots, DestroyList(s)
      PROVE  IInv'
  <2>1. TypeOK'
    BY <1>19 DEF DestroyList, mainVars, slotVars, listVars, threadVars, IInv, TypeOK, MainPlaces, ThreadPlaces, Senders
  <2>2. SlotOwnership'
    BY <1>19 DEF DestroyList, mainVars, slotVars, listVars, threadVars, IInv, TypeOK, SlotOwnership
  <2>3. PacketsOfOneWTP'
    BY <1>19 DEF DestroyList, mainVars, slotVars, listVars, threadVars, IInv, TypeOK, SlotOwnership, PacketsOfOneWTP, SlotOfSender, Senders
  <2>4. SlotOfSender'
    BY <1>19 DEF DestroyList, mainVars, slotVars, listVars, threadVars, IInv, TypeOK, SlotOfSender, Senders
  <2>5. NoGhostSessions'
    <3>1. Counted' = Counted /\ gActiveWTPs' = gActiveWTPs
      BY <1>19 DEF DestroyList, mainVars, slotVars, listVars, threadVars, Counted, IInv, TypeOK
    <3> QED BY <3>1, CountKept DEF IInv
  <2> QED BY <2>1, <2>2, <2>3, <2>4, <2>5 DEF IInv
<1>20. ASSUME NEW s \in Slots, FreeSlot(s)
      PROVE  IInv'
  <2>1. TypeOK'
    BY <1>20 DEF FreeSlot, mainVars, slotVars, listVars, threadVars, IInv, TypeOK, MainPlaces, ThreadPlaces, Senders
  <2>2. SlotOwnership'
    BY <1>20 DEF FreeSlot, mainVars, slotVars, listVars, threadVars, IInv, TypeOK, SlotOwnership
  <2>3. PacketsOfOneWTP'
    BY <1>20 DEF FreeSlot, mainVars, slotVars, listVars, threadVars, IInv, TypeOK, SlotOwnership, PacketsOfOneWTP, SlotOfSender, Senders
  <2>4. SlotOfSender'
    BY <1>20 DEF FreeSlot, mainVars, slotVars, listVars, threadVars, IInv, TypeOK, SlotOfSender, Senders
  <2>5. NoGhostSessions'
    <3>1. Counted' = Counted /\ gActiveWTPs' = gActiveWTPs
      BY <1>20 DEF FreeSlot, mainVars, slotVars, listVars, threadVars, Counted, IInv, TypeOK
    <3> QED BY <3>1, CountKept DEF IInv
  <2> QED BY <2>1, <2>2, <2>3, <2>4, <2>5 DEF IInv
<1>21. CASE UNCHANGED vars
  BY <1>21 DEF vars, mainVars, slotVars, listVars, threadVars, IInv, TypeOK, SlotOwnership, PacketsOfOneWTP, SlotOfSender, NoGhostSessions, Counted
<1> QED BY <1>1, <1>2, <1>3, <1>4, <1>5, <1>6, <1>7, <1>8, <1>9, <1>10, <1>11, <1>12, <1>13, <1>14, <1>15, <1>16, <1>17, <1>18, <1>19, <1>20, <1>21 DEF Next, CWACManageIncomingPacket, CWManageWTP

-----------------------------------------------------------------------------
(* The inductive invariant holds in every reachable state. *)
THEOREM Invariance == Spec => []IInv
<1> QED BY InitInv, NextInv, PTL DEF Spec

(* Type correctness: the main thread works on a slot of the table. *)
THEOREM TypeCorrect == Spec => []TypeOK
<1>1. IInv => TypeOK
  BY DEF IInv
<1> QED BY <1>1, Invariance, PTL

(* A slot passes from one owner to the next: a free slot has neither thread *)
(* nor list, and a session keeps both until it frees them.                  *)
THEOREM SlotsAreOwned == Spec => []SlotOwnership
<1>1. IInv => SlotOwnership
  BY DEF IInv
<1> QED BY <1>1, Invariance, PTL

(* A session is given packets of its own WTP only. *)
THEOREM PacketsAreOwn == Spec => []PacketsOfOneWTP
<1>1. IInv => PacketsOfOneWTP
  BY DEF IInv
<1> QED BY <1>1, Invariance, PTL

(* The counter of active WTPs never counts a session that is gone. *)
THEOREM CountIsHonest == Spec => []NoGhostSessions
<1>1. IInv => NoGhostSessions
  BY DEF IInv
<1> QED BY <1>1, Invariance, PTL
=============================================================================
