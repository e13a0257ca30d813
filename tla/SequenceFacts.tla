---------------------------- MODULE SequenceFacts ----------------------------
(***************************************************************************)
(* What Append, Tail, SubSeq and RemoveAt keep and return, and how many    *)
(* items of one kind a sequence holds, in the form in which the proofs     *)
(* about the queues of this project cite it.                               *)
(***************************************************************************)
EXTENDS SequencesExt, SequenceTheorems, FiniteSetTheorems, WellFoundedInduction, TLAPS

\* The least of some numbers: where an induction over an index starts.
LEMMA LeastNumber ==
  ASSUME NEW T \in SUBSET Nat, T # {}
  PROVE  \E x \in T : \A y \in T : x <= y
<1>. DEFINE R == OpToRel(<, Nat)
<1>1. PICK x \in T : \A y \in T : <<y, x>> \notin R
  <2>. HIDE DEF R
  <2>. QED BY NatLessThanWellFounded, WFMin DEF R
<1>2. \A y \in T : x <= y
  <2>. SUFFICES ASSUME NEW y \in T, y < x PROVE FALSE
    OBVIOUS
  <2>1. <<y, x>> \in R
    BY DEF OpToRel
  <2>. QED BY <1>1, <2>1
<1>. QED BY <1>2

\* The greatest of some indices.
LEMMA GreatestNumber ==
  ASSUME NEW n \in Nat, NEW T \in SUBSET (1 .. n), T # {}
  PROVE  Max(T) \in T /\ \A y \in T : y <= Max(T)
<1>. DEFINE Rest == {n - x : x \in T}
<1>1. Rest \in SUBSET Nat /\ Rest # {}
  <2>1. \A x \in 1 .. n : n - x \in Nat
    OBVIOUS
  <2>. QED BY <2>1
<1>2. PICK z \in Rest : \A y \in Rest : z <= y
  <2>. HIDE DEF Rest
  <2>. QED BY <1>1, LeastNumber
<1>3. PICK x \in T : z = n - x
  BY <1>2
<1>4. \A y \in T : x >= y
  <2>. SUFFICES ASSUME NEW y \in T PROVE x >= y
    OBVIOUS
  <2>1. n - x <= n - y
    BY <1>2, <1>3
  <2>2. x \in 1 .. n /\ y \in 1 .. n
    OBVIOUS
  <2>. QED BY <2>1, <2>2
<1>5. Max(T) \in T /\ \A y \in T : Max(T) >= y
  BY <1>4 DEF Max
<1>. QED BY <1>5

\* A sequence with one element more at its end.
LEMMA AppendFacts ==
  ASSUME NEW S, NEW q \in Seq(S), NEW e \in S
  PROVE  /\ Append(q, e) \in Seq(S)
         /\ DOMAIN q = 1 .. Len(q) /\ Len(q) \in Nat
         /\ DOMAIN Append(q, e) = 1 .. (Len(q) + 1)
         /\ \A i \in 1 .. Len(q) : Append(q, e)[i] = q[i]
         /\ Append(q, e)[Len(q) + 1] = e
BY AppendProperties, LenProperties

\* What is behind the i-th element.
LEMMA SuffixFacts ==
  ASSUME NEW S, NEW q \in Seq(S), NEW i \in DOMAIN q
  PROVE  LET post == SubSeq(q, i + 1, Len(q)) IN
         /\ post \in Seq(S)
         /\ DOMAIN q = 1 .. Len(q) /\ Len(q) \in Nat
         /\ DOMAIN post = 1 .. (Len(q) - i)
         /\ \A j \in 1 .. (Len(q) - i) : post[j] = q[i + j]
<1>. DEFINE post == SubSeq(q, i + 1, Len(q))
<1>1. Len(q) \in Nat /\ DOMAIN q = 1 .. Len(q) /\ i \in 1 .. Len(q)
  BY LenProperties
<1>2. \A j \in (i + 1) .. Len(q) : q[j] \in S
  BY <1>1, ElementOfSeq
<1>3. /\ post \in Seq(S)
      /\ Len(post) = IF i + 1 <= Len(q) THEN Len(q) - (i + 1) + 1 ELSE 0
      /\ \A j \in 1 .. (Len(q) - (i + 1) + 1) : post[j] = q[(i + 1) + j - 1]
  BY <1>1, <1>2, SubSeqProperties
<1>4. Len(post) = Len(q) - i
  BY <1>1, <1>3
<1>5. DOMAIN post = 1 .. (Len(q) - i)
  BY <1>3, <1>4, LenProperties
<1>6. ASSUME NEW j \in 1 .. (Len(q) - i)
      PROVE  post[j] = q[i + j]
  <2>1. (i + 1) + j - 1 = i + j /\ j \in 1 .. (Len(q) - (i + 1) + 1)
    BY <1>1
  <2>. QED BY <2>1, <1>3
<1>. QED BY <1>1, <1>3, <1>5, <1>6

\* A sequence without its i-th element.
LEMMA RemoveAtFacts ==
  ASSUME NEW S, NEW q \in Seq(S), NEW i \in DOMAIN q
  PROVE  /\ RemoveAt(q, i) \in Seq(S)
         /\ DOMAIN q = 1 .. Len(q) /\ Len(q) \in Nat
         /\ DOMAIN RemoveAt(q, i) = 1 .. (Len(q) - 1)
         /\ \A j \in 1 .. (Len(q) - 1) :
               RemoveAt(q, i)[j] = IF j < i THEN q[j] ELSE q[j + 1]
<1>. DEFINE pre == SubSeq(q, 1, i - 1)
            post == SubSeq(q, i + 1, Len(q))
<1>1. Len(q) \in Nat /\ DOMAIN q = 1 .. Len(q) /\ i \in 1 .. Len(q)
  BY LenProperties
<1>2. \A j \in 1 .. Len(q) : q[j] \in S
  BY <1>1, ElementOfSeq
<1>3. /\ pre \in Seq(S) /\ Len(pre) = i - 1
      /\ \A j \in 1 .. (i - 1) : pre[j] = q[j]
  BY <1>1, <1>2, SubSeqProperties
<1>4. /\ post \in Seq(S) /\ Len(post) = Len(q) - i
      /\ \A j \in 1 .. (Len(q) - i) : post[j] = q[i + j]
  BY <1>1, SuffixFacts, LenProperties
<1>. HIDE DEF pre, post
<1>5. /\ pre \o post \in Seq(S)
      /\ Len(pre \o post) = Len(pre) + Len(post)
      /\ \A j \in 1 .. Len(pre) + Len(post) :
            (pre \o post)[j] = IF j <= Len(pre) THEN pre[j] ELSE post[j - Len(pre)]
  BY <1>3, <1>4, ConcatProperties
<1>6. DOMAIN (pre \o post) = 1 .. (Len(q) - 1)
  <2>1. Len(pre \o post) = Len(q) - 1
    BY <1>1, <1>3, <1>4, <1>5
  <2>. QED BY <2>1, <1>5, LenProperties
<1>7. \A j \in 1 .. (Len(q) - 1) :
         (pre \o post)[j] = IF j < i THEN q[j] ELSE q[j + 1]
  <2>. SUFFICES ASSUME NEW j \in 1 .. (Len(q) - 1)
                PROVE  (pre \o post)[j] = IF j < i THEN q[j] ELSE q[j + 1]
    OBVIOUS
  <2>1. CASE j < i
    BY <2>1, <1>1, <1>3, <1>4, <1>5
  <2>2. CASE ~(j < i)
    <3>0. j \in 1 .. Len(pre) + Len(post) /\ ~(j <= Len(pre)) /\ Len(pre) = i - 1
      BY <2>2, <1>1, <1>3, <1>4
    <3>1. (pre \o post)[j] = post[j - (i - 1)]
      BY <3>0, <1>5
    <3>2. post[j - (i - 1)] = q[i + (j - (i - 1))]
      BY <2>2, <1>1, <1>4
    <3>. QED BY <3>1, <3>2, <2>2, <1>1
  <2>. QED BY <2>1, <2>2
<1>8. RemoveAt(q, i) = pre \o post
  BY DEF RemoveAt, pre, post
<1>. QED BY <1>1, <1>5, <1>6, <1>7, <1>8

\* A sequence without its first element.
LEMMA TailFacts ==
  ASSUME NEW S, NEW q \in Seq(S), q # <<>>
  PROVE  /\ Head(q) \in S /\ Head(q) = q[1] /\ Tail(q) \in Seq(S)
         /\ DOMAIN q = 1 .. Len(q) /\ Len(q) \in Nat \ {0}
         /\ DOMAIN Tail(q) = 1 .. (Len(q) - 1)
         /\ \A j \in 1 .. (Len(q) - 1) : Tail(q)[j] = q[j + 1]
BY HeadTailProperties, LenProperties, EmptySeq

\* The empty sequence has every type.
LEMMA EmptySeqType == \A S : <<>> \in Seq(S)
BY EmptySeq

-----------------------------------------------------------------------------
\* Where q holds the items of one kind.
Places(q, kind) == {i \in DOMAIN q : q[i] \in kind}

LEMMA PlacesFinite ==
  ASSUME NEW S, NEW q \in Seq(S), NEW kind
  PROVE  IsFiniteSet(Places(q, kind)) /\ Cardinality(Places(q, kind)) \in Nat
<1>1. DOMAIN q = 1 .. Len(q) /\ Len(q) \in Nat
  BY LenProperties
<1>2. IsFiniteSet(DOMAIN q)
  BY <1>1, FS_Interval
<1>3. Places(q, kind) \in SUBSET DOMAIN q
  BY DEF Places
<1>4. IsFiniteSet(Places(q, kind))
  BY <1>2, <1>3, FS_Subset
<1>. QED BY <1>4, FS_CardinalityType

LEMMA NoPlaces == ASSUME NEW kind PROVE Cardinality(Places(<<>>, kind)) = 0
<1>1. Places(<<>>, kind) = {}
  BY DEF Places
<1>. QED BY <1>1, FS_EmptySet

\* An item more of the kind, or none.
LEMMA PlacesAppend ==
  ASSUME NEW S, NEW q \in Seq(S), NEW e \in S, NEW kind
  PROVE  Cardinality(Places(Append(q, e), kind))
           = IF e \in kind THEN Cardinality(Places(q, kind)) + 1
                           ELSE Cardinality(Places(q, kind))
<1>1. /\ DOMAIN q = 1 .. Len(q) /\ Len(q) \in Nat
      /\ DOMAIN Append(q, e) = 1 .. (Len(q) + 1)
      /\ \A i \in 1 .. Len(q) : Append(q, e)[i] = q[i]
      /\ Append(q, e)[Len(q) + 1] = e
  BY AppendFacts
<1>2. /\ 1 .. (Len(q) + 1) = (1 .. Len(q)) \cup {Len(q) + 1}
      /\ Len(q) + 1 \notin 1 .. Len(q)
  BY <1>1
<1>3. CASE e \in kind
  <2>1. Places(Append(q, e), kind) = Places(q, kind) \cup {Len(q) + 1}
    BY <1>1, <1>2, <1>3 DEF Places
  <2>2. Len(q) + 1 \notin Places(q, kind)
    BY <1>1, <1>2 DEF Places
  <2>. QED BY <1>3, <2>1, <2>2, PlacesFinite, FS_AddElement
<1>4. CASE e \notin kind
  <2>1. Places(Append(q, e), kind) = Places(q, kind)
    BY <1>1, <1>2, <1>4 DEF Places
  <2>. QED BY <1>4, <2>1
<1>. QED BY <1>3, <1>4

\* A suffix holds no more of a kind than the whole.
LEMMA PlacesSuffix ==
  ASSUME NEW S, NEW q \in Seq(S), NEW i \in DOMAIN q, NEW kind
  PROVE  Cardinality(Places(SubSeq(q, i + 1, Len(q)), kind)) <= Cardinality(Places(q, kind))
<1>. DEFINE post == SubSeq(q, i + 1, Len(q))
            at == [j \in Places(post, kind) |-> i + j]
<1>1. /\ DOMAIN q = 1 .. Len(q) /\ Len(q) \in Nat
      /\ DOMAIN post = 1 .. (Len(q) - i)
      /\ \A j \in 1 .. (Len(q) - i) : post[j] = q[i + j]
  BY SuffixFacts
<1>. HIDE DEF post
<1>2. \A j \in Places(post, kind) : i + j \in Places(q, kind)
  BY <1>1 DEF Places
<1>3. \A j, k \in Places(post, kind) : i + j = i + k => j = k
  BY <1>1 DEF Places
<1>4. at \in Injection(Places(post, kind), Places(q, kind))
  BY <1>2, <1>3 DEF Injection, IsInjective
<1>5. Cardinality(Places(post, kind)) <= Cardinality(Places(q, kind))
  BY <1>4, PlacesFinite, FS_Injection
<1>. QED BY <1>5 DEF post

\* An item in another's place, of the kind exactly if the other was.
LEMMA PlacesReplace ==
  ASSUME NEW q, NEW i \in DOMAIN q, NEW e, NEW kind, q[i] \in kind <=> e \in kind
  PROVE  Places([q EXCEPT ![i] = e], kind) = Places(q, kind)
BY DEF Places
=============================================================================
