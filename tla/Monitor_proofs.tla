---------------------------- MODULE Monitor_proofs ----------------------------
(***************************************************************************)
(* The trace and the page that shows it: what the merge of a page makes of *)
(* any history and any snapshot, and that a cleared trace stays cleared,   *)
(* for every capacity, limit and clock.                                    *)
(***************************************************************************)
EXTENDS Monitor, SequenceFacts

-----------------------------------------------------------------------------
(***************************************************************************)
(* The merge.                                                              *)
(***************************************************************************)
Timed(entries) == \A i \in DOMAIN entries : entries[i].ms \in Nat

\* A bijection from ranks to the indices that are kept: how many are earlier
\* tells them apart.
LEMMA Ranks ==
  ASSUME NEW S, NEW entries \in Seq(S), Timed(entries), NEW kept \in SUBSET DOMAIN entries
  PROVE  /\ Cardinality(kept) \in Nat
         /\ \E at \in [1 .. Cardinality(kept) -> kept] :
              /\ Sorted(entries, kept) \in [1 .. Cardinality(kept) -> S]
              /\ \A p \in 1 .. Cardinality(kept) : Sorted(entries, kept)[p] = entries[at[p]]
              /\ \A p, q \in 1 .. Cardinality(kept) : p < q => Earlier(entries, at[p], at[q])
              /\ \A i \in kept : \E p \in 1 .. Cardinality(kept) : at[p] = i
<1>. DEFINE n == Cardinality(kept)
            Before(i) == {j \in kept : Earlier(entries, j, i)}
            rank == [i \in kept |-> Cardinality(Before(i)) + 1]
<1>1. /\ DOMAIN entries = 1 .. Len(entries) /\ Len(entries) \in Nat
      /\ IsFiniteSet(DOMAIN entries) /\ IsFiniteSet(kept) /\ n \in Nat
  <2>1. DOMAIN entries = 1 .. Len(entries) /\ Len(entries) \in Nat
    BY LenProperties
  <2>2. IsFiniteSet(DOMAIN entries)
    BY <2>1, FS_Interval
  <2>3. IsFiniteSet(kept)
    BY <2>2, FS_Subset
  <2>. QED BY <2>1, <2>2, <2>3, FS_CardinalityType
<1>2. \A i, j \in kept : i \in Nat /\ entries[i].ms \in Nat
        /\ (i = j \/ Earlier(entries, i, j) \/ Earlier(entries, j, i))
  BY <1>1 DEF Timed, Earlier
<1>3. \A i, j, k \in kept : /\ ~Earlier(entries, i, i)
                            /\ Earlier(entries, i, j) /\ Earlier(entries, j, k) => Earlier(entries, i, k)
  BY <1>2 DEF Earlier
<1>4. \A i \in kept : /\ IsFiniteSet(Before(i)) /\ Cardinality(Before(i)) \in Nat
                      /\ Cardinality(Before(i)) < n
  <2>. SUFFICES ASSUME NEW i \in kept
                PROVE  /\ IsFiniteSet(Before(i)) /\ Cardinality(Before(i)) \in Nat
                       /\ Cardinality(Before(i)) < n
    OBVIOUS
  <2>1. Before(i) \in SUBSET (kept \ {i})
    BY <1>3
  <2>2. IsFiniteSet(kept \ {i}) /\ Cardinality(kept \ {i}) = n - 1
    BY <1>1, FS_RemoveElement
  <2>. HIDE DEF Before
  <2>3. IsFiniteSet(Before(i)) /\ Cardinality(Before(i)) <= n - 1
    BY <2>1, <2>2, FS_Subset
  <2>. QED BY <1>1, <2>3, FS_CardinalityType
<1>5. \A i, j \in kept : Earlier(entries, i, j) => rank[i] < rank[j]
  <2>. SUFFICES ASSUME NEW i \in kept, NEW j \in kept, Earlier(entries, i, j)
                PROVE  rank[i] < rank[j]
    OBVIOUS
  <2>1. Before(i) \cup {i} \in SUBSET Before(j) /\ i \notin Before(i)
    BY <1>3
  <2>. HIDE DEF Before
  <2>2. Cardinality(Before(i) \cup {i}) = Cardinality(Before(i)) + 1
    BY <1>4, <2>1, FS_AddElement
  <2>3. Cardinality(Before(i) \cup {i}) <= Cardinality(Before(j))
    BY <1>4, <2>1, FS_Subset
  <2>. QED BY <1>4, <2>2, <2>3
<1>6. rank \in Injection(kept, 1 .. n)
  <2>1. rank \in [kept -> 1 .. n]
    <3>. HIDE DEF Before
    <3>. QED BY <1>1, <1>4
  <2>2. \A i, j \in kept : rank[i] = rank[j] => i = j
    <3>. HIDE DEF rank
    <3>. QED BY <1>2, <1>5, <2>1
  <2>. HIDE DEF rank
  <2>. QED BY <2>1, <2>2 DEF Injection, IsInjective
<1>7. \A p \in 1 .. n : \E i \in kept : rank[i] = p
  <2>1. IsFiniteSet(1 .. n) /\ Cardinality(1 .. n) = n
    BY <1>1, FS_Interval
  <2>2. rank \in Surjection(kept, 1 .. n)
    <3>. HIDE DEF rank
    <3>. QED BY <1>6, <2>1, FS_Injection
  <2>. HIDE DEF rank
  <2>. QED BY <2>2 DEF Surjection
<1>8. \A p \in 1 .. n : \A i \in kept : rank[i] = p <=> Cardinality(Before(i)) = p - 1
  <2>. HIDE DEF Before
  <2>. QED BY <1>1, <1>4
<1>. DEFINE at == [p \in 1 .. n |-> CHOOSE i \in kept : Cardinality(Before(i)) = p - 1]
<1>9. \A p \in 1 .. n : at[p] \in kept /\ Cardinality(Before(at[p])) = p - 1
  <2>. HIDE DEF Before, rank
  <2>. QED BY <1>7, <1>8
<1>10. at \in [1 .. n -> kept] /\ \A p \in 1 .. n : rank[at[p]] = p
  <2>1. at \in [1 .. n -> kept]
    <3>. HIDE DEF Before
    <3>. QED BY <1>9
  <2>. HIDE DEF Before, rank, at
  <2>. QED BY <1>8, <1>9, <2>1
<1>11. /\ Sorted(entries, kept) \in [1 .. n -> S]
       /\ \A p \in 1 .. n : Sorted(entries, kept)[p] = entries[at[p]]
  <2>1. Sorted(entries, kept) = [p \in 1 .. n |-> entries[at[p]]]
    BY DEF Sorted
  <2>. HIDE DEF at, n
  <2>2. \A p \in 1 .. n : entries[at[p]] \in S
    BY <1>1, <1>10, ElementOfSeq
  <2>. QED BY <2>1, <2>2
<1>12. \A p, q \in 1 .. n : p < q => Earlier(entries, at[p], at[q])
  <2>. SUFFICES ASSUME NEW p \in 1 .. n, NEW q \in 1 .. n, p < q
                PROVE  Earlier(entries, at[p], at[q])
    OBVIOUS
  <2>. HIDE DEF rank, at, n
  <2>1. /\ at[p] \in kept /\ at[q] \in kept /\ rank[at[p]] = p /\ rank[at[q]] = q
        /\ p \in Nat /\ q \in Nat
    BY <1>1, <1>10
  <2>2. at[p] # at[q] /\ ~Earlier(entries, at[q], at[p])
    BY <1>5, <2>1
  <2>. QED BY <1>2, <2>1, <2>2
<1>13. \A i \in kept : \E p \in 1 .. n : at[p] = i
  <2>. SUFFICES ASSUME NEW i \in kept PROVE \E p \in 1 .. n : at[p] = i
    OBVIOUS
  <2>. HIDE DEF rank, at
  <2>1. rank[i] \in 1 .. n
    BY <1>6 DEF Injection
  <2>2. at[rank[i]] \in kept /\ rank[at[rank[i]]] = rank[i]
    BY <1>10, <2>1
  <2>. QED BY <1>6, <2>1, <2>2 DEF Injection, IsInjective
<1>. HIDE DEF at
<1>. QED BY <1>1, <1>10, <1>11, <1>12, <1>13

\* The end of a sequence.
LEMMA LatestFacts ==
  ASSUME NEW S, NEW entries \in Seq(S), NEW n \in Nat \ {0}
  PROVE  LET latest == Latest(entries, n)
             off == Len(entries) - Len(latest)
         IN  /\ latest \in Seq(S) /\ Len(latest) \in Nat
             /\ Len(latest) = IF Len(entries) > n THEN n ELSE Len(entries)
             /\ \A k \in 1 .. Len(latest) : off + k \in 1 .. Len(entries) /\ latest[k] = entries[off + k]
<1>. DEFINE first == IF Len(entries) > n THEN Len(entries) - n + 1 ELSE 1
<1>1. Len(entries) \in Nat /\ DOMAIN entries = 1 .. Len(entries)
  BY LenProperties
<1>2. first \in 1 .. Len(entries) + 1
  BY <1>1
<1>. HIDE DEF first
<1>3. /\ SubSeq(entries, first, Len(entries)) \in Seq(S)
      /\ Len(SubSeq(entries, first, Len(entries))) = Len(entries) - first + 1
      /\ \A k \in 1 .. Len(entries) - first + 1 :
            SubSeq(entries, first, Len(entries))[k] = entries[first + k - 1]
  BY <1>1, <1>2, SubSeqProperties
<1>4. Latest(entries, n) = SubSeq(entries, first, Len(entries))
  BY DEF Latest, first
<1>. DEFINE latest == SubSeq(entries, first, Len(entries))
<1>5. Len(latest) \in Nat /\ Len(latest) = IF Len(entries) > n THEN n ELSE Len(entries)
  <2>1. Len(latest) = Len(entries) - first + 1
    BY <1>3
  <2>. HIDE DEF latest
  <2>. QED BY <1>1, <2>1 DEF first
<1>6. Len(entries) - Len(latest) = first - 1
  BY <1>1, <1>2, <1>3
<1>7. \A k \in 1 .. Len(latest) : /\ (first - 1) + k \in 1 .. Len(entries)
                                  /\ latest[k] = entries[(first - 1) + k]
  <2>. SUFFICES ASSUME NEW k \in 1 .. Len(latest)
                PROVE  (first - 1) + k \in 1 .. Len(entries) /\ latest[k] = entries[(first - 1) + k]
    OBVIOUS
  <2>1. first + k - 1 = (first - 1) + k /\ (first - 1) + k \in 1 .. Len(entries)
    BY <1>1, <1>2, <1>3
  <2>. QED BY <1>3, <2>1
<1>. HIDE DEF latest
<1>. QED BY <1>3, <1>4, <1>5, <1>6, <1>7 DEF latest

\* The entries of two sequences, one after the other.
LEMMA ConcatEntries ==
  ASSUME NEW S, NEW existing \in Seq(S), NEW incoming \in Seq(S)
  PROVE  EntriesOf(existing \o incoming) = EntriesOf(existing) \cup EntriesOf(incoming)
<1>. DEFINE all == existing \o incoming
            m == Len(existing)
<1>1. /\ DOMAIN all = 1 .. Len(all) /\ Len(all) = m + Len(incoming)
      /\ DOMAIN existing = 1 .. m /\ m \in Nat
      /\ DOMAIN incoming = 1 .. Len(incoming) /\ Len(incoming) \in Nat
      /\ \A i \in 1 .. Len(all) : all[i] = IF i <= m THEN existing[i] ELSE incoming[i - m]
  BY ConcatProperties, LenProperties
<1>. HIDE DEF all, m
<1>2. \A i \in DOMAIN all : \/ i \in DOMAIN existing /\ all[i] = existing[i]
                            \/ i - m \in DOMAIN incoming /\ all[i] = incoming[i - m]
  BY <1>1
<1>3. \A i \in DOMAIN existing : i \in DOMAIN all /\ all[i] = existing[i]
  BY <1>1
<1>4. \A i \in DOMAIN incoming : m + i \in DOMAIN all /\ all[m + i] = incoming[i]
  <2>. SUFFICES ASSUME NEW i \in DOMAIN incoming
                PROVE  m + i \in DOMAIN all /\ all[m + i] = incoming[i]
    OBVIOUS
  <2>1. m + i \in 1 .. Len(all) /\ ~(m + i <= m) /\ (m + i) - m = i
    BY <1>1
  <2>. QED BY <1>1, <2>1
<1>5. EntriesOf(all) = EntriesOf(existing) \cup EntriesOf(incoming)
  BY <1>2, <1>3, <1>4 DEF EntriesOf
<1>. QED BY <1>5 DEF all

LEMMA FirstsDiffer ==
  ASSUME NEW S, NEW entries \in Seq(S)
  PROVE  /\ Firsts(entries) \in SUBSET DOMAIN entries
         /\ \A i, j \in Firsts(entries) : i # j => Key(entries[i]) # Key(entries[j])
<1>1. DOMAIN entries = 1 .. Len(entries) /\ Len(entries) \in Nat
  BY LenProperties
<1>2. \A i, j \in DOMAIN entries : i # j => i \in 1 .. j - 1 \/ j \in 1 .. i - 1
  BY <1>1
<1>. QED BY <1>2 DEF Firsts

\* Every key that occurs is the key of an entry that is kept.
LEMMA FirstsKeepKeys ==
  ASSUME NEW S, NEW entries \in Seq(S), NEW i \in DOMAIN entries
  PROVE  \E j \in Firsts(entries) : Key(entries[j]) = Key(entries[i])
<1>1. DOMAIN entries = 1 .. Len(entries) /\ Len(entries) \in Nat
  BY LenProperties
<1>. DEFINE Same == {j \in DOMAIN entries : Key(entries[j]) = Key(entries[i])}
<1>2. Same \in SUBSET Nat /\ i \in Same
  BY <1>1
<1>3. PICK j \in Same : \A k \in Same : j <= k
  BY <1>2, LeastNumber
<1>4. \A k \in 1 .. j - 1 : Key(entries[k]) # Key(entries[j])
  BY <1>1, <1>3
<1>. QED BY <1>3, <1>4 DEF Firsts

\* Where the entries of a merged page come from: each is the first with its key,
\* they are sorted, and a first that is not on the page is not later than what is.
LEMMA MergePlaces ==
  ASSUME NEW S, \A e \in S : e.ms \in Nat, NEW existing \in Seq(S), NEW incoming \in Seq(S)
  PROVE  LET merged == Merge(existing, incoming)
             all == existing \o incoming
         IN  /\ merged \in Seq(S) /\ Len(merged) <= Limit
             /\ \E src \in [DOMAIN merged -> Firsts(all)] :
                  /\ \A p \in DOMAIN merged : merged[p] = all[src[p]]
                  /\ \A p, q \in DOMAIN merged : p < q => Earlier(all, src[p], src[q])
                  /\ \A i \in Firsts(all) :
                       \/ \E p \in DOMAIN merged : src[p] = i
                       \/ Len(merged) = Limit /\ \A p \in DOMAIN merged : all[i].ms <= merged[p].ms
<1>. DEFINE all == existing \o incoming
            kept == Firsts(all)
            sorted == Sorted(all, kept)
            n == Cardinality(kept)
            merged == Latest(sorted, Limit)
            off == Len(sorted) - Len(merged)
<1>1. all \in Seq(S) /\ DOMAIN all = 1 .. Len(all) /\ Len(all) \in Nat
  BY ConcatProperties, LenProperties
<1>. HIDE DEF all
<1>3. \A i \in DOMAIN all : all[i] \in S /\ all[i].ms \in Nat
  BY <1>1, ElementOfSeq
<1>4. kept \in SUBSET DOMAIN all
        /\ \A i, j \in kept : i # j => Key(all[i]) # Key(all[j])
  BY <1>1, FirstsDiffer
<1>. HIDE DEF kept
<1>5. /\ n \in Nat
      /\ \E at \in [1 .. n -> kept] :
           /\ sorted \in [1 .. n -> S] /\ \A p \in 1 .. n : sorted[p] = all[at[p]]
           /\ \A p, q \in 1 .. n : p < q => Earlier(all, at[p], at[q])
           /\ \A i \in kept : \E p \in 1 .. n : at[p] = i
  <2>1. Timed(all)
    BY <1>3 DEF Timed
  <2>2. /\ Cardinality(kept) \in Nat
        /\ \E at \in [1 .. Cardinality(kept) -> kept] :
             /\ Sorted(all, kept) \in [1 .. Cardinality(kept) -> S]
             /\ \A p \in 1 .. Cardinality(kept) : Sorted(all, kept)[p] = all[at[p]]
             /\ \A p, q \in 1 .. Cardinality(kept) : p < q => Earlier(all, at[p], at[q])
             /\ \A i \in kept : \E p \in 1 .. Cardinality(kept) : at[p] = i
    <3>. HIDE DEF n, sorted
    <3>1. kept \in SUBSET DOMAIN all /\ all \in Seq(S)
      BY <1>1, <1>4
    <3>. QED BY <2>1, <3>1, Ranks
  <2>. QED BY <2>2
<1>. HIDE DEF sorted, n
<1>6. PICK at \in [1 .. n -> kept] :
        /\ sorted \in [1 .. n -> S] /\ \A p \in 1 .. n : sorted[p] = all[at[p]]
        /\ \A p, q \in 1 .. n : p < q => Earlier(all, at[p], at[q])
        /\ \A i \in kept : \E p \in 1 .. n : at[p] = i
  BY <1>5
<1>7. /\ sorted \in Seq(S) /\ Len(sorted) = n
      /\ \A p \in 1 .. n : at[p] \in kept /\ sorted[p] = all[at[p]]
  <2>1. \A p \in 1 .. n : at[p] \in kept /\ sorted[p] = all[at[p]]
    BY <1>6
  <2>4. sorted \in Seq(S) /\ Len(sorted) = n
    BY <1>5, <1>6, SeqDef, LenProperties
  <2>. QED BY <2>1, <2>4
<1>8. \A p, q \in 1 .. n : p < q =>
        sorted[p].ms <= sorted[q].ms /\ Key(sorted[p]) # Key(sorted[q])
  <2>. SUFFICES ASSUME NEW p \in 1 .. n, NEW q \in 1 .. n, p < q
                PROVE  sorted[p].ms <= sorted[q].ms /\ Key(sorted[p]) # Key(sorted[q])
    OBVIOUS
  <2>1. /\ at[p] \in kept /\ at[q] \in kept /\ sorted[p] = all[at[p]] /\ sorted[q] = all[at[q]]
        /\ Earlier(all, at[p], at[q])
    BY <1>6, <1>7
  <2>2. at[p] \in Nat /\ at[q] \in Nat /\ all[at[p]].ms \in Nat /\ all[at[q]].ms \in Nat
    BY <1>1, <1>3, <1>4, <2>1
  <2>3. at[p] # at[q] /\ all[at[p]].ms <= all[at[q]].ms
    BY <2>1, <2>2 DEF Earlier
  <2>. QED BY <1>4, <2>1, <2>3
<1>9. Limit \in Nat \ {0}
  BY MonitorAssumption
<1>10. /\ merged \in Seq(S) /\ Len(merged) \in Nat /\ DOMAIN merged = 1 .. Len(merged)
       /\ Len(merged) = IF n > Limit THEN Limit ELSE n
       /\ off = n - Len(merged)
       /\ \A k \in 1 .. Len(merged) : off + k \in 1 .. n /\ merged[k] = sorted[off + k]
  <2>1. merged \in Seq(S) => DOMAIN merged = 1 .. Len(merged)
    BY LenProperties
  <2>. QED BY <1>7, <1>9, <2>1, LatestFacts
<1>. HIDE DEF merged, off
<1>. DEFINE src == [p \in DOMAIN merged |-> at[off + p]]
<1>11. /\ src \in [DOMAIN merged -> kept]
       /\ \A p \in DOMAIN merged : src[p] = at[off + p] /\ merged[p] = all[src[p]]
  BY <1>7, <1>10
<1>. HIDE DEF src
<1>12. ASSUME NEW p \in DOMAIN merged, NEW q \in DOMAIN merged, p < q
       PROVE  Earlier(all, src[p], src[q])
  <2>1. off + p \in 1 .. n /\ off + q \in 1 .. n
    BY <1>10
  <2>2. off + p < off + q
    BY <1>5, <1>9, <1>10, <1>12
  <2>. QED BY <1>6, <1>11, <2>1, <2>2
<1>13. ASSUME NEW i \in kept
       PROVE  \/ \E p \in DOMAIN merged : src[p] = i
              \/ Len(merged) = Limit /\ \A p \in DOMAIN merged : all[i].ms <= merged[p].ms
  <2>1. PICK r \in 1 .. n : at[r] = i
    BY <1>6
  <2>2. sorted[r] = all[i]
    BY <1>7, <2>1
  <2>3. CASE r > off
    <3>1. r - off \in 1 .. Len(merged) /\ off + (r - off) = r
      BY <1>5, <1>9, <1>10, <2>3
    <3>. QED BY <1>10, <1>11, <2>1, <3>1
  <2>4. CASE r <= off
    <3>1. Len(merged) = Limit
      BY <1>5, <1>9, <1>10, <2>4
    <3>2. \A p \in DOMAIN merged : r < off + p /\ off + p \in 1 .. n /\ merged[p] = sorted[off + p]
      <4>1. DOMAIN merged = 1 .. Len(merged) /\ Len(merged) \in Nat /\ off \in Int
        <5>1. Len(merged) \in Nat /\ off = n - Len(merged)
          BY <1>10
        <5>. QED BY <1>5, <1>10, <5>1
      <4>2. \A p \in 1 .. Len(merged) : r < off + p
        BY <1>5, <2>4, <4>1
      <4>. QED BY <1>10, <4>1, <4>2
    <3>. QED BY <1>8, <2>2, <3>1, <3>2
  <2>. QED BY <1>5, <1>9, <1>10, <2>3, <2>4
<1>14. Merge(existing, incoming) = merged
  BY DEF Merge, merged, sorted, kept, all
<1>15. Len(merged) <= Limit
  BY <1>5, <1>9, <1>10
<1>16. \E f \in [DOMAIN merged -> kept] :
         /\ \A p \in DOMAIN merged : merged[p] = all[f[p]]
         /\ \A p, q \in DOMAIN merged : p < q => Earlier(all, f[p], f[q])
         /\ \A i \in kept :
              \/ \E p \in DOMAIN merged : f[p] = i
              \/ Len(merged) = Limit /\ \A p \in DOMAIN merged : all[i].ms <= merged[p].ms
  BY <1>11, <1>12, <1>13
<1>. QED BY <1>10, <1>14, <1>15, <1>16 DEF kept, all

\* The page after a merge, for any history and any snapshot: it holds entries
\* of the two, in order of time, none twice; and of an entry that is not there
\* the page has one with the same key, or is full of entries not older.
THEOREM MergeIsHistory ==
  ASSUME NEW S, \A e \in S : e.ms \in Nat, NEW existing \in Seq(S), NEW incoming \in Seq(S)
  PROVE  LET merged == Merge(existing, incoming)
         IN  /\ merged \in Seq(S) /\ Len(merged) <= Limit
             /\ EntriesOf(merged) \subseteq EntriesOf(existing) \cup EntriesOf(incoming)
             /\ \A p, q \in DOMAIN merged : p < q =>
                  merged[p].ms <= merged[q].ms /\ Key(merged[p]) # Key(merged[q])
             /\ \A e \in EntriesOf(existing) \cup EntriesOf(incoming) :
                  \/ \E p \in DOMAIN merged : Key(merged[p]) = Key(e)
                  \/ Len(merged) = Limit /\ \A p \in DOMAIN merged : e.ms <= merged[p].ms
<1>. DEFINE all == existing \o incoming
            merged == Merge(existing, incoming)
<1>1. all \in Seq(S) /\ DOMAIN all = 1 .. Len(all) /\ Len(all) \in Nat
  BY ConcatProperties, LenProperties
<1>2. EntriesOf(all) = EntriesOf(existing) \cup EntriesOf(incoming)
  BY ConcatEntries
<1>3. /\ merged \in Seq(S) /\ Len(merged) <= Limit
      /\ \E src \in [DOMAIN merged -> Firsts(all)] :
           /\ \A p \in DOMAIN merged : merged[p] = all[src[p]]
           /\ \A p, q \in DOMAIN merged : p < q => Earlier(all, src[p], src[q])
           /\ \A i \in Firsts(all) :
                \/ \E p \in DOMAIN merged : src[p] = i
                \/ Len(merged) = Limit /\ \A p \in DOMAIN merged : all[i].ms <= merged[p].ms
  BY MergePlaces
<1>. HIDE DEF all, merged
<1>4. PICK src \in [DOMAIN merged -> Firsts(all)] :
        /\ \A p \in DOMAIN merged : merged[p] = all[src[p]]
        /\ \A p, q \in DOMAIN merged : p < q => Earlier(all, src[p], src[q])
        /\ \A i \in Firsts(all) :
             \/ \E p \in DOMAIN merged : src[p] = i
             \/ Len(merged) = Limit /\ \A p \in DOMAIN merged : all[i].ms <= merged[p].ms
  BY <1>3
<1>5. \A i \in DOMAIN all : all[i] \in S /\ all[i].ms \in Nat /\ i \in Nat
  BY <1>1, ElementOfSeq
<1>6. Firsts(all) \in SUBSET DOMAIN all
        /\ \A i, j \in Firsts(all) : i # j => Key(all[i]) # Key(all[j])
  BY <1>1, FirstsDiffer
<1>7. EntriesOf(merged) \subseteq EntriesOf(all)
  BY <1>4, <1>6 DEF EntriesOf
<1>8. ASSUME NEW p \in DOMAIN merged, NEW q \in DOMAIN merged, p < q
      PROVE  merged[p].ms <= merged[q].ms /\ Key(merged[p]) # Key(merged[q])
  <2>1. /\ src[p] \in Firsts(all) /\ src[q] \in Firsts(all)
        /\ merged[p] = all[src[p]] /\ merged[q] = all[src[q]] /\ Earlier(all, src[p], src[q])
    BY <1>4, <1>8
  <2>2. src[p] \in Nat /\ src[q] \in Nat /\ all[src[p]].ms \in Nat /\ all[src[q]].ms \in Nat
    BY <1>5, <1>6, <2>1
  <2>3. src[p] # src[q] /\ all[src[p]].ms <= all[src[q]].ms
    BY <2>1, <2>2 DEF Earlier
  <2>. QED BY <1>6, <2>1, <2>3
<1>9. ASSUME NEW i \in DOMAIN all
      PROVE  \/ \E p \in DOMAIN merged : Key(merged[p]) = Key(all[i])
             \/ Len(merged) = Limit /\ \A p \in DOMAIN merged : all[i].ms <= merged[p].ms
  <2>1. PICK j \in Firsts(all) : Key(all[j]) = Key(all[i])
    BY <1>1, FirstsKeepKeys
  <2>2. all[j].ms = all[i].ms
    BY <2>1 DEF Key
  <2>. QED BY <1>4, <2>1, <2>2
<1>10. \A e \in EntriesOf(all) :
         \/ \E p \in DOMAIN merged : Key(merged[p]) = Key(e)
         \/ Len(merged) = Limit /\ \A p \in DOMAIN merged : e.ms <= merged[p].ms
  BY <1>9 DEF EntriesOf
<1>. QED BY <1>2, <1>3, <1>7, <1>8, <1>10 DEF merged

-----------------------------------------------------------------------------
(***************************************************************************)
(* Types.                                                                  *)
(***************************************************************************)

\* Entries and messages stay what they are when more is recorded.
LEMMA MoreRecorded ==
  ASSUME count \in Nat, epoch \in Nat, count' \in Nat, epoch' \in Nat,
         count <= count', epoch <= epoch'
  PROVE  /\ Seq(Entry) \subseteq Seq(Entry') /\ Seq(Message) \subseteq Seq(Message')
         /\ 0 .. count \subseteq 0 .. count'
<1>1. Entry \subseteq Entry' /\ 0 .. count \subseteq 0 .. count'
  BY DEF Entry
<1>2. Seq(Entry) \subseteq Seq(Entry')
  BY <1>1
<1>3. Message \subseteq Message'
  BY <1>1, <1>2 DEF Message
<1>. QED BY <1>1, <1>2, <1>3

\* The types of the trace and those of the page.
TraceTypes ==
  /\ buffer \in Seq(Entry) /\ Len(buffer) <= Capacity
  /\ last \in Nat \cup {None} /\ exchange \in 0 .. count /\ count \in 0 .. MaxRecords
  /\ epoch \in 0 .. MaxEpochs /\ answered \in BOOLEAN /\ loaded \in BOOLEAN

PageTypes ==
  /\ page \in Seq(Entry) /\ Len(page) <= Limit
  /\ channel \in Seq(Message) /\ Len(channel) <= MaxMessages + 1
  /\ cleared \in 0 .. count
  /\ subscribed \in BOOLEAN /\ asked \in BOOLEAN /\ awaiting \in BOOLEAN

LEMMA TypesSplit == TypeOK <=> TraceTypes /\ PageTypes
BY DEF TypeOK, TraceTypes, PageTypes

LEMMA InitTrace == Init => TypeOK /\ OneReply /\ ClearInv
<1>1. <<>> \in Seq(Entry) /\ <<>> \in Seq(Message) /\ Len(<<>>) = 0 /\ DOMAIN <<>> = {}
  BY EmptySeq
<1>2. {TRUE, FALSE} \subseteq BOOLEAN /\ MaxMessages \in Nat \ {0} /\ Capacity \in Nat \ {0}
      /\ Limit \in Nat \ {0} /\ MaxRecords \in Nat /\ MaxEpochs \in Nat
  BY MonitorAssumption
<1>. SUFFICES ASSUME Init PROVE TypeOK /\ OneReply /\ ClearInv
  OBVIOUS
<1>3. /\ buffer = <<>> /\ page = <<>> /\ channel = <<>> /\ last = None
      /\ exchange = 0 /\ count = 0 /\ epoch = 0 /\ cleared = 0
      /\ answered = FALSE /\ loaded = TRUE /\ subscribed = FALSE /\ asked = FALSE /\ awaiting = FALSE
  BY DEF Init
<1>4. TypeOK
  <2>1. {answered, loaded, subscribed, asked, awaiting} \subseteq BOOLEAN
    BY Zenon DEF Init
  <2>2. /\ buffer \in Seq(Entry) /\ page \in Seq(Entry) /\ channel \in Seq(Message)
    BY <1>1, <1>3, Zenon
  <2>3. Len(buffer) = 0 /\ Len(page) = 0 /\ Len(channel) = 0
    BY <1>1, <1>3, Zenon
  <2>4. 0 <= Capacity /\ 0 <= Limit /\ 0 <= MaxMessages + 1 /\ 0 \in 0 .. 0 /\ 0 \in 0 .. MaxRecords
        /\ 0 \in 0 .. MaxEpochs
    BY <1>2
  <2>5. last \in Nat \cup {None}
    BY <1>3
  <2>. QED BY <1>3, <2>1, <2>2, <2>3, <2>4, <2>5, Zenon DEF TypeOK
<1>5. OneReply
  BY <1>1, <1>2, <1>3 DEF OneReply
<1>6. ClearInv
  BY <1>1, <1>3 DEF ClearInv, After, EntriesOf
<1>. QED BY <1>4, <1>5, <1>6

\* The numbers grow: the page's side keeps its types when the trace moves.
LEMMA PageKeepsTypes ==
  ASSUME TypeOK, TraceTypes', UNCHANGED pageVars, count <= count', epoch <= epoch'
  PROVE  TypeOK'
<1>1. /\ count \in Nat /\ epoch \in Nat /\ count' \in Nat /\ epoch' \in Nat
  BY MonitorAssumption DEF TypeOK, TraceTypes
<1>2. /\ Seq(Entry) \subseteq Seq(Entry') /\ Seq(Message) \subseteq Seq(Message')
      /\ 0 .. count \subseteq 0 .. count'
  BY <1>1, MoreRecorded
<1>. QED BY <1>2 DEF TypeOK, TraceTypes, pageVars

\* The entry that is recorded.
LEMMA RecordTypes ==
  ASSUME TypeOK, NEW direction \in {"TX", "RX", "STATUS", "EVENT"}, NEW id \in 0 .. count + 1,
         Record(direction, id)
  PROVE  /\ count' = count + 1 /\ count' \in 0 .. MaxRecords /\ UNCHANGED <<epoch, loaded, pageVars>>
         /\ last' \in Nat /\ buffer' \in Seq(Entry') /\ Len(buffer') <= Capacity
         /\ Seq(Entry) \subseteq Seq(Entry')
         /\ \A e \in EntriesOf(buffer') : e \in EntriesOf(buffer) \/ e.n = count + 1
<1>1. /\ count \in Nat /\ count' = count + 1 /\ count' \in 0 .. MaxRecords
      /\ UNCHANGED <<epoch, loaded, pageVars>> /\ epoch \in Nat
  BY MonitorAssumption DEF TypeOK, Record
<1>2. PICK reading \in 0 .. Readings, content \in Content :
        LET stamp == Stamp(reading)
            new == [n |-> count + 1, epoch |-> epoch, ms |-> stamp \div TicksPerMs,
                    direction |-> direction, content |-> content, exchange |-> id]
        IN last' = stamp /\ buffer' = Latest(Append(buffer, new), Capacity)
  BY DEF Record
<1>. DEFINE stamp == Stamp(reading)
            new == [n |-> count + 1, epoch |-> epoch, ms |-> stamp \div TicksPerMs,
                    direction |-> direction, content |-> content, exchange |-> id]
<1>3. stamp \in Nat /\ stamp \div TicksPerMs \in Nat
  <2>1. TicksPerMs \in Nat \ {0}
    BY MonitorAssumption
  <2>2. stamp \in Nat
    BY <2>1 DEF Stamp, TypeOK
  <2>. QED BY <2>1, <2>2
<1>4. new \in Entry'
  <2>. HIDE DEF stamp
  <2>. QED BY <1>1, <1>3 DEF Entry
<1>5. Seq(Entry) \subseteq Seq(Entry')
  BY <1>1, MoreRecorded
<1>6. buffer \in Seq(Entry')
  BY <1>5 DEF TypeOK
<1>7. new.n = count + 1
  OBVIOUS
<1>8. last' = stamp /\ buffer' = Latest(Append(buffer, new), Capacity)
  BY <1>2
<1>. HIDE DEF new, stamp
<1>9. /\ Append(buffer, new) \in Seq(Entry') /\ DOMAIN buffer = 1 .. Len(buffer)
      /\ Len(buffer) \in Nat /\ DOMAIN Append(buffer, new) = 1 .. Len(buffer) + 1
      /\ \A i \in 1 .. Len(buffer) : Append(buffer, new)[i] = buffer[i]
      /\ Append(buffer, new)[Len(buffer) + 1] = new
  BY <1>4, <1>6, AppendFacts
<1>10. Capacity \in Nat \ {0}
  BY MonitorAssumption
<1>. DEFINE app == Append(buffer, new)
<1>11. /\ Latest(app, Capacity) \in Seq(Entry') /\ Len(Latest(app, Capacity)) \in Nat
       /\ Len(Latest(app, Capacity)) = IF Len(app) > Capacity THEN Capacity ELSE Len(app)
       /\ \A k \in 1 .. Len(Latest(app, Capacity)) : \E i \in 1 .. Len(app) :
             Latest(app, Capacity)[k] = app[i]
  <2>. HIDE DEF app
  <2>1. app \in Seq(Entry')
    BY <1>9 DEF app
  <2>. QED BY <1>10, <2>1, LatestFacts
<1>12. DOMAIN app = 1 .. Len(buffer) + 1 /\ Len(app) = Len(buffer) + 1
  BY <1>9, LenProperties
<1>13. \A i \in 1 .. Len(app) : app[i] \in EntriesOf(buffer) \/ app[i].n = count + 1
  <2>. SUFFICES ASSUME NEW i \in 1 .. Len(app)
                PROVE  app[i] \in EntriesOf(buffer) \/ app[i].n = count + 1
    OBVIOUS
  <2>1. i \in 1 .. Len(buffer) \/ i = Len(buffer) + 1
    BY <1>9, <1>12
  <2>. QED BY <1>7, <1>9, <2>1 DEF EntriesOf
<1>. HIDE DEF app
<1>14. buffer' = Latest(app, Capacity)
  BY <1>8 DEF app
<1>15. buffer' \in Seq(Entry') /\ Len(buffer') <= Capacity /\ DOMAIN buffer' = 1 .. Len(buffer')
  <2>1. Len(app) \in Nat
    BY <1>9, <1>12
  <2>2. buffer' \in Seq(Entry') /\ Len(buffer') <= Capacity
    BY <1>10, <1>11, <1>14, <2>1
  <2>. QED BY <2>2, LenProperties
<1>16. \A e \in EntriesOf(buffer') : e \in EntriesOf(buffer) \/ e.n = count + 1
  <2>. SUFFICES ASSUME NEW k \in DOMAIN buffer'
                PROVE  buffer'[k] \in EntriesOf(buffer) \/ buffer'[k].n = count + 1
    BY DEF EntriesOf
  <2>1. PICK i \in 1 .. Len(app) : buffer'[k] = app[i]
    BY <1>11, <1>14, <1>15
  <2>. QED BY <1>13, <2>1
<1>. QED BY <1>1, <1>3, <1>5, <1>8, <1>15, <1>16

-----------------------------------------------------------------------------
(***************************************************************************)
(* The steps.                                                              *)
(***************************************************************************)
MonitorInv == TypeOK /\ OneReply /\ ClearInv

\* What is on the channel.
LEMMA ChannelHolds ==
  ASSUME TypeOK
  PROVE  /\ DOMAIN channel = 1 .. Len(channel) /\ Len(channel) \in Nat /\ count \in Nat
         /\ \A i \in DOMAIN channel :
              /\ channel[i] \in Message
              /\ Reply(i) => channel[i].upto \in 0 .. count
              /\ ~Reply(i) => channel[i].entries \in Seq(Entry)
<1>1. DOMAIN channel = 1 .. Len(channel) /\ Len(channel) \in Nat /\ count \in Nat
  BY LenProperties DEF TypeOK
<1>2. \A i \in DOMAIN channel : channel[i] \in Message
  BY <1>1, ElementOfSeq DEF TypeOK
<1>. QED BY <1>1, <1>2 DEF Message, Reply

\* The trace moves: the buffer loses entries and gets later ones.
LEMMA TraceMoves ==
  ASSUME MonitorInv, TraceTypes', UNCHANGED pageVars, count <= count', epoch <= epoch',
         \A e \in EntriesOf(buffer') : e \in EntriesOf(buffer) \/ e.n = count + 1
  PROVE  MonitorInv'
<1>. USE DEF MonitorInv
<1>1. TypeOK'
  BY PageKeepsTypes
<1>2. UNCHANGED <<channel, asked, awaiting, page, cleared>>
  BY DEF pageVars
<1>3. OneReply'
  BY <1>2 DEF OneReply, Reply
<1>4. count \in Nat /\ cleared \in 0 .. count
        /\ \A i \in DOMAIN channel : Reply(i) => channel[i].upto \in 0 .. count
  BY ChannelHolds DEF TypeOK
<1>5. \A n \in 0 .. count : After(buffer, n) => After(buffer', n)
  BY <1>4 DEF After
<1>6. After(buffer', cleared) /\ \A i \in DOMAIN channel : Reply(i) => After(buffer', channel[i].upto)
  BY <1>4, <1>5 DEF ClearInv
<1>7. ClearInv'
  BY <1>2, <1>6 DEF ClearInv, Reply, After
<1>. QED BY <1>1, <1>3, <1>7

\* Nothing is left in the buffer.
LEMMA TraceEmptied ==
  ASSUME TypeOK, Empty
  PROVE  /\ buffer' \in Seq(Entry') /\ Len(buffer') <= Capacity /\ EntriesOf(buffer') = {}
         /\ last' \in Nat \cup {None} /\ epoch' \in 0 .. MaxEpochs /\ epoch <= epoch'
<1>1. buffer' = <<>> /\ last' = None /\ epoch' = epoch + 1 /\ epoch < MaxEpochs
  BY DEF Empty
<1>2. <<>> \in Seq(Entry') /\ Len(<<>>) = 0 /\ EntriesOf(<<>>) = {}
  BY EmptySeq DEF EntriesOf
<1>. QED BY <1>1, <1>2, MonitorAssumption DEF TypeOK

LEMMA RecordsKeep ==
  ASSUME MonitorInv, Send \/ Answer \/ Finish \/ Event
  PROVE  MonitorInv'
<1>. USE DEF MonitorInv
<1>0. count \in Nat /\ exchange \in 0 .. count /\ answered \in BOOLEAN /\ loaded \in BOOLEAN
      /\ epoch \in 0 .. MaxEpochs
  BY MonitorAssumption DEF TypeOK
<1>1. PICK direction \in {"TX", "RX", "STATUS", "EVENT"}, id \in 0 .. count + 1 : Record(direction, id)
  BY <1>0 DEF Send, Answer, Finish, Event
<1>2. /\ count' = count + 1 /\ count' \in 0 .. MaxRecords /\ UNCHANGED <<epoch, loaded, pageVars>>
      /\ last' \in Nat /\ buffer' \in Seq(Entry') /\ Len(buffer') <= Capacity
      /\ \A e \in EntriesOf(buffer') : e \in EntriesOf(buffer) \/ e.n = count + 1
  BY <1>1, RecordTypes
<1>3. exchange' \in 0 .. count'
  BY <1>0, <1>2 DEF Send, Answer, Finish, Event
<1>4. answered' \in BOOLEAN
  BY <1>0 DEF Send, Answer, Finish, Event
<1>5. TraceTypes'
  BY <1>0, <1>2, <1>3, <1>4 DEF TraceTypes
<1>. QED BY <1>0, <1>2, <1>5, TraceMoves

LEMMA TraceKeeps ==
  ASSUME MonitorInv, Abandon \/ Unload \/ Load \/ ClearElsewhere
  PROVE  MonitorInv'
<1>. USE DEF MonitorInv
<1>0. TraceTypes /\ count \in Nat /\ epoch \in Nat
  BY TypesSplit DEF TypeOK
<1>1. CASE Abandon
  <2>1. UNCHANGED <<buffer, last, count, epoch, pageVars>> /\ exchange' = 0
    BY <1>1 DEF Abandon
  <2>a. loaded' \in BOOLEAN /\ answered' \in BOOLEAN
    BY <1>0, <1>1, Zenon DEF Abandon, TraceTypes
  <2>b. Entry' = Entry /\ 0 \in 0 .. count
    BY <1>0, <2>1 DEF Entry
  <2>2. TraceTypes'
    BY <1>0, <2>1, <2>a, <2>b DEF TraceTypes
  <2>. QED BY <1>0, <2>1, <2>2, TraceMoves
<1>2. CASE Unload \/ ClearElsewhere
  <2>1. Empty /\ UNCHANGED <<count, pageVars>> /\ exchange' \in 0 .. count
    BY <1>0, <1>2 DEF Unload, ClearElsewhere, TraceTypes
  <2>2. answered' \in BOOLEAN /\ loaded' \in BOOLEAN
    BY <1>0, <1>2 DEF Unload, ClearElsewhere, TraceTypes
  <2>3. TraceTypes'
    BY <1>0, <2>1, <2>2, TraceEmptied DEF TraceTypes
  <2>. QED BY <1>0, <2>1, <2>3, TraceEmptied, TraceMoves
<1>3. CASE Load
  <2>1. UNCHANGED <<buffer, last, exchange, count, epoch, pageVars>>
    BY <1>3 DEF Load
  <2>a. loaded' \in BOOLEAN /\ answered' \in BOOLEAN
    BY <1>0, <1>3, Zenon DEF Load, TraceTypes
  <2>b. Entry' = Entry
    BY <2>1 DEF Entry
  <2>2. TraceTypes'
    BY <1>0, <2>1, <2>a, <2>b DEF TraceTypes
  <2>. QED BY <1>0, <2>1, <2>2, TraceMoves
<1>. QED BY <1>1, <1>2, <1>3

LEMMA PublishKeeps ==
  ASSUME MonitorInv, Publish
  PROVE  MonitorInv'
<1>. USE DEF MonitorInv
<1>. DEFINE m == [kind |-> "snapshot", entries |-> buffer]
<1>1. /\ UNCHANGED <<traceVars, subscribed, asked, awaiting, page, cleared>>
      /\ Len(channel) < MaxMessages /\ channel' = Append(channel, m)
  BY DEF Publish
<1>2. m \in Message /\ m.kind = "snapshot" /\ m.entries = buffer
  BY DEF TypeOK, Message
<1>. HIDE DEF m
<1>3. /\ channel' \in Seq(Message) /\ DOMAIN channel = 1 .. Len(channel) /\ Len(channel) \in Nat
      /\ DOMAIN channel' = 1 .. Len(channel) + 1 /\ Len(channel') = Len(channel) + 1
      /\ \A i \in 1 .. Len(channel) : channel'[i] = channel[i]
      /\ channel'[Len(channel) + 1] = m
  BY <1>1, <1>2, AppendFacts, AppendProperties DEF TypeOK
<1>4. MaxMessages \in Nat
  BY MonitorAssumption
<1>5. \A i \in DOMAIN channel' :
        \/ i \in DOMAIN channel /\ channel'[i] = channel[i]
        \/ i = Len(channel) + 1 /\ channel'[i] = m
  BY <1>3
<1>6. UNCHANGED <<buffer, last, exchange, answered, count, epoch, loaded>>
  BY <1>1 DEF traceVars
<1>7. TypeOK'
  <2>1. channel' \in Seq(Message') /\ Len(channel') <= MaxMessages + 1
    BY <1>1, <1>3, <1>4, <1>6 DEF Message, Entry
  <2>. QED BY <1>1, <1>6, <2>1 DEF TypeOK, Entry
<1>8. OneReply'
  <2>1. \A i \in DOMAIN channel' : channel'[i].kind = "cleared" => i \in DOMAIN channel /\ Reply(i)
    BY <1>2, <1>5 DEF Reply
  <2>2. Len(channel') <= MaxMessages
    BY <1>1, <1>3, <1>4
  <2>. QED BY <1>1, <1>4, <2>1, <2>2 DEF OneReply, Reply
<1>9. ClearInv'
  <2>1. /\ page' = page /\ cleared' = cleared /\ buffer' = buffer
        /\ After(page, cleared) /\ After(buffer, cleared)
    BY <1>1, <1>6 DEF ClearInv
  <2>2. \A i \in DOMAIN channel' : ~Reply(i)' => After(channel'[i].entries, cleared)
    BY <1>2, <1>5, <2>1 DEF ClearInv, Reply
  <2>3. ASSUME NEW i \in DOMAIN channel', Reply(i)'
        PROVE  /\ After(buffer, channel'[i].upto)
               /\ \A j \in DOMAIN channel' : j > i => After(channel'[j].entries, channel'[i].upto)
    <3>1. i \in DOMAIN channel /\ channel'[i] = channel[i] /\ Reply(i)
      BY <1>2, <1>5, <2>3 DEF Reply
    <3>2. After(buffer, channel[i].upto)
      BY <3>1 DEF ClearInv
    <3>3. ASSUME NEW j \in DOMAIN channel', j > i
          PROVE  After(channel'[j].entries, channel[i].upto)
      BY <1>2, <1>5, <3>1, <3>2, <3>3 DEF ClearInv
    <3>. QED BY <3>1, <3>2, <3>3
  <2>4. (After(page, cleared) /\ After(buffer, cleared))'
    BY <2>1 DEF After
  <2>5. \A i \in DOMAIN channel' : ~Reply(i)' => After(channel[i].entries, cleared)'
    BY <2>1, <2>2 DEF After
  <2>6. \A i \in DOMAIN channel' : Reply(i)' =>
          /\ After(buffer, channel[i].upto)'
          /\ \A j \in DOMAIN channel' : j > i => After(channel[j].entries, channel[i].upto)'
    BY <2>1, <2>3 DEF After
  <2>. QED BY <2>4, <2>5, <2>6 DEF ClearInv
<1>. QED BY <1>7, <1>8, <1>9

\* The trace does not move.
LEMMA SameTrace ==
  ASSUME MonitorInv, UNCHANGED traceVars
  PROVE  /\ TraceTypes' /\ Entry' = Entry /\ Message' = Message
         /\ buffer' = buffer /\ count' = count
<1>. USE DEF MonitorInv
<1>1. UNCHANGED <<buffer, last, exchange, count, epoch>>
  BY DEF traceVars
<1>2. TraceTypes /\ answered' = answered /\ loaded' = loaded
  BY TypesSplit, Zenon DEF traceVars
<1>3. loaded' \in BOOLEAN /\ answered' \in BOOLEAN
  BY <1>2, Zenon DEF TraceTypes
<1>4. Entry' = Entry /\ Message' = Message
  BY <1>1 DEF Entry, Message
<1>. QED BY <1>1, <1>2, <1>3, <1>4 DEF TraceTypes

\* While the page's request is under way no reply is.
LEMMA NoReply ==
  ASSUME MonitorInv, asked \/ ~awaiting
  PROVE  (\A i \in DOMAIN channel : ~Reply(i)) /\ Len(channel) <= MaxMessages
<1>1. \A i \in DOMAIN channel : ~Reply(i)
  BY Zenon DEF MonitorInv, OneReply
<1>2. Len(channel) \in Nat /\ MaxMessages \in Nat
  BY MonitorAssumption, ChannelHolds DEF MonitorInv
<1>3. ~(Len(channel) > MaxMessages)
  BY <1>1 DEF MonitorInv, OneReply
<1>. QED BY <1>1, <1>2, <1>3

LEMMA ClearRunsKeeps ==
  ASSUME MonitorInv, ClearRuns
  PROVE  MonitorInv'
<1>. USE DEF MonitorInv
<1>1. /\ asked /\ ~asked' /\ Empty
      /\ UNCHANGED <<exchange, count, page, cleared>>
  BY Zenon DEF ClearRuns
<1>2. answered' = answered /\ loaded' = loaded /\ subscribed' = subscribed /\ awaiting' = awaiting
      /\ asked' = FALSE
  BY Zenon DEF ClearRuns
<1>3. (\A i \in DOMAIN channel : ~Reply(i)) /\ Len(channel) <= MaxMessages
  BY <1>1, NoReply
<1>4. TraceTypes /\ PageTypes /\ count \in Nat /\ epoch \in Nat
  BY TypesSplit DEF TypeOK
<1>5. /\ buffer' \in Seq(Entry') /\ Len(buffer') <= Capacity /\ EntriesOf(buffer') = {}
      /\ last' \in Nat \cup {None} /\ epoch' \in 0 .. MaxEpochs /\ epoch <= epoch'
  BY <1>1, TraceEmptied
<1>6. TraceTypes'
  <2>1. answered' \in BOOLEAN /\ loaded' \in BOOLEAN
    BY <1>2, <1>4, Zenon DEF TraceTypes
  <2>. QED BY <1>1, <1>4, <1>5, <2>1 DEF TraceTypes
<1>7. Seq(Entry) \subseteq Seq(Entry') /\ Seq(Message) \subseteq Seq(Message')
  BY <1>1, <1>4, <1>5, <1>6, MoreRecorded DEF TraceTypes
<1>8. /\ page' \in Seq(Entry') /\ Len(page') <= Limit /\ cleared' \in 0 .. count'
      /\ subscribed' \in BOOLEAN /\ asked' \in BOOLEAN /\ awaiting' \in BOOLEAN
  <2>1. subscribed' \in BOOLEAN /\ asked' \in BOOLEAN /\ awaiting' \in BOOLEAN
    BY <1>2, <1>4, Zenon DEF PageTypes
  <2>. QED BY <1>1, <1>4, <1>7, <2>1 DEF PageTypes
<1>9. \A n : After(buffer', n)
  BY <1>5 DEF After
<1>10. After(page', cleared') /\ \A i \in DOMAIN channel : After(channel[i].entries, cleared')
  BY <1>1, <1>3 DEF ClearInv
<1>11. MaxMessages \in Nat /\ channel \in Seq(Message)
  BY <1>4, MonitorAssumption DEF PageTypes
<1>12. CASE awaiting
  <2>. DEFINE m == [kind |-> "cleared", upto |-> count]
  <2>1. channel' = Append(channel, m)
    BY <1>12 DEF ClearRuns
  <2>2. m \in Message' /\ m.kind = "cleared" /\ m.upto = count
    BY <1>1, <1>4 DEF Message
  <2>. HIDE DEF m
  <2>3. /\ channel' \in Seq(Message') /\ DOMAIN channel = 1 .. Len(channel) /\ Len(channel) \in Nat
        /\ DOMAIN channel' = 1 .. Len(channel) + 1
        /\ \A i \in 1 .. Len(channel) : channel'[i] = channel[i]
        /\ channel'[Len(channel) + 1] = m
    BY <1>7, <1>11, <2>1, <2>2, AppendFacts
  <2>4. \A i \in DOMAIN channel' :
          \/ i \in DOMAIN channel /\ channel'[i] = channel[i] /\ i <= Len(channel)
          \/ i = Len(channel) + 1 /\ channel'[i] = m
    BY <2>3
  <2>5. Len(channel') = Len(channel) + 1
    BY <2>3, LenProperties
  <2>6. TypeOK'
    <3>1. Len(channel') <= MaxMessages + 1
      BY <1>3, <1>11, <2>3, <2>5
    <3>2. PageTypes'
      BY <1>8, <2>3, <3>1 DEF PageTypes
    <3>. QED BY <1>6, <3>2, TypesSplit, PTL
  <2>7. \A i \in DOMAIN channel' : channel'[i].kind = "cleared" <=> i = Len(channel) + 1
    BY <1>3, <2>2, <2>3, <2>4 DEF Reply
  <2>8. OneReply'
    <3>1. awaiting' /\ ~asked'
      BY <1>1, <1>2, <1>12, Zenon
    <3>2. \E i \in DOMAIN channel' : channel'[i].kind = "cleared"
      BY <2>2, <2>3
    <3>. QED BY <2>7, <3>1, <3>2 DEF OneReply, Reply
  <2>9. ClearInv'
    <3>1. \A i \in DOMAIN channel' : channel'[i].kind # "cleared" => After(channel'[i].entries, cleared')
      BY <1>10, <2>4, <2>7
    <3>2. \A i, j \in DOMAIN channel' : channel'[i].kind = "cleared" => ~(j > i)
      BY <2>3, <2>7
    <3>. QED BY <1>9, <1>10, <3>1, <3>2 DEF ClearInv, Reply, After
  <2>. QED BY <2>6, <2>8, <2>9
<1>13. CASE ~awaiting
  <2>1. channel' = channel
    BY <1>13 DEF ClearRuns
  <2>2. TypeOK'
    <3>1. PageTypes'
      BY <1>4, <1>7, <1>8, <2>1 DEF PageTypes
    <3>. QED BY <1>6, <3>1, TypesSplit, PTL
  <2>3. OneReply' /\ ClearInv'
    <3>1. OneReply'
      BY <1>3, <1>4, <1>11, <2>1 DEF OneReply, Reply, PageTypes
    <3>2. ClearInv'
      BY <1>3, <1>9, <1>10, <2>1 DEF ClearInv, Reply, After
    <3>. QED BY <3>1, <3>2
  <2>. QED BY <2>2, <2>3
<1>. QED BY <1>12, <1>13

LEMMA ClearRefusedKeeps ==
  ASSUME MonitorInv, ClearRefused
  PROVE  MonitorInv'
<1>. USE DEF MonitorInv
<1>1. asked /\ UNCHANGED <<traceVars, channel, page, cleared>>
  BY Zenon DEF ClearRefused
<1>2. asked' = FALSE /\ awaiting' = FALSE /\ subscribed' = subscribed
  BY Zenon DEF ClearRefused
<1>3. (\A i \in DOMAIN channel : ~Reply(i)) /\ Len(channel) <= MaxMessages
  BY <1>1, NoReply
<1>4. TraceTypes' /\ Entry' = Entry /\ Message' = Message /\ buffer' = buffer /\ count' = count
  BY <1>1, SameTrace
<1>5. PageTypes'
  <2>1. PageTypes
    BY TypesSplit
  <2>2. subscribed' \in BOOLEAN /\ asked' \in BOOLEAN /\ awaiting' \in BOOLEAN
    BY <1>2, <2>1, Zenon DEF PageTypes
  <2>. QED BY <1>1, <1>4, <2>1, <2>2 DEF PageTypes
<1>6. TypeOK'
  BY <1>4, <1>5, TypesSplit, PTL
<1>7. OneReply'
  <2>1. Len(channel) \in Nat /\ MaxMessages \in Nat
    BY MonitorAssumption, ChannelHolds
  <2>. QED BY <1>1, <1>3, <2>1 DEF OneReply, Reply
<1>8. ClearInv'
  BY <1>1, <1>3, <1>4 DEF ClearInv, Reply, After
<1>. QED BY <1>6, <1>7, <1>8

LEMMA AskClearKeeps ==
  ASSUME MonitorInv, AskClear
  PROVE  MonitorInv'
<1>. USE DEF MonitorInv
<1>1. ~awaiting /\ UNCHANGED <<traceVars, channel, page, cleared>>
  BY Zenon DEF AskClear
<1>2. asked' = TRUE /\ awaiting' = TRUE /\ subscribed' = subscribed
  BY Zenon DEF AskClear
<1>3. (\A i \in DOMAIN channel : ~Reply(i)) /\ Len(channel) <= MaxMessages
  BY <1>1, NoReply
<1>4. TraceTypes' /\ Entry' = Entry /\ Message' = Message /\ buffer' = buffer /\ count' = count
  BY <1>1, SameTrace
<1>5. PageTypes'
  <2>1. PageTypes
    BY TypesSplit
  <2>2. subscribed' \in BOOLEAN /\ asked' \in BOOLEAN /\ awaiting' \in BOOLEAN
    BY <1>2, <2>1, Zenon DEF PageTypes
  <2>. QED BY <1>1, <1>4, <2>1, <2>2 DEF PageTypes
<1>6. TypeOK'
  BY <1>4, <1>5, TypesSplit, PTL
<1>7. OneReply'
  <2>1. Len(channel) \in Nat /\ MaxMessages \in Nat
    BY MonitorAssumption, ChannelHolds
  <2>. QED BY <1>1, <1>3, <2>1 DEF OneReply, Reply
<1>8. ClearInv'
  BY <1>1, <1>3, <1>4 DEF ClearInv, Reply, After
<1>. QED BY <1>6, <1>7, <1>8

LEMMA SelectKeeps ==
  ASSUME MonitorInv, Select
  PROVE  MonitorInv'
<1>. USE DEF MonitorInv
<1>. DEFINE m == [kind |-> "snapshot", entries |-> buffer]
<1>1. UNCHANGED <<traceVars, page, cleared>> /\ (channel' = <<m>> \/ channel' = <<>>)
  BY DEF Select
<1>2. subscribed' = loaded /\ awaiting' = FALSE /\ asked' = asked
  BY Zenon DEF Select
<1>3. TraceTypes' /\ Entry' = Entry /\ Message' = Message /\ buffer' = buffer /\ count' = count
  BY <1>1, SameTrace
<1>4. m \in Message /\ m.kind = "snapshot" /\ m.entries = buffer
  BY DEF TypeOK, Message
<1>. HIDE DEF m
<1>5. /\ channel' \in Seq(Message) /\ Len(channel') <= 1
      /\ \A i \in DOMAIN channel' : channel'[i] = m
  <2>1. CASE channel' = <<m>>
    BY <1>4, <2>1
  <2>2. CASE channel' = <<>>
    <3>1. channel' \in Seq(Message) /\ Len(channel') = 0 /\ DOMAIN channel' = {}
      BY <2>2, EmptySeq
    <3>. QED BY <3>1
  <2>. QED BY <1>1, <2>1, <2>2
<1>6. MaxMessages \in Nat \ {0} /\ Len(channel') \in Nat
  BY <1>5, MonitorAssumption, LenProperties
<1>7. PageTypes'
  <2>1. PageTypes /\ TraceTypes
    BY TypesSplit
  <2>2. subscribed' \in BOOLEAN /\ asked' \in BOOLEAN /\ awaiting' \in BOOLEAN
    BY <1>2, <2>1, Zenon DEF PageTypes, TraceTypes
  <2>3. Len(channel') <= MaxMessages + 1
    BY <1>5, <1>6
  <2>. QED BY <1>1, <1>3, <1>5, <2>1, <2>2, <2>3 DEF PageTypes
<1>8. TypeOK'
  BY <1>3, <1>7, TypesSplit, PTL
<1>9. OneReply'
  <2>1. ~(Len(channel') > MaxMessages)
    BY <1>5, <1>6
  <2>2. \A i \in DOMAIN channel' : channel'[i].kind # "cleared"
    BY <1>4, <1>5
  <2>. QED BY <2>1, <2>2 DEF OneReply, Reply
<1>10. ClearInv'
  BY <1>1, <1>3, <1>4, <1>5 DEF ClearInv, Reply, After
<1>. QED BY <1>8, <1>9, <1>10

\* A message arrives: the channel moves up by one.
LEMMA Arrived ==
  ASSUME MonitorInv, NEW kind, Arrives(kind)
  PROVE  /\ 1 \in DOMAIN channel /\ Head(channel) = channel[1] /\ channel[1].kind = kind
         /\ channel' \in Seq(Message) /\ Len(channel') = Len(channel) - 1
         /\ Len(channel) \in Nat
         /\ \A i \in DOMAIN channel' : /\ i \in Nat /\ i + 1 \in DOMAIN channel /\ i + 1 > 1
                                       /\ channel'[i] = channel[i + 1]
         /\ \A i \in DOMAIN channel : i > 1 => i - 1 \in DOMAIN channel' /\ channel'[i - 1] = channel[i]
<1>1. channel \in Seq(Message) /\ channel # <<>> /\ channel' = Tail(channel) /\ Head(channel).kind = kind
  BY DEF MonitorInv, TypeOK, Arrives
<1>2. /\ Head(channel) = channel[1] /\ Tail(channel) \in Seq(Message)
      /\ DOMAIN channel = 1 .. Len(channel) /\ Len(channel) \in Nat \ {0}
      /\ DOMAIN Tail(channel) = 1 .. (Len(channel) - 1)
      /\ \A j \in 1 .. (Len(channel) - 1) : Tail(channel)[j] = channel[j + 1]
  BY <1>1, TailFacts
<1>3. Len(channel') = Len(channel) - 1
  BY <1>1, <1>2, LenProperties
<1>4. \A i \in DOMAIN channel' : i \in Nat /\ i + 1 \in DOMAIN channel /\ i + 1 > 1
                                 /\ channel'[i] = channel[i + 1]
  BY <1>1, <1>2
<1>5. \A i \in DOMAIN channel : i > 1 => i - 1 \in DOMAIN channel' /\ channel'[i - 1] = channel[i]
  <2>. SUFFICES ASSUME NEW i \in DOMAIN channel, i > 1
                PROVE  i - 1 \in DOMAIN channel' /\ channel'[i - 1] = channel[i]
    OBVIOUS
  <2>1. i - 1 \in 1 .. (Len(channel) - 1) /\ (i - 1) + 1 = i
    BY <1>2
  <2>. QED BY <1>1, <1>2, <2>1
<1>. QED BY <1>1, <1>2, <1>3, <1>4, <1>5

LEMMA IngestKeeps ==
  ASSUME MonitorInv, Ingest
  PROVE  MonitorInv'
<1>. USE DEF MonitorInv
<1>1. /\ Arrives("snapshot") /\ page' = Merge(page, Head(channel).entries)
      /\ UNCHANGED <<traceVars, cleared>>
  BY Zenon DEF Ingest
<1>2. subscribed' = subscribed /\ asked' = asked /\ awaiting' = awaiting
  BY Zenon DEF Ingest
<1>3. TraceTypes' /\ Entry' = Entry /\ Message' = Message /\ buffer' = buffer /\ count' = count
  BY <1>1, SameTrace
<1>4. /\ 1 \in DOMAIN channel /\ Head(channel) = channel[1] /\ channel[1].kind = "snapshot"
      /\ channel' \in Seq(Message) /\ Len(channel') = Len(channel) - 1 /\ Len(channel) \in Nat
      /\ \A i \in DOMAIN channel' : /\ i \in Nat /\ i + 1 \in DOMAIN channel
                                    /\ channel'[i] = channel[i + 1]
      /\ \A i \in DOMAIN channel : i > 1 => i - 1 \in DOMAIN channel' /\ channel'[i - 1] = channel[i]
  BY <1>1, Arrived
<1>. DEFINE snapshot == channel[1].entries
<1>5. ~Reply(1) /\ snapshot \in Seq(Entry) /\ page \in Seq(Entry)
  BY <1>4, ChannelHolds DEF Reply, TypeOK
<1>6. \A e \in Entry : e.ms \in Nat
  BY DEF Entry
<1>7. /\ page' \in Seq(Entry) /\ Len(page') <= Limit
      /\ EntriesOf(page') \subseteq EntriesOf(page) \cup EntriesOf(snapshot)
  <2>1. page' = Merge(page, snapshot)
    BY <1>1, <1>4
  <2>. HIDE DEF snapshot
  <2>. QED BY <1>5, <1>6, <2>1, MergeIsHistory
<1>8. After(page', cleared)
  BY <1>4, <1>5, <1>7 DEF ClearInv, After
<1>9. PageTypes'
  <2>1. PageTypes
    BY TypesSplit
  <2>2. subscribed' \in BOOLEAN /\ asked' \in BOOLEAN /\ awaiting' \in BOOLEAN
    BY <1>2, <2>1, Zenon DEF PageTypes
  <2>3. Len(channel') <= MaxMessages + 1
    BY <1>4, <2>1, MonitorAssumption DEF PageTypes
  <2>. QED BY <1>1, <1>3, <1>4, <1>7, <2>1, <2>2, <2>3 DEF PageTypes
<1>10. TypeOK'
  BY <1>3, <1>9, TypesSplit, PTL
<1>11. OneReply'
  <2>1. \A i \in DOMAIN channel' : channel'[i].kind = "cleared" => Reply(i + 1)
    BY <1>4 DEF Reply
  <2>2. \A i, j \in DOMAIN channel' :
          channel'[i].kind = "cleared" /\ channel'[j].kind = "cleared" => i = j
    <3>. SUFFICES ASSUME NEW i \in DOMAIN channel', NEW j \in DOMAIN channel',
                         channel'[i].kind = "cleared", channel'[j].kind = "cleared"
                  PROVE  i = j
      OBVIOUS
    <3>1. i + 1 = j + 1
      BY <1>4, <2>1 DEF OneReply
    <3>. QED BY <1>4, <3>1
  <2>3. \A i \in DOMAIN channel' : channel'[i].kind = "cleared" => awaiting' /\ ~asked'
    <3>. SUFFICES ASSUME NEW i \in DOMAIN channel', channel'[i].kind = "cleared"
                  PROVE  awaiting' /\ ~asked'
      OBVIOUS
    <3>1. i + 1 \in DOMAIN channel /\ Reply(i + 1)
      BY <1>4, <2>1
    <3>2. awaiting /\ ~asked
      BY <3>1, Zenon DEF OneReply
    <3>. QED BY <1>2, <3>2, Zenon
  <2>4. ~(Len(channel') > MaxMessages)
    BY <1>4, MonitorAssumption DEF TypeOK
  <2>. QED BY <2>2, <2>3, <2>4 DEF OneReply, Reply
<1>12. ClearInv'
  <2>1. \A i \in DOMAIN channel' : channel'[i].kind # "cleared" => After(channel'[i].entries, cleared)
    BY <1>4 DEF ClearInv, Reply
  <2>2. ASSUME NEW i \in DOMAIN channel', channel'[i].kind = "cleared"
        PROVE  /\ After(buffer, channel'[i].upto)
               /\ \A j \in DOMAIN channel' : j > i => After(channel'[j].entries, channel'[i].upto)
    <3>1. i + 1 \in DOMAIN channel /\ Reply(i + 1) /\ channel'[i] = channel[i + 1]
      BY <1>4, <2>2 DEF Reply
    <3>2. After(buffer, channel'[i].upto)
      BY <3>1 DEF ClearInv
    <3>3. ASSUME NEW j \in DOMAIN channel', j > i
          PROVE  After(channel'[j].entries, channel'[i].upto)
      <4>1. j + 1 \in DOMAIN channel /\ j + 1 > i + 1 /\ channel'[j] = channel[j + 1]
        BY <1>4, <3>3
      <4>. QED BY <3>1, <4>1 DEF ClearInv
    <3>. QED BY <3>2, <3>3
  <2>3. After(buffer, cleared)
    BY DEF ClearInv
  <2>. QED BY <1>1, <1>3, <1>8, <2>1, <2>2, <2>3 DEF ClearInv, Reply, After
<1>. QED BY <1>10, <1>11, <1>12

LEMMA ClearDoneKeeps ==
  ASSUME MonitorInv, ClearDone
  PROVE  MonitorInv'
<1>. USE DEF MonitorInv
<1>1. /\ Arrives("cleared") /\ page' = <<>> /\ cleared' = Head(channel).upto
      /\ UNCHANGED traceVars
  BY Zenon DEF ClearDone
<1>2. subscribed' = subscribed /\ asked' = asked /\ awaiting' = FALSE
  BY Zenon DEF ClearDone
<1>3. TraceTypes' /\ Entry' = Entry /\ Message' = Message /\ buffer' = buffer /\ count' = count
  BY <1>1, SameTrace
<1>4. /\ 1 \in DOMAIN channel /\ Head(channel) = channel[1] /\ channel[1].kind = "cleared"
      /\ channel' \in Seq(Message) /\ Len(channel') = Len(channel) - 1 /\ Len(channel) \in Nat
      /\ \A i \in DOMAIN channel' : /\ i \in Nat /\ i + 1 \in DOMAIN channel /\ i + 1 > 1
                                    /\ channel'[i] = channel[i + 1]
  BY <1>1, Arrived
<1>5. Reply(1) /\ channel[1].upto \in 0 .. count /\ cleared' = channel[1].upto
  BY <1>1, <1>4, ChannelHolds DEF Reply
<1>6. page' \in Seq(Entry) /\ Len(page') = 0 /\ EntriesOf(page') = {}
  BY <1>1, EmptySeq DEF EntriesOf
<1>7. \A i \in DOMAIN channel' : channel'[i].kind # "cleared"
  BY <1>4, <1>5 DEF OneReply, Reply
<1>8. PageTypes'
  <2>1. PageTypes
    BY TypesSplit
  <2>2. subscribed' \in BOOLEAN /\ asked' \in BOOLEAN /\ awaiting' \in BOOLEAN
    BY <1>2, <2>1, Zenon DEF PageTypes
  <2>3. Len(channel') <= MaxMessages + 1 /\ Len(page') <= Limit
    BY <1>4, <1>6, <2>1, MonitorAssumption DEF PageTypes
  <2>. QED BY <1>1, <1>3, <1>4, <1>5, <1>6, <2>1, <2>2, <2>3 DEF PageTypes
<1>9. TypeOK'
  BY <1>3, <1>8, TypesSplit, PTL
<1>10. OneReply'
  <2>1. ~(Len(channel') > MaxMessages)
    BY <1>4, MonitorAssumption DEF TypeOK
  <2>. QED BY <1>7, <2>1 DEF OneReply, Reply
<1>11. ClearInv'
  <2>1. \A i \in DOMAIN channel' : After(channel'[i].entries, cleared')
    BY <1>4, <1>5, <1>7 DEF ClearInv, Reply
  <2>2. After(buffer, cleared')
    BY <1>4, <1>5 DEF ClearInv
  <2>. QED BY <1>3, <1>6, <1>7, <2>1, <2>2 DEF ClearInv, Reply, After
<1>. QED BY <1>9, <1>10, <1>11

-----------------------------------------------------------------------------
LEMMA MonitorInvariant == Spec => []MonitorInv
<1>1. Init => MonitorInv
  BY InitTrace DEF MonitorInv
<1>2. MonitorInv /\ [Next]_vars => MonitorInv'
  <2>. SUFFICES ASSUME MonitorInv, [Next]_vars PROVE MonitorInv'
    OBVIOUS
  <2>1. CASE TraceStep
    BY <2>1, RecordsKeep, TraceKeeps DEF TraceStep
  <2>2. CASE ServerStep
    BY <2>2, PublishKeeps, ClearRunsKeeps, ClearRefusedKeeps, TraceKeeps DEF ServerStep
  <2>3. CASE PageStep
    BY <2>3, SelectKeeps, IngestKeeps, AskClearKeeps, ClearDoneKeeps DEF PageStep
  <2>4. CASE UNCHANGED vars
    <3>1. UNCHANGED <<traceVars, pageVars>>
      BY <2>4 DEF vars
    <3>2. UNCHANGED <<subscribed, channel, asked, awaiting, page, cleared>>
      BY <3>1, Zenon DEF pageVars
    <3>3. TraceTypes' /\ Entry' = Entry /\ Message' = Message /\ buffer' = buffer /\ count' = count
      BY <3>1, SameTrace
    <3>4. PageTypes
      BY TypesSplit DEF MonitorInv
    <3>5. subscribed' \in BOOLEAN /\ asked' \in BOOLEAN /\ awaiting' \in BOOLEAN
      BY <3>2, <3>4, Zenon DEF PageTypes
    <3>6. page' = page /\ channel' = channel /\ cleared' = cleared
      BY <3>2
    <3>7. PageTypes'
      BY <3>3, <3>4, <3>5, <3>6 DEF PageTypes
    <3>8. TypeOK'
      BY <3>3, <3>7, TypesSplit, PTL
    <3>9. OneReply'
      BY <3>2, Zenon DEF MonitorInv, OneReply, Reply
    <3>10. ClearInv'
      BY <3>3, <3>6 DEF MonitorInv, ClearInv, Reply, After
    <3>. QED BY <3>8, <3>9, <3>10 DEF MonitorInv
  <2>. QED BY <2>1, <2>2, <2>3, <2>4 DEF Next
<1>. QED BY <1>1, <1>2, PTL DEF Spec

(***************************************************************************)
(* The trace, the page and what is on its way between them have their      *)
(* types; the buffer never holds more than its capacity, the page never    *)
(* more than its limit.                                                    *)
(***************************************************************************)
THEOREM MonitorTypeCorrect == Spec => []TypeOK
BY MonitorInvariant, PTL DEF MonitorInv

(***************************************************************************)
(* What the page's administrator cleared stays away: the snapshots that    *)
(* were under way come before the reply on a connection that keeps its     *)
(* order, and the next subscription starts from the buffer (_clear).       *)
(***************************************************************************)
THEOREM ClearedIsGone == Spec => []ClearedStaysAway
<1>1. MonitorInv => ClearedStaysAway
  BY DEF MonitorInv, ClearInv, ClearedStaysAway, After
<1>. QED BY <1>1, MonitorInvariant, PTL

-----------------------------------------------------------------------------
(***************************************************************************)
(* The order of the page.                                                  *)
(*                                                                         *)
(* A snapshot is a window of the trace: consecutive numbers of one run.    *)
(* The windows under way and the buffer behind them never go back, and no  *)
(* two of them leave a gap a later one would fill.  So an entry that is    *)
(* new to the page and belongs before one that is there can only be an     *)
(* entry the page had and lost; the page loses what is oldest by its       *)
(* clock, which within one run is not newer than what it keeps.            *)
(***************************************************************************)

\* Entries of a trace: a number names one of them, and time follows the
\* numbers within a run.
History(E) ==
  \A e, d \in E :
    /\ e.n = d.n => e = d
    /\ e.n < d.n => e.epoch <= d.epoch /\ (e.epoch = d.epoch => e.ms <= d.ms)

Window(S) ==
  Len(S) <= Capacity /\ \A i \in DOMAIN S : S[i].n = S[1].n + (i - 1) /\ S[i].epoch = S[1].epoch

\* Nothing in A is newer than the end of S.
Behind(A, S) ==
  \A a \in A, b \in EntriesOf(S) : a.epoch <= b.epoch /\ (a.epoch = b.epoch => a.n <= S[Len(S)].n)

\* What S shows again of R is in R.
NoGap(R, S) == \A a \in EntriesOf(R), b \in EntriesOf(S) : b.n <= a.n => R[1].n <= b.n

\* X has a later time of another run: where x belongs the numbers say nothing.
Hidden(x, X) == \E z \in EntriesOf(X) : z.epoch # x.epoch /\ z.ms > x.ms

Covered(S, X) ==
  \A b \in EntriesOf(S), a \in EntriesOf(X) :
    a.epoch = b.epoch /\ b.n <= a.n => (\E t \in EntriesOf(X) : Key(t) = Key(b)) \/ Hidden(b, X)

InOrder(X) ==
  \A i, j \in DOMAIN X : i < j =>
    /\ X[i].ms <= X[j].ms /\ Key(X[i]) # Key(X[j])
    /\ X[i].epoch = X[j].epoch => X[i].n < X[j].n \/ Hidden(X[i], X)

\* The hypothesis: of one millisecond there are never so many entries that the
\* page could lose some of a snapshot it takes in.
Sparse(X) ==
  \A i \in DOMAIN X : Cardinality({j \in DOMAIN X : X[j].ms = X[i].ms}) <= Limit - Capacity

LEMMA Remainder ==
  ASSUME NEW A, IsFiniteSet(A), NEW B \in SUBSET A
  PROVE  IsFiniteSet(A \ B) /\ Cardinality(A \ B) = Cardinality(A) - Cardinality(B)
<1>1. A \cap B = B
  OBVIOUS
<1>. QED BY <1>1, FS_Difference

\* A full page that has nothing older than an entry of a snapshot hides it:
\* there are more later entries than the snapshot can have.
LEMMA FullPage ==
  ASSUME NEW T, \A e \in T : e.ms \in Nat /\ e.n \in Nat /\ e.epoch \in Nat,
         NEW X \in Seq(T), NEW S \in Seq(T), Window(S), Len(X) = Limit, Sparse(X),
         \A p, q \in DOMAIN X : p < q => Key(X[p]) # Key(X[q]),
         History(EntriesOf(X) \cup EntriesOf(S)), Behind(EntriesOf(X), S),
         NEW b \in EntriesOf(S), \A p \in DOMAIN X : b.ms <= X[p].ms
  PROVE  Hidden(b, X)
<1>. SUFFICES ASSUME ~Hidden(b, X) PROVE FALSE
  OBVIOUS
<1>. DEFINE Same == {p \in DOMAIN X : X[p].ms = b.ms}
            Later == DOMAIN X \ Same
            top == b.n + (Capacity - 1)
            number == [p \in Later |-> X[p].n]
<1>1. /\ Capacity \in Nat \ {0} /\ Limit \in Nat \ {0} /\ Capacity <= Limit
  BY MonitorAssumption
<1>2. /\ DOMAIN X = 1 .. Limit /\ IsFiniteSet(DOMAIN X) /\ Cardinality(DOMAIN X) = Limit
      /\ \A p \in DOMAIN X : X[p] \in T /\ X[p] \in EntriesOf(X)
      /\ DOMAIN S = 1 .. Len(S) /\ Len(S) \in Nat
      /\ \A i \in DOMAIN S : S[i] \in T
  <2>1. DOMAIN X = 1 .. Limit /\ DOMAIN S = 1 .. Len(S) /\ Len(S) \in Nat
    BY LenProperties
  <2>2. IsFiniteSet(1 .. Limit) /\ Cardinality(1 .. Limit) = Limit
    <3>1. 1 \in Int /\ Limit \in Int /\ ~(1 > Limit) /\ Limit - 1 + 1 = Limit
      BY <1>1
    <3>. QED BY <3>1, FS_Interval
  <2>. QED BY <2>1, <2>2, ElementOfSeq DEF EntriesOf
<1>3. b \in T
  BY <1>2 DEF EntriesOf
<1>4. /\ Same \in SUBSET DOMAIN X /\ IsFiniteSet(Same) /\ Cardinality(Same) \in Nat
      /\ Cardinality(Same) <= Limit - Capacity
  <2>1. Same \in SUBSET DOMAIN X
    OBVIOUS
  <2>2. IsFiniteSet(Same) /\ Cardinality(Same) \in Nat
    <3>. HIDE DEF Same
    <3>. QED BY <1>2, <2>1, FS_Subset, FS_CardinalityType
  <2>4. CASE Same = {}
    <3>. HIDE DEF Same
    <3>. QED BY <1>1, <2>4, FS_EmptySet
  <2>3. ASSUME NEW p \in Same PROVE Cardinality(Same) <= Limit - Capacity
    <3>1. Same = {j \in DOMAIN X : X[j].ms = X[p].ms}
      OBVIOUS
    <3>. HIDE DEF Same
    <3>2. p \in DOMAIN X
      BY <2>3 DEF Same
    <3>. QED BY <3>1, <3>2 DEF Sparse
  <2>. QED BY <2>1, <2>2, <2>3, <2>4
<1>5. IsFiniteSet(Later) /\ Cardinality(Later) \in Nat /\ Cardinality(Later) >= Capacity
  <2>. HIDE DEF Same
  <2>2. IsFiniteSet(Later) /\ Cardinality(Later) = Limit - Cardinality(Same)
    BY <1>2, <1>4, Remainder
  <2>. HIDE DEF Later
  <2>3. Cardinality(Later) \in Nat
    BY <2>2, FS_CardinalityType
  <2>. QED BY <1>1, <1>4, <2>2, <2>3
<1>6. ASSUME NEW p \in Later PROVE X[p].n \in (b.n + 1) .. top
  <2>1. /\ p \in DOMAIN X /\ X[p] \in T /\ X[p] \in EntriesOf(X)
        /\ X[p].ms > b.ms /\ X[p].ms \in Nat /\ X[p].n \in Nat
        /\ b.n \in Nat /\ b.ms \in Nat
    BY <1>2, <1>3
  <2>2. X[p].epoch = b.epoch
    BY <2>1 DEF Hidden
  <2>3. b.n < X[p].n
    <3>1. X[p].n # b.n
      BY <2>1 DEF History
    <3>2. ~(X[p].n < b.n)
      BY <2>1, <2>2 DEF History
    <3>. QED BY <2>1, <3>1, <3>2
  <2>4. PICK i \in DOMAIN S : b = S[i]
    BY DEF EntriesOf
  <2>5. /\ S[Len(S)].n = S[1].n + (Len(S) - 1) /\ b.n = S[1].n + (i - 1)
        /\ S[1] \in T /\ S[1].n \in Nat /\ i \in 1 .. Len(S) /\ Len(S) <= Capacity
    <3>1. Len(S) \in DOMAIN S /\ 1 \in DOMAIN S /\ i \in 1 .. Len(S)
      BY <1>2
    <3>. QED BY <1>2, <2>4, <3>1 DEF Window
  <2>6. X[p].n <= S[Len(S)].n
    BY <2>1, <2>2 DEF Behind
  <2>7. S[Len(S)].n <= b.n + (Capacity - 1)
    <3>1. Len(S) \in Nat /\ Len(S) - 1 <= (i - 1) + (Capacity - 1) /\ i \in Nat
      BY <1>1, <1>2, <2>5
    <3>2. \A x \in Nat : x + (Len(S) - 1) <= (x + (i - 1)) + (Capacity - 1)
      BY <1>1, <3>1
    <3>3. S[1].n + (Len(S) - 1) <= (S[1].n + (i - 1)) + (Capacity - 1)
      BY <2>5, <3>2
    <3>. QED BY <2>5, <3>3, Zenon
  <2>8. X[p].n <= b.n + (Capacity - 1)
    <3>1. S[Len(S)].n \in Nat
      BY <1>2, <2>5
    <3>. QED BY <1>1, <2>1, <2>6, <2>7, <3>1
  <2>. QED BY <1>1, <2>1, <2>3, <2>8
<1>7. /\ IsFiniteSet((b.n + 1) .. top)
      /\ Cardinality((b.n + 1) .. top) = Capacity - 1
  <2>1. b.n + 1 \in Int /\ top \in Int
    BY <1>1, <1>3
  <2>2. IF b.n + 1 > top THEN Capacity - 1 = 0 ELSE top - (b.n + 1) + 1 = Capacity - 1
    BY <1>1, <1>3
  <2>. HIDE DEF top
  <2>. QED BY <2>1, <2>2, FS_Interval
<1>8. number \in [Later -> (b.n + 1) .. top]
  BY <1>6
<1>. HIDE DEF Later, number, top
<1>9. PICK p \in Later, q \in Later : p # q /\ number[p] = number[q]
  <2>. DEFINE Numbers == (b.n + 1) .. top
  <2>1. IsFiniteSet(Later) /\ IsFiniteSet(Numbers) /\ number \in [Later -> Numbers]
    BY <1>5, <1>7, <1>8
  <2>2. Cardinality(Numbers) < Cardinality(Later)
    BY <1>1, <1>5, <1>7
  <2>. HIDE DEF Numbers
  <2>. QED BY <2>1, <2>2, FS_PigeonHole
<1>10. X[p].n = X[q].n /\ p \in 1 .. Limit /\ q \in 1 .. Limit
  BY <1>2, <1>9 DEF Later, number
<1>11. X[p] = X[q]
  BY <1>2, <1>10 DEF History
<1>12. p < q \/ q < p
  BY <1>1, <1>9, <1>10
<1>. QED BY <1>2, <1>10, <1>11, <1>12

\* What the page had stays on it, or the page is full of entries not older.
LEMMA MergeKeeps ==
  ASSUME NEW T, \A e \in T : e.ms \in Nat /\ e.n \in Nat /\ e.epoch \in Nat,
         NEW X \in Seq(T), NEW S \in Seq(T), InOrder(X), NEW z \in EntriesOf(X)
  PROVE  LET merged == Merge(X, S)
         IN  \/ z \in EntriesOf(merged)
             \/ Len(merged) = Limit /\ \A p \in DOMAIN merged : z.ms <= merged[p].ms
<1>. DEFINE all == X \o S
            merged == Merge(X, S)
<1>1. /\ all \in Seq(T) /\ DOMAIN all = 1 .. Len(all) /\ Len(all) = Len(X) + Len(S)
      /\ DOMAIN X = 1 .. Len(X) /\ Len(X) \in Nat /\ Len(S) \in Nat
      /\ \A i \in 1 .. Len(all) : all[i] = IF i <= Len(X) THEN X[i] ELSE S[i - Len(X)]
  BY ConcatProperties, LenProperties
<1>2. \A i \in Firsts(all) : \/ \E p \in DOMAIN merged : merged[p] = all[i]
                             \/ Len(merged) = Limit /\ \A p \in DOMAIN merged : all[i].ms <= merged[p].ms
  <2>1. PICK src \in [DOMAIN merged -> Firsts(all)] :
          /\ \A p \in DOMAIN merged : merged[p] = all[src[p]]
          /\ \A i \in Firsts(all) :
               \/ \E p \in DOMAIN merged : src[p] = i
               \/ Len(merged) = Limit /\ \A p \in DOMAIN merged : all[i].ms <= merged[p].ms
    BY MergePlaces
  <2>. HIDE DEF all, merged
  <2>. QED BY <2>1
<1>. HIDE DEF all, merged
<1>3. PICK i \in DOMAIN X : z = X[i]
  BY DEF EntriesOf
<1>4. i \in 1 .. Len(all) /\ all[i] = z /\ \A j \in 1 .. i - 1 : j \in DOMAIN X /\ j < i /\ all[j] = X[j]
  BY <1>1, <1>3
<1>5. i \in Firsts(all)
  BY <1>1, <1>3, <1>4 DEF Firsts, InOrder
<1>. QED BY <1>2, <1>4, <1>5 DEF EntriesOf, merged

\* The merge keeps the order, whatever the page holds and the snapshot shows.
LEMMA MergeKeepsOrder ==
  ASSUME NEW T, \A e \in T : e.ms \in Nat /\ e.n \in Nat /\ e.epoch \in Nat,
         NEW X \in Seq(T), NEW S \in Seq(T), Window(S), InOrder(X), Covered(S, X),
         History(EntriesOf(X) \cup EntriesOf(S))
  PROVE  InOrder(Merge(X, S))
<1>. DEFINE all == X \o S
            merged == Merge(X, S)
<1>1. /\ all \in Seq(T) /\ DOMAIN all = 1 .. Len(all) /\ Len(all) = Len(X) + Len(S)
      /\ DOMAIN X = 1 .. Len(X) /\ Len(X) \in Nat /\ DOMAIN S = 1 .. Len(S) /\ Len(S) \in Nat
      /\ \A i \in 1 .. Len(all) : all[i] = IF i <= Len(X) THEN X[i] ELSE S[i - Len(X)]
  BY ConcatProperties, LenProperties
<1>2. /\ merged \in Seq(T)
      /\ \E src \in [DOMAIN merged -> Firsts(all)] :
           /\ \A p \in DOMAIN merged : merged[p] = all[src[p]]
           /\ \A p, q \in DOMAIN merged : p < q => Earlier(all, src[p], src[q])
  BY MergePlaces
<1>3. \A z \in EntriesOf(X) :
        \/ z \in EntriesOf(merged)
        \/ \A p \in DOMAIN merged : z.ms <= merged[p].ms
  BY MergeKeeps
<1>4. \A p, q \in DOMAIN merged : p < q =>
        merged[p].ms <= merged[q].ms /\ Key(merged[p]) # Key(merged[q])
  BY MergeIsHistory
<1>5. \A i \in DOMAIN all : /\ all[i] \in T /\ i \in Nat
                            /\ i <= Len(X) => i \in DOMAIN X /\ all[i] = X[i] /\ all[i] \in EntriesOf(X)
                            /\ i > Len(X) => i - Len(X) \in DOMAIN S /\ all[i] = S[i - Len(X)]
                                             /\ all[i] \in EntriesOf(S)
  <2>. SUFFICES ASSUME NEW i \in DOMAIN all
                PROVE  /\ all[i] \in T /\ i \in Nat
                       /\ i <= Len(X) => i \in DOMAIN X /\ all[i] = X[i] /\ all[i] \in EntriesOf(X)
                       /\ i > Len(X) => i - Len(X) \in DOMAIN S /\ all[i] = S[i - Len(X)]
                                        /\ all[i] \in EntriesOf(S)
    OBVIOUS
  <2>. HIDE DEF all
  <2>1. all[i] \in T /\ i \in Nat
    BY <1>1, ElementOfSeq
  <2>2. i <= Len(X) => i \in DOMAIN X /\ all[i] = X[i]
    BY <1>1
  <2>3. i > Len(X) => i - Len(X) \in DOMAIN S /\ all[i] = S[i - Len(X)]
    BY <1>1
  <2>. QED BY <2>1, <2>2, <2>3 DEF EntriesOf
<1>. HIDE DEF all, merged
<1>6. PICK src \in [DOMAIN merged -> Firsts(all)] :
        /\ \A p \in DOMAIN merged : merged[p] = all[src[p]]
        /\ \A p, q \in DOMAIN merged : p < q => Earlier(all, src[p], src[q])
  BY <1>2
<1>7. ASSUME NEW x \in EntriesOf(merged), Hidden(x, X) PROVE Hidden(x, merged)
  <2>1. PICK z \in EntriesOf(X) : z.epoch # x.epoch /\ z.ms > x.ms
    BY <1>7 DEF Hidden
  <2>2. z.ms \in Nat /\ x.ms \in Nat
    <3>1. z \in T /\ x \in T
      BY <1>2, ElementOfSeq DEF EntriesOf
    <3>. QED BY <3>1
  <2>3. PICK p \in DOMAIN merged : x = merged[p]
    BY DEF EntriesOf
  <2>4. ~(z.ms <= merged[p].ms)
    BY <2>1, <2>2, <2>3
  <2>. QED BY <1>3, <2>1, <2>4 DEF Hidden
<1>8. ASSUME NEW p \in DOMAIN merged, NEW q \in DOMAIN merged, p < q,
             merged[p].epoch = merged[q].epoch
      PROVE  merged[p].n < merged[q].n \/ Hidden(merged[p], merged)
  <2>. DEFINE x == merged[p]
              y == merged[q]
              i == src[p]
              j == src[q]
  <2>1. /\ i \in Firsts(all) /\ j \in Firsts(all) /\ x = all[i] /\ y = all[j]
        /\ Earlier(all, i, j) /\ Key(x) # Key(y)
    BY <1>4, <1>6, <1>8
  <2>2. i \in DOMAIN all /\ j \in DOMAIN all
    BY <2>1 DEF Firsts
  <2>3. x \in EntriesOf(merged)
    BY DEF EntriesOf
  <2>a. x.epoch = y.epoch
    BY <1>8
  <2>. HIDE DEF x, y, i, j
  <2>4. /\ x \in EntriesOf(X) \cup EntriesOf(S) /\ y \in EntriesOf(X) \cup EntriesOf(S)
        /\ x \in T /\ y \in T /\ i \in Nat /\ j \in Nat
    BY <1>1, <1>5, <2>1, <2>2
  <2>5. /\ x.n \in Nat /\ y.n \in Nat /\ x.ms \in Nat /\ y.ms \in Nat
        /\ x.n # y.n /\ (y.n < x.n => y.ms <= x.ms)
    BY <2>1, <2>4, <2>a DEF History
  <2>6. CASE x.ms < y.ms
    BY <2>5, <2>6 DEF x, y
  <2>7. CASE x.ms = y.ms
    <3>1. i < j
      BY <2>1, <2>5, <2>7 DEF Earlier
    <3>2. CASE j <= Len(X)
      <4>1. i \in DOMAIN X /\ j \in DOMAIN X /\ x = X[i] /\ y = X[j]
        BY <1>1, <1>5, <2>1, <2>2, <2>4, <3>1, <3>2
      <4>2. x.n < y.n \/ Hidden(x, X)
        BY <2>a, <3>1, <4>1 DEF InOrder
      <4>. QED BY <1>7, <2>3, <4>2 DEF x, y
    <3>3. CASE i > Len(X)
      <4>1. /\ i - Len(X) \in DOMAIN S /\ j - Len(X) \in DOMAIN S
            /\ x = S[i - Len(X)] /\ y = S[j - Len(X)]
        BY <1>1, <1>5, <2>1, <2>2, <2>4, <3>1, <3>3
      <4>2. x.n = S[1].n + ((i - Len(X)) - 1) /\ y.n = S[1].n + ((j - Len(X)) - 1)
        BY <4>1 DEF Window
      <4>3. S[1] \in T /\ S[1].n \in Nat
        <5>1. 1 \in DOMAIN S
          BY <1>1, <4>1
        <5>. QED BY <5>1, ElementOfSeq, <1>1
      <4>4. x.n < y.n
        BY <1>1, <2>4, <3>1, <4>2, <4>3
      <4>. QED BY <4>4 DEF x, y
    <3>4. CASE i <= Len(X) /\ j > Len(X)
      <4>1. x \in EntriesOf(X) /\ y \in EntriesOf(S) /\ i \in DOMAIN X
        BY <1>5, <2>1, <2>2, <3>4
      <4>2. CASE y.n < x.n
        <5>1. (\E t \in EntriesOf(X) : Key(t) = Key(y)) \/ Hidden(y, X)
          BY <2>5, <2>a, <4>1, <4>2 DEF Covered
        <5>2. ASSUME NEW t \in EntriesOf(X), Key(t) = Key(y) PROVE FALSE
          <6>1. PICK k \in DOMAIN X : t = X[k]
            BY DEF EntriesOf
          <6>2. k \in 1 .. j - 1 /\ all[k] = t
            BY <1>1, <2>4, <3>4, <6>1
          <6>. QED BY <2>1, <5>2, <6>2 DEF Firsts
        <5>3. Hidden(x, X)
          BY <2>7, <2>a, <5>1, <5>2 DEF Hidden
        <5>. QED BY <1>7, <2>3, <5>3 DEF x
      <4>. QED BY <2>5, <4>2 DEF x, y
    <3>. QED BY <1>1, <2>4, <3>2, <3>3, <3>4
  <2>8. x.ms <= y.ms
    BY <1>4, <1>8 DEF x, y
  <2>. QED BY <2>5, <2>6, <2>7, <2>8
<1>. QED BY <1>4, <1>8 DEF InOrder, merged

\* And what the snapshots behind it show again.
LEMMA MergeKeepsCover ==
  ASSUME NEW T, \A e \in T : e.ms \in Nat /\ e.n \in Nat /\ e.epoch \in Nat,
         NEW X \in Seq(T), NEW S \in Seq(T), NEW R \in Seq(T),
         Window(S), Window(R), NoGap(S, R), InOrder(X), Covered(R, X),
         Behind(EntriesOf(X), R), Behind(EntriesOf(S), R),
         History(EntriesOf(X) \cup EntriesOf(S) \cup EntriesOf(R)), Sparse(Merge(X, S))
  PROVE  Covered(R, Merge(X, S))
<1>. DEFINE merged == Merge(X, S)
<1>1. /\ merged \in Seq(T)
      /\ EntriesOf(merged) \subseteq EntriesOf(X) \cup EntriesOf(S)
      /\ \A p, q \in DOMAIN merged : p < q => Key(merged[p]) # Key(merged[q])
      /\ \A e \in EntriesOf(X) \cup EntriesOf(S) :
           \/ \E p \in DOMAIN merged : Key(merged[p]) = Key(e)
           \/ Len(merged) = Limit /\ \A p \in DOMAIN merged : e.ms <= merged[p].ms
  BY MergeIsHistory
<1>2. \A z \in EntriesOf(X) :
        \/ z \in EntriesOf(merged)
        \/ Len(merged) = Limit /\ \A p \in DOMAIN merged : z.ms <= merged[p].ms
  BY MergeKeeps
<1>3. Sparse(merged)
  OBVIOUS
<1>. HIDE DEF merged
<1>. SUFFICES ASSUME NEW b \in EntriesOf(R), NEW a \in EntriesOf(merged), a.epoch = b.epoch, b.n <= a.n
              PROVE  (\E t \in EntriesOf(merged) : Key(t) = Key(b)) \/ Hidden(b, merged)
  BY DEF Covered, merged
<1>4. History(EntriesOf(merged) \cup EntriesOf(R)) /\ Behind(EntriesOf(merged), R)
  <2>1. Behind(EntriesOf(merged), R)
    BY <1>1 DEF Behind
  <2>2. History(EntriesOf(merged) \cup EntriesOf(R))
    BY <1>1 DEF History
  <2>. QED BY <2>1, <2>2
<1>5. Len(merged) = Limit /\ (\A p \in DOMAIN merged : b.ms <= merged[p].ms) => Hidden(b, merged)
  BY <1>1, <1>3, <1>4, FullPage
<1>6. b \in T
  BY ElementOfSeq, LenProperties DEF EntriesOf
<1>7. (\E t \in EntriesOf(X) \cup EntriesOf(S) : Key(t) = Key(b)) \/ Hidden(b, X)
  <2>1. CASE a \in EntriesOf(X)
    BY <2>1 DEF Covered
  <2>2. CASE a \in EntriesOf(S)
    <3>1. S[1].n <= b.n
      BY <2>2 DEF NoGap
    <3>2. PICK k \in DOMAIN S : a = S[k]
      BY <2>2 DEF EntriesOf
    <3>3. /\ DOMAIN S = 1 .. Len(S) /\ Len(S) \in Nat /\ 1 \in DOMAIN S /\ S[1] \in T
          /\ a.n = S[1].n + (k - 1)
      <4>1. DOMAIN S = 1 .. Len(S) /\ Len(S) \in Nat
        BY LenProperties
      <4>2. 1 \in DOMAIN S
        BY <3>2, <4>1
      <4>. QED BY <3>2, <4>1, <4>2, ElementOfSeq DEF Window
    <3>. DEFINE i == b.n - S[1].n + 1
    <3>4. i \in DOMAIN S /\ i - 1 = b.n - S[1].n
      BY <1>6, <3>1, <3>2, <3>3
    <3>5. S[i].n = S[1].n + (i - 1)
      BY <3>4 DEF Window
    <3>6. S[i].n = b.n
      BY <1>6, <3>3, <3>4, <3>5
    <3>. HIDE DEF i
    <3>7. S[i] = b
      BY <3>4, <3>6 DEF History, EntriesOf
    <3>. QED BY <3>4, <3>7 DEF EntriesOf
  <2>. QED BY <1>1, <2>1, <2>2
<1>8. ASSUME NEW t \in EntriesOf(X) \cup EntriesOf(S), Key(t) = Key(b)
      PROVE  (\E u \in EntriesOf(merged) : Key(u) = Key(b)) \/ Hidden(b, merged)
  <2>1. t.ms = b.ms
    BY <1>8 DEF Key
  <2>. QED BY <1>1, <1>5, <1>8, <2>1 DEF EntriesOf
<1>9. ASSUME NEW z \in EntriesOf(X), z.epoch # b.epoch, z.ms > b.ms
      PROVE  Hidden(b, merged)
  <2>1. CASE z \in EntriesOf(merged)
    BY <1>9, <2>1 DEF Hidden
  <2>2. CASE Len(merged) = Limit /\ \A p \in DOMAIN merged : z.ms <= merged[p].ms
    <3>1. \A p \in DOMAIN merged : merged[p].ms \in Nat
      BY <1>1, ElementOfSeq, LenProperties
    <3>2. z.ms \in Nat /\ b.ms \in Nat
      BY <1>6, ElementOfSeq, LenProperties DEF EntriesOf
    <3>. QED BY <1>5, <1>9, <2>2, <3>1, <3>2
  <2>. QED BY <1>2, <2>1, <2>2
<1>. QED BY <1>7, <1>8, <1>9 DEF Hidden

-----------------------------------------------------------------------------
(***************************************************************************)
(* What the page takes in: the snapshots under way and then the buffer.    *)
(***************************************************************************)
Stages == 1 .. Len(channel) + 1
Sent(i) == IF i \in DOMAIN channel THEN (IF Reply(i) THEN <<>> ELSE channel[i].entries) ELSE buffer

Known == EntriesOf(page) \cup (UNION {EntriesOf(Sent(i)) : i \in Stages})

LastInv == \A e \in Known : e.epoch = epoch => last # None /\ e.ms <= last \div TicksPerMs
BufferInv == buffer # <<>> => buffer[Len(buffer)].n = count /\ buffer[Len(buffer)].epoch = epoch

Follows(R, S) == Window(R) /\ Window(S) /\ Behind(EntriesOf(R), S) /\ NoGap(R, S)
SentInv == \A i, j \in Stages : i <= j => Follows(Sent(i), Sent(j))
PageInv ==
  InOrder(page) /\ \A i \in Stages : Behind(EntriesOf(page), Sent(i)) /\ Covered(Sent(i), page)

\* Exchanges follow one another: what is recorded from a TX to the last answer
\* to it, events apart, is of one exchange.
Exchanges(E) ==
  /\ \A e, d \in E : e.direction # "EVENT" /\ d.direction # "EVENT" /\ d.exchange <= e.n /\ e.n <= d.n
                       => e.exchange = d.exchange
  /\ \A e \in E : (e.direction = "TX" => e.exchange = e.n)
                    /\ (e.direction # "EVENT" => e.exchange # 0 /\ e.exchange <= e.n)
  /\ \A e, d \in E : d.direction # "EVENT" /\ e.n = d.exchange => e.direction = "TX"
Ongoing ==
  exchange # 0 => \A e \in Known : /\ e.direction # "EVENT" /\ exchange <= e.n => e.exchange = exchange
                                   /\ e.n = exchange => e.direction = "TX"

TraceInv ==
  /\ History(Known) /\ Exchanges(Known) /\ LastInv /\ BufferInv /\ Ongoing
  /\ SentInv /\ PageInv

LEMMA SentTypes ==
  ASSUME TypeOK
  PROVE  /\ Len(channel) \in Nat /\ DOMAIN channel = 1 .. Len(channel)
         /\ Len(channel) + 1 \in Stages /\ Sent(Len(channel) + 1) = buffer
         /\ \A i \in Stages : Sent(i) \in Seq(Entry)
         /\ \A e \in Known : e \in Entry /\ e.n \in 1 .. count /\ e.epoch \in 0 .. epoch
                               /\ e.ms \in Nat /\ e.exchange \in 0 .. count
         /\ count \in Nat /\ epoch \in Nat /\ exchange \in 0 .. count
<1>1. Len(channel) \in Nat /\ DOMAIN channel = 1 .. Len(channel)
  BY ChannelHolds
<1>2. Len(channel) + 1 \in Stages /\ Sent(Len(channel) + 1) = buffer
  BY <1>1 DEF Stages, Sent
<1>3. \A i \in Stages : Sent(i) \in Seq(Entry)
  BY ChannelHolds, EmptySeqType DEF Sent, TypeOK
<1>4. page \in Seq(Entry)
  BY DEF TypeOK
<1>5. \A q \in Seq(Entry) : EntriesOf(q) \subseteq Entry
  BY ElementOfSeq, LenProperties DEF EntriesOf
<1>6. Known \subseteq Entry
  BY <1>3, <1>4, <1>5 DEF Known
<1>7. \A e \in Entry : e.n \in 1 .. count /\ e.epoch \in 0 .. epoch
                         /\ e.ms \in Nat /\ e.exchange \in 0 .. count
  BY DEF Entry
<1>. QED BY <1>1, <1>2, <1>3, <1>6, <1>7 DEF TypeOK

\* An empty snapshot promises nothing.
LEMMA EmptyFollows ==
  /\ Window(<<>>)
  /\ \A S : Window(S) => Follows(<<>>, S) /\ Follows(S, <<>>)
  /\ \A A : Behind(A, <<>>) /\ \A X : Covered(<<>>, X)
<1>1. Len(<<>>) = 0 /\ DOMAIN <<>> = {} /\ EntriesOf(<<>>) = {}
  BY EmptySeq DEF EntriesOf
<1>2. Window(<<>>)
  BY <1>1, MonitorAssumption DEF Window
<1>. QED BY <1>1, <1>2 DEF Follows, Behind, NoGap, Covered

\* Snapshots move up, come again or are dropped, and the page stays or empties.
LEMMA SnapshotsMove ==
  ASSUME TypeOK, TraceInv, page' = page \/ page' = <<>>,
         \A i, j \in Stages' : i <= j =>
           \/ Sent(i)' = <<>> \/ Sent(j)' = <<>>
           \/ \E k, l \in Stages : k <= l /\ Sent(i)' = Sent(k) /\ Sent(j)' = Sent(l)
  PROVE  SentInv' /\ PageInv' /\ Known' \subseteq Known
<1>. USE DEF TraceInv
<1>1. \A i \in Stages' : Sent(i)' = <<>> \/ \E k \in Stages : Sent(i)' = Sent(k)
  <2>1. \A i \in Stages' : i <= i
    BY DEF Stages
  <2>. QED BY <2>1
<1>2. \A i \in Stages : Window(Sent(i))
  <2>1. \A i \in Stages : i <= i
    BY DEF Stages
  <2>. QED BY <2>1 DEF SentInv, Follows
<1>3. \A i \in Stages' : Window(Sent(i)')
  BY <1>1, <1>2, EmptyFollows
<1>4. ASSUME NEW i \in Stages', NEW j \in Stages', i <= j
      PROVE  Follows(Sent(i)', Sent(j)')
  <2>1. CASE Sent(i)' = <<>> \/ Sent(j)' = <<>>
    BY <1>3, <2>1, EmptyFollows
  <2>2. CASE \E k, l \in Stages : k <= l /\ Sent(i)' = Sent(k) /\ Sent(j)' = Sent(l)
    BY <2>2 DEF SentInv
  <2>. QED BY <1>4, <2>1, <2>2
<1>5. SentInv'
  BY <1>4 DEF SentInv, Follows, Window, Behind, NoGap, EntriesOf
<1>6. EntriesOf(page') \subseteq EntriesOf(page)
  BY EmptySeq DEF EntriesOf
<1>7. ASSUME NEW i \in Stages'
      PROVE  Behind(EntriesOf(page'), Sent(i)') /\ Covered(Sent(i)', page')
  <2>1. CASE Sent(i)' = <<>>
    BY <2>1, EmptyFollows
  <2>2. CASE page' = <<>>
    <3>1. EntriesOf(page') = {}
      BY <2>2, EmptySeq DEF EntriesOf
    <3>. QED BY <3>1 DEF Behind, Covered
  <2>3. ASSUME NEW k \in Stages, Sent(i)' = Sent(k), page' = page
        PROVE  Behind(EntriesOf(page'), Sent(i)') /\ Covered(Sent(i)', page')
    BY <2>3 DEF PageInv
  <2>. QED BY <1>1, <2>1, <2>2, <2>3
<1>8. InOrder(page')
  <2>1. CASE page' = <<>>
    BY <2>1, EmptySeq DEF InOrder
  <2>2. CASE page' = page
    BY <2>2 DEF PageInv
  <2>. QED BY <2>1, <2>2
<1>9. PageInv'
  BY <1>7, <1>8 DEF PageInv, InOrder, Behind, Covered, Hidden, EntriesOf, Key
<1>10. Known' \subseteq Known
  <2>1. \A i \in Stages' : EntriesOf(Sent(i)') \subseteq Known
    BY <1>1, EmptySeq DEF Known, EntriesOf
  <2>2. Known' = EntriesOf(page') \cup (UNION {EntriesOf(Sent(i)') : i \in Stages'})
    BY DEF Known, EntriesOf
  <2>. QED BY <1>6, <2>1, <2>2 DEF Known
<1>. QED BY <1>5, <1>9, <1>10

\* Nothing is recorded: the trace stays or starts anew.
LEMMA TraceRests ==
  ASSUME TypeOK, TraceInv, Known' \subseteq Known, exchange' = exchange \/ exchange' = 0,
         UNCHANGED <<buffer, last, count, epoch>> \/ (Empty /\ count' = count)
  PROVE  History(Known)' /\ Exchanges(Known)' /\ LastInv' /\ BufferInv' /\ Ongoing'
<1>. USE DEF TraceInv
<1>1. History(Known')
  BY DEF History
<1>2. Exchanges(Known')
  BY Zenon DEF Exchanges
<1>3. LastInv'
  <2>1. CASE UNCHANGED <<buffer, last, count, epoch>>
    BY <2>1 DEF LastInv
  <2>2. CASE Empty
    <3>1. epoch' = epoch + 1
      BY <2>2 DEF Empty
    <3>2. \A e \in Known' : e.epoch # epoch'
      BY <3>1, SentTypes
    <3>. QED BY <3>2 DEF LastInv
  <2>. QED BY <2>1, <2>2
<1>4. BufferInv'
  BY DEF BufferInv, Empty
<1>5. Ongoing'
  BY DEF Ongoing
<1>. QED BY <1>1, <1>2, <1>3, <1>4, <1>5 DEF History, Exchanges

LEMMA RestKeeps ==
  ASSUME TypeOK, TraceInv, page' = page \/ page' = <<>>,
         exchange' = exchange \/ exchange' = 0,
         UNCHANGED <<buffer, last, count, epoch>> \/ (Empty /\ count' = count),
         \A i, j \in Stages' : i <= j =>
           \/ Sent(i)' = <<>> \/ Sent(j)' = <<>>
           \/ \E k, l \in Stages : k <= l /\ Sent(i)' = Sent(k) /\ Sent(j)' = Sent(l)
  PROVE  TraceInv'
<1>1. SentInv' /\ PageInv' /\ Known' \subseteq Known
  BY SnapshotsMove
<1>2. History(Known)' /\ Exchanges(Known)' /\ LastInv' /\ BufferInv' /\ Ongoing'
  BY <1>1, TraceRests
<1>. QED BY <1>1, <1>2 DEF TraceInv

\* The channel stays as it is.
LEMMA QuietKeeps ==
  ASSUME TypeOK, TraceInv, channel' = channel, page' = page,
         exchange' = exchange \/ exchange' = 0,
         UNCHANGED <<buffer, last, count, epoch>> \/ (Empty /\ count' = count)
  PROVE  TraceInv'
<1>1. Stages' = Stages
  BY DEF Stages
<1>2. \A i \in Stages : Sent(i)' = Sent(i) \/ Sent(i)' = <<>>
  BY DEF Sent, Reply, Empty
<1>. QED BY <1>1, <1>2, RestKeeps

LEMMA PublishKeepsTrace ==
  ASSUME TypeOK, TraceInv, Publish
  PROVE  TraceInv'
<1>. DEFINE m == [kind |-> "snapshot", entries |-> buffer]
<1>0. PICK n \in Nat : n = Len(channel)
  BY ChannelHolds
<1>1. /\ channel' = Append(channel, m) /\ page' = page /\ exchange' = exchange
      /\ UNCHANGED <<buffer, last, count, epoch>>
  BY DEF Publish, traceVars
<1>2. m \in Message /\ m.kind = "snapshot" /\ m.entries = buffer
  BY DEF TypeOK, Message
<1>. HIDE DEF m
<1>3. /\ DOMAIN channel = 1 .. n /\ n \in Nat /\ DOMAIN channel' = 1 .. n + 1 /\ Len(channel') = n + 1
      /\ \A i \in 1 .. n : channel'[i] = channel[i]
      /\ channel'[n + 1] = m
  BY <1>0, <1>1, <1>2, AppendFacts, AppendProperties DEF TypeOK
<1>4. Stages = 1 .. n + 1 /\ Stages' = 1 .. n + 2
  BY <1>0, <1>3 DEF Stages
<1>5. \A i \in 1 .. n : Sent(i)' = Sent(i)
  BY <1>3 DEF Sent, Reply
<1>6. Sent(n + 1)' = Sent(n + 1) /\ Sent(n + 2)' = Sent(n + 1)
  <2>1. n + 1 \notin DOMAIN channel /\ n + 1 \in DOMAIN channel' /\ n + 2 \notin DOMAIN channel'
    BY <1>3
  <2>2. Sent(n + 1) = buffer /\ Sent(n + 2)' = buffer
    BY <1>1, <2>1 DEF Sent
  <2>3. Sent(n + 1)' = m.entries
    BY <1>2, <1>3, <2>1 DEF Sent, Reply
  <2>. QED BY <1>2, <2>2, <2>3
<1>7. ASSUME NEW i \in Stages', NEW j \in Stages', i <= j
      PROVE  \E k, l \in Stages : k <= l /\ Sent(i)' = Sent(k) /\ Sent(j)' = Sent(l)
  <2>. DEFINE source(x) == IF x = n + 2 THEN n + 1 ELSE x
  <2>1. \A x \in Stages' : source(x) \in Stages /\ Sent(x)' = Sent(source(x))
    <3>. SUFFICES ASSUME NEW x \in Stages' PROVE source(x) \in Stages /\ Sent(x)' = Sent(source(x))
      OBVIOUS
    <3>1. x \in 1 .. n \/ x = n + 1 \/ x = n + 2
      BY <1>3, <1>4
    <3>2. source(x) \in Stages
      BY <1>3, <1>4
    <3>3. CASE x = n + 2
      BY <1>6, <3>2, <3>3
    <3>4. CASE x # n + 2
      BY <1>5, <1>6, <3>1, <3>2, <3>4
    <3>. QED BY <3>3, <3>4
  <2>2. source(i) <= source(j)
    BY <1>3, <1>4, <1>7
  <2>. QED BY <2>1, <2>2
<1>. QED BY <1>1, <1>7, RestKeeps

LEMMA ClearRunsKeepsTrace ==
  ASSUME TypeOK, TraceInv, ClearRuns
  PROVE  TraceInv'
<1>1. Empty /\ page' = page /\ exchange' = exchange /\ count' = count
  BY DEF ClearRuns
<1>2. CASE channel' = channel
  BY <1>1, <1>2, QuietKeeps
<1>3. CASE channel' = Append(channel, [kind |-> "cleared", upto |-> count])
  <2>. DEFINE m == [kind |-> "cleared", upto |-> count]
  <2>0. PICK n \in Nat : n = Len(channel)
    BY ChannelHolds
  <2>1. m \in Message /\ m.kind = "cleared" /\ channel' = Append(channel, m)
    BY <1>3 DEF TypeOK, Message
  <2>. HIDE DEF m
  <2>2. /\ DOMAIN channel = 1 .. n /\ n \in Nat /\ DOMAIN channel' = 1 .. n + 1 /\ Len(channel') = n + 1
        /\ \A i \in 1 .. n : channel'[i] = channel[i]
        /\ channel'[n + 1] = m
    BY <2>0, <2>1, AppendFacts, AppendProperties DEF TypeOK
  <2>3. Stages = 1 .. n + 1 /\ Stages' = 1 .. n + 2
    BY <2>0, <2>2 DEF Stages
  <2>4. \A i \in Stages' : (i \in Stages /\ Sent(i)' = Sent(i)) \/ Sent(i)' = <<>>
    <3>. SUFFICES ASSUME NEW i \in Stages'
                  PROVE  (i \in Stages /\ Sent(i)' = Sent(i)) \/ Sent(i)' = <<>>
      OBVIOUS
    <3>1. i \in 1 .. n \/ i = n + 1 \/ i = n + 2
      BY <2>2, <2>3
    <3>2. ASSUME i \in 1 .. n PROVE i \in Stages /\ Sent(i)' = Sent(i)
      BY <2>2, <2>3, <3>2 DEF Sent, Reply
    <3>3. ASSUME i = n + 1 PROVE Sent(i)' = <<>>
      <4>1. i \in DOMAIN channel' /\ channel'[i].kind = "cleared"
        BY <2>1, <2>2, <3>3
      <4>. QED BY <4>1 DEF Sent, Reply
    <3>4. ASSUME i = n + 2 PROVE Sent(i)' = <<>>
      <4>1. i \notin DOMAIN channel'
        BY <2>2, <3>4
      <4>. QED BY <1>1, <4>1 DEF Sent, Empty
    <3>. QED BY <3>1, <3>2, <3>3, <3>4
  <2>. QED BY <1>1, <2>4, RestKeeps
<1>. QED BY <1>2, <1>3 DEF ClearRuns

LEMMA SelectKeepsTrace ==
  ASSUME TypeOK, TraceInv, Select
  PROVE  TraceInv'
<1>1. page' = page /\ exchange' = exchange /\ UNCHANGED <<buffer, last, count, epoch>>
  BY DEF Select, traceVars
<1>2. \A i \in Stages' : Sent(i)' = buffer
  <2>1. CASE channel' = <<>>
    <3>1. DOMAIN channel' = {}
      BY <2>1
    <3>. QED BY <1>1, <3>1 DEF Sent
  <2>2. CASE channel' = <<[kind |-> "snapshot", entries |-> buffer]>>
    BY <1>1, <2>2 DEF Sent, Reply
  <2>. QED BY <2>1, <2>2 DEF Select
<1>3. Len(channel) + 1 \in Stages /\ Sent(Len(channel) + 1) = buffer /\ Len(channel) \in Nat
  BY SentTypes
<1>4. \A i, j \in Stages' : \E k, l \in Stages : k <= l /\ Sent(i)' = Sent(k) /\ Sent(j)' = Sent(l)
  <2>1. Len(channel) + 1 <= Len(channel) + 1
    BY <1>3
  <2>. QED BY <1>2, <1>3, <2>1
<1>. QED BY <1>1, <1>4, RestKeeps

\* A message arrives: what was behind it moves up.
LEMMA ArrivalMoves ==
  ASSUME TypeOK, NEW kind, Arrives(kind), buffer' = buffer
  PROVE  \A i \in Stages' : i + 1 \in Stages /\ Sent(i)' = Sent(i + 1) /\ i \in Nat
<1>1. /\ channel' = Tail(channel) /\ channel # <<>> /\ channel \in Seq(Message)
  BY DEF Arrives, TypeOK
<1>2. /\ DOMAIN channel = 1 .. Len(channel) /\ Len(channel) \in Nat \ {0}
      /\ DOMAIN channel' = 1 .. (Len(channel) - 1) /\ channel' \in Seq(Message)
      /\ \A j \in 1 .. (Len(channel) - 1) : channel'[j] = channel[j + 1]
  BY <1>1, TailFacts
<1>3. Len(channel') = Len(channel) - 1
  BY <1>1, HeadTailProperties
<1>. SUFFICES ASSUME NEW i \in Stages' PROVE i + 1 \in Stages /\ Sent(i)' = Sent(i + 1) /\ i \in Nat
  OBVIOUS
<1>4. i \in 1 .. Len(channel) /\ i + 1 \in Stages /\ i \in Nat
  BY <1>2, <1>3 DEF Stages
<1>5. CASE i \in 1 .. (Len(channel) - 1)
  <2>1. i + 1 \in DOMAIN channel /\ i \in DOMAIN channel' /\ channel'[i] = channel[i + 1]
    BY <1>2, <1>5
  <2>. QED BY <1>4, <2>1 DEF Sent, Reply
<1>6. CASE i = Len(channel)
  <2>1. i + 1 \notin DOMAIN channel /\ i \notin DOMAIN channel'
    BY <1>2, <1>6
  <2>. QED BY <1>4, <2>1 DEF Sent
<1>7. i \in 1 .. (Len(channel) - 1) \/ i = Len(channel)
  <2>1. \A l \in Nat : i \in 1 .. l => i \in 1 .. (l - 1) \/ i = l
    BY <1>4
  <2>. QED BY <1>2, <1>4, <2>1
<1>. QED BY <1>5, <1>6, <1>7

LEMMA ClearDoneKeepsTrace ==
  ASSUME TypeOK, TraceInv, ClearDone
  PROVE  TraceInv'
<1>1. Arrives("cleared") /\ page' = <<>> /\ UNCHANGED <<buffer, last, count, epoch>> /\ exchange' = exchange
  BY DEF ClearDone, traceVars
<1>2. \A i \in Stages' : i + 1 \in Stages /\ Sent(i)' = Sent(i + 1) /\ i \in Nat
  BY <1>1, ArrivalMoves
<1>3. \A i, j \in Stages' : i <= j => i + 1 <= j + 1
  BY <1>2
<1>4. \A i, j \in Stages' : i <= j =>
        \E k, l \in Stages : k <= l /\ Sent(i)' = Sent(k) /\ Sent(j)' = Sent(l)
  BY <1>2, <1>3
<1>. QED BY <1>1, <1>4, RestKeeps

LEMMA IngestKeepsTrace ==
  ASSUME TypeOK, TraceInv, Ingest, Sparse(page')
  PROVE  TraceInv'
<1>. USE DEF TraceInv
<1>1. Arrives("snapshot") /\ page' = Merge(page, Head(channel).entries)
      /\ UNCHANGED <<buffer, last, count, epoch>> /\ exchange' = exchange
  BY DEF Ingest, traceVars
<1>2. \A i \in Stages' : i + 1 \in Stages /\ Sent(i)' = Sent(i + 1) /\ i \in Nat
  BY <1>1, ArrivalMoves
<1>3. 1 \in Stages /\ page' = Merge(page, Sent(1))
  <2>1. /\ 1 \in DOMAIN channel /\ Head(channel) = channel[1] /\ channel[1].kind = "snapshot"
        /\ DOMAIN channel = 1 .. Len(channel) /\ Len(channel) \in Nat
    BY <1>1, TailFacts DEF Arrives, TypeOK
  <2>. QED BY <1>1, <2>1 DEF Stages, Sent, Reply
<1>4. \A e \in Entry : e.ms \in Nat /\ e.n \in Nat /\ e.epoch \in Nat
  BY SentTypes DEF Entry
<1>5. page \in Seq(Entry) /\ \A i \in Stages : Sent(i) \in Seq(Entry)
  BY SentTypes DEF TypeOK
<1>6. /\ \A i \in Stages : EntriesOf(Sent(i)) \subseteq Known
      /\ EntriesOf(page) \subseteq Known
  BY DEF Known
<1>7. \A i \in Stages : Follows(Sent(1), Sent(i))
  BY <1>3 DEF SentInv, Stages
<1>8. InOrder(page') /\ EntriesOf(page') \subseteq EntriesOf(page) \cup EntriesOf(Sent(1))
  <2>1. Window(Sent(1)) /\ InOrder(page) /\ Covered(Sent(1), page)
    BY <1>3, <1>7 DEF Follows, PageInv
  <2>2. History(EntriesOf(page) \cup EntriesOf(Sent(1)))
    BY <1>3, <1>6 DEF History
  <2>3. InOrder(Merge(page, Sent(1)))
    BY <1>3, <1>4, <1>5, <2>1, <2>2, MergeKeepsOrder
  <2>4. EntriesOf(Merge(page, Sent(1))) \subseteq EntriesOf(page) \cup EntriesOf(Sent(1))
    BY <1>3, <1>4, <1>5, MergeIsHistory
  <2>. QED BY <1>3, <2>3, <2>4
<1>9. ASSUME NEW i \in Stages' PROVE Covered(Sent(i)', page') /\ Behind(EntriesOf(page'), Sent(i)')
  <2>. DEFINE R == Sent(i + 1)
              S == Sent(1)
              X == page
  <2>1. i + 1 \in Stages /\ Sent(i)' = R
    BY <1>2
  <2>2. /\ Window(S) /\ Window(R) /\ NoGap(S, R) /\ Behind(EntriesOf(S), R)
        /\ InOrder(X) /\ Covered(R, X) /\ Behind(EntriesOf(X), R)
        /\ R \in Seq(Entry) /\ S \in Seq(Entry) /\ X \in Seq(Entry)
    BY <1>3, <1>5, <1>7, <2>1 DEF Follows, PageInv
  <2>3. History(EntriesOf(X) \cup EntriesOf(S) \cup EntriesOf(R))
    BY <1>3, <1>6, <2>1 DEF History
  <2>4. page' = Merge(X, S)
    BY <1>3
  <2>5. Behind(EntriesOf(page'), R)
    BY <1>8, <2>2 DEF Behind
  <2>6. Sparse(Merge(X, S))
    BY <2>4
  <2>. HIDE DEF R, S, X
  <2>7. Covered(R, Merge(X, S))
    BY <1>4, <2>2, <2>3, <2>6, MergeKeepsCover
  <2>. QED BY <2>1, <2>4, <2>5, <2>7
<1>10. PageInv'
  BY <1>8, <1>9 DEF PageInv, InOrder, Behind, Covered, Hidden, EntriesOf, Key
<1>11. SentInv'
  <2>1. ASSUME NEW i \in Stages', NEW j \in Stages', i <= j PROVE Follows(Sent(i)', Sent(j)')
    <3>1. i + 1 <= j + 1 /\ i + 1 \in Stages /\ j + 1 \in Stages
      BY <1>2, <2>1
    <3>. QED BY <1>2, <3>1 DEF SentInv
  <2>. QED BY <2>1 DEF SentInv, Follows, Window, Behind, NoGap, EntriesOf
<1>12. Known' \subseteq Known
  <2>1. \A i \in Stages' : EntriesOf(Sent(i)') \subseteq Known
    BY <1>2, <1>6
  <2>2. Known' = EntriesOf(page') \cup (UNION {EntriesOf(Sent(i)') : i \in Stages'})
    BY DEF Known, EntriesOf
  <2>. QED BY <1>3, <1>6, <1>8, <2>1, <2>2
<1>13. History(Known)' /\ Exchanges(Known)' /\ LastInv' /\ BufferInv' /\ Ongoing'
  BY <1>1, <1>12, TraceRests
<1>. QED BY <1>10, <1>11, <1>13

-----------------------------------------------------------------------------
(***************************************************************************)
(* An entry more.                                                          *)
(***************************************************************************)

\* It is later than all there are, by its number and by its time.
LEMMA RecordIsLater ==
  ASSUME TypeOK, TraceInv, NEW direction \in {"TX", "RX", "STATUS", "EVENT"}, NEW id \in 0 .. count + 1,
         Record(direction, id)
  PROVE  \E new :
           /\ new.n = count + 1 /\ new.epoch = epoch /\ new.direction = direction /\ new.exchange = id
           /\ new.ms \in Nat /\ last' # None /\ new.ms <= last' \div TicksPerMs
           /\ \A e \in Known : e.epoch = epoch => e.ms <= new.ms
           /\ buffer' = Latest(Append(buffer, new), Capacity)
<1>. USE DEF TraceInv
<1>1. PICK reading \in 0 .. Readings, content \in Content :
        LET stamp == Stamp(reading)
            new == [n |-> count + 1, epoch |-> epoch, ms |-> stamp \div TicksPerMs,
                    direction |-> direction, content |-> content, exchange |-> id]
        IN last' = stamp /\ buffer' = Latest(Append(buffer, new), Capacity)
  BY DEF Record
<1>. DEFINE stamp == Stamp(reading)
            new == [n |-> count + 1, epoch |-> epoch, ms |-> stamp \div TicksPerMs,
                    direction |-> direction, content |-> content, exchange |-> id]
<1>2. /\ new.n = count + 1 /\ new.epoch = epoch /\ new.direction = direction /\ new.exchange = id
      /\ new.ms = stamp \div TicksPerMs
      /\ last' = stamp /\ buffer' = Latest(Append(buffer, new), Capacity)
  BY <1>1
<1>3. TicksPerMs \in Nat \ {0} /\ Readings \in Nat /\ None \notin Nat /\ last \in Nat \cup {None}
  BY MonitorAssumption DEF TypeOK
<1>4. stamp \in Nat /\ (last # None => last \in Nat /\ last <= stamp)
  BY <1>3 DEF Stamp
<1>. HIDE DEF stamp, new
<1>5. \A t \in Nat \ {0}, x, y \in Nat : x <= y => x \div t <= y \div t /\ x \div t \in Nat
  OBVIOUS
<1>6. /\ stamp \div TicksPerMs \in Nat
      /\ last # None => last \div TicksPerMs <= stamp \div TicksPerMs /\ last \div TicksPerMs \in Nat
  BY <1>3, <1>4, <1>5
<1>7. ASSUME NEW e \in Known, e.epoch = epoch PROVE e.ms <= new.ms
  <2>1. last # None /\ e.ms <= last \div TicksPerMs /\ e.ms \in Nat
    BY <1>7, SentTypes DEF LastInv
  <2>. QED BY <1>2, <1>6, <2>1
<1>. QED BY <1>2, <1>3, <1>4, <1>6, <1>7

\* The buffer moves up by off for it.
Shifts(new) ==
  \E off \in Nat, m \in 1 .. Capacity :
    /\ DOMAIN buffer' = 1 .. m /\ Len(buffer') = m /\ off + m = Len(buffer) + 1
    /\ buffer'[m] = new
    /\ \A k \in 1 .. m - 1 : off + k \in DOMAIN buffer /\ buffer'[k] = buffer[off + k]

LEMMA BufferMoves ==
  ASSUME TypeOK, NEW new, buffer' = Latest(Append(buffer, new), Capacity)
  PROVE  Shifts(new)
<1>. DEFINE T == Entry \cup {new}
            app == Append(buffer, new)
<1>1. Capacity \in Nat \ {0}
  BY MonitorAssumption
<1>2. buffer \in Seq(T)
  BY DEF TypeOK
<1>3. /\ app \in Seq(T) /\ DOMAIN buffer = 1 .. Len(buffer) /\ Len(buffer) \in Nat
      /\ Len(app) = Len(buffer) + 1
      /\ \A i \in 1 .. Len(buffer) : app[i] = buffer[i]
      /\ app[Len(buffer) + 1] = new
  <2>. HIDE DEF T
  <2>1. new \in T
    BY DEF T
  <2>. QED BY <1>2, <2>1, AppendFacts, AppendProperties
<1>. HIDE DEF T, app
<1>4. PICK m \in Nat, off \in Int :
        /\ m = Len(Latest(app, Capacity)) /\ off = Len(app) - m
        /\ Latest(app, Capacity) \in Seq(T)
        /\ m = IF Len(app) > Capacity THEN Capacity ELSE Len(app)
        /\ \A k \in 1 .. m : off + k \in 1 .. Len(app) /\ Latest(app, Capacity)[k] = app[off + k]
  <2>1. Len(Latest(app, Capacity)) \in Nat /\ Len(app) - Len(Latest(app, Capacity)) \in Int
    BY <1>1, <1>3, LatestFacts
  <2>. QED BY <1>1, <1>3, <2>1, LatestFacts
<1>5. buffer' = Latest(app, Capacity)
  BY DEF app
<1>6. DOMAIN buffer' = 1 .. m /\ Len(buffer') = m
  BY <1>4, <1>5, LenProperties
<1>7. off \in Nat /\ m \in 1 .. Capacity /\ off + m = Len(buffer) + 1
  BY <1>1, <1>3, <1>4
<1>8. buffer'[m] = new
  <2>1. m \in 1 .. m /\ app[off + m] = new
    BY <1>3, <1>7
  <2>. QED BY <1>4, <1>5, <2>1
<1>9. ASSUME NEW k \in 1 .. m - 1
      PROVE  off + k \in DOMAIN buffer /\ buffer'[k] = buffer[off + k]
  <2>1. k \in 1 .. m /\ off + k \in 1 .. Len(buffer)
    BY <1>3, <1>7
  <2>. QED BY <1>3, <1>4, <1>5, <2>1
<1>. QED BY <1>6, <1>7, <1>8, <1>9 DEF Shifts

\* The windows with the entry that was recorded.
LEMMA RecordKeepsTrace ==
  ASSUME TypeOK, TraceInv, NEW direction \in {"TX", "RX", "STATUS", "EVENT"}, NEW id \in 0 .. count + 1,
         Record(direction, id)
  PROVE  /\ History(Known)' /\ LastInv' /\ BufferInv' /\ SentInv' /\ PageInv'
         /\ \E new : /\ new.n = count + 1 /\ new.direction = direction /\ new.exchange = id
                     /\ Known' \subseteq Known \cup {new}
<1>. USE DEF TraceInv
<1>1. PICK new :
        /\ new.n = count + 1 /\ new.epoch = epoch /\ new.direction = direction /\ new.exchange = id
        /\ new.ms \in Nat /\ last' # None /\ new.ms <= last' \div TicksPerMs
        /\ \A e \in Known : e.epoch = epoch => e.ms <= new.ms
        /\ buffer' = Latest(Append(buffer, new), Capacity)
  BY RecordIsLater
<1>2. channel' = channel /\ page' = page /\ epoch' = epoch /\ count' = count + 1
  BY DEF Record, pageVars
<1>3. PICK z \in Nat : z = Len(channel) + 1
  BY SentTypes
<1>4. /\ Stages = 1 .. z /\ Stages' = 1 .. z /\ z \in Stages /\ Sent(z) = buffer
      /\ DOMAIN channel = 1 .. (z - 1) /\ z \notin DOMAIN channel
  <2>1. DOMAIN channel = 1 .. Len(channel) /\ Sent(Len(channel) + 1) = buffer /\ Len(channel) + 1 \in Stages
        /\ Len(channel) \in Nat
    BY SentTypes
  <2>. QED BY <1>2, <1>3, <2>1 DEF Stages
<1>5. Sent(z)' = buffer' /\ \A i \in Stages : i # z => Sent(i)' = Sent(i)
  <2>1. Sent(z)' = buffer'
    BY <1>2, <1>4 DEF Sent
  <2>2. \A i \in Stages : i # z => i \in DOMAIN channel
    BY <1>4
  <2>. QED BY <1>2, <2>1, <2>2 DEF Sent, Reply
<1>6. PICK off \in Nat, m \in 1 .. Capacity :
        /\ DOMAIN buffer' = 1 .. m /\ Len(buffer') = m /\ off + m = Len(buffer) + 1
        /\ buffer'[m] = new
        /\ \A k \in 1 .. m - 1 : off + k \in DOMAIN buffer /\ buffer'[k] = buffer[off + k]
  <2>1. buffer' = Latest(Append(buffer, new), Capacity)
    BY <1>1
  <2>2. Shifts(new)
    BY <2>1, BufferMoves
  <2>. QED BY <2>2 DEF Shifts
<1>7. Capacity \in Nat \ {0} /\ m \in Nat /\ Len(buffer) \in Nat /\ DOMAIN buffer = 1 .. Len(buffer)
  BY MonitorAssumption, LenProperties DEF TypeOK
<1>8. \A e \in EntriesOf(buffer') : e = new \/ e \in EntriesOf(buffer)
  <2>1. \A k \in 1 .. m : k = m \/ k \in 1 .. m - 1
    BY <1>7
  <2>. QED BY <1>6, <2>1 DEF EntriesOf
<1>9. /\ EntriesOf(page) \subseteq Known
      /\ \A i \in Stages : EntriesOf(Sent(i)) \subseteq Known
      /\ EntriesOf(buffer) \subseteq Known
  BY <1>4 DEF Known
<1>10. /\ count \in Nat /\ epoch \in Nat
       /\ \A e \in Known : /\ e.n \in Nat /\ e.n <= count /\ e.n < new.n
                           /\ e.epoch \in Nat /\ e.epoch <= epoch
  <2>1. count \in Nat /\ epoch \in Nat /\ \A e \in Known : e.n \in 1 .. count /\ e.epoch \in 0 .. epoch
    BY SentTypes
  <2>. QED BY <1>1, <2>1
<1>11. Known' \subseteq Known \cup {new}
  <2>1. \A i \in Stages : EntriesOf(Sent(i)') \subseteq Known \cup {new}
    BY <1>5, <1>8, <1>9
  <2>2. Known' = EntriesOf(page') \cup (UNION {EntriesOf(Sent(i)') : i \in Stages'})
    BY DEF Known, EntriesOf
  <2>. QED BY <1>2, <1>4, <1>9, <2>1, <2>2
<1>12. History(Known')
  <2>. SUFFICES ASSUME NEW e \in Known', NEW d \in Known'
                PROVE  /\ e.n = d.n => e = d
                       /\ e.n < d.n => e.epoch <= d.epoch /\ (e.epoch = d.epoch => e.ms <= d.ms)
    BY DEF History
  <2>1. CASE e \in Known /\ d \in Known
    BY <2>1 DEF History
  <2>2. CASE e = new /\ d = new
    BY <1>1, <1>10, <2>2
  <2>3. CASE e \in Known /\ d = new
    BY <1>1, <1>10, <2>3
  <2>4. CASE e = new /\ d \in Known
    BY <1>1, <1>10, <2>4
  <2>. QED BY <1>11, <2>1, <2>2, <2>3, <2>4
<1>13. LastInv'
  <2>1. ASSUME NEW e \in Known', e.epoch = epoch PROVE e.ms <= new.ms /\ e.ms \in Nat
    BY <1>1, <1>11, <2>1, SentTypes
  <2>2. last' \div TicksPerMs \in Int
    <3>1. last' \in Nat /\ TicksPerMs \in Nat \ {0}
      BY MonitorAssumption, RecordTypes
    <3>. QED BY <3>1
  <2>3. ASSUME NEW e \in Known', e.epoch = epoch PROVE e.ms <= last' \div TicksPerMs
    BY <1>1, <2>1, <2>2, <2>3
  <2>. QED BY <1>1, <1>2, <2>3 DEF LastInv
<1>14. BufferInv'
  BY <1>1, <1>2, <1>6 DEF BufferInv
<1>15. Window(buffer')
  <2>1. CASE buffer = <<>>
    <3>1. m = 1
      BY <1>6, <1>7, <2>1
    <3>2. \A k \in DOMAIN buffer' : k = 1 /\ buffer'[k].n = buffer'[1].n + (k - 1)
      BY <1>1, <1>6, <1>10, <3>1
    <3>. QED BY <1>6, <1>7, <3>2 DEF Window
  <2>2. CASE buffer # <<>>
    <3>. DEFINE first == buffer[1].n
    <3>1. Window(buffer)
      <4>1. Follows(Sent(z), Sent(z))
        BY <1>3, <1>4 DEF SentInv
      <4>. QED BY <1>4, <4>1 DEF Follows
    <3>2. /\ Len(buffer) \in DOMAIN buffer /\ 1 \in DOMAIN buffer
          /\ first \in Nat
      <4>1. Len(buffer) # 0
        BY <2>2, EmptySeq DEF TypeOK
      <4>2. Len(buffer) \in DOMAIN buffer /\ 1 \in DOMAIN buffer
        BY <1>7, <4>1
      <4>. QED BY <1>9, <1>10, <4>2 DEF EntriesOf
    <3>3. /\ first + (Len(buffer) - 1) = count
          /\ \A k \in DOMAIN buffer : buffer[k].n = first + (k - 1) /\ buffer[k].epoch = epoch
      <4>1. \A k \in DOMAIN buffer : buffer[k].n = first + (k - 1) /\ buffer[k].epoch = buffer[1].epoch
        BY <3>1 DEF Window
      <4>2. buffer[Len(buffer)].n = count /\ buffer[Len(buffer)].epoch = epoch
        BY <2>2 DEF BufferInv
      <4>. QED BY <3>2, <4>1, <4>2
    <3>. HIDE DEF first
    <3>4. ASSUME NEW k \in 1 .. m PROVE buffer'[k].n = first + (off + k - 1) /\ buffer'[k].epoch = epoch
      <4>1. CASE k = m
        <5>1. off + k - 1 = (Len(buffer) - 1) + 1
          BY <1>6, <1>7, <4>1
        <5>2. first + (off + k - 1) = count + 1
          BY <1>7, <3>2, <3>3, <5>1
        <5>. QED BY <1>1, <1>6, <4>1, <5>2
      <4>2. CASE k \in 1 .. m - 1
        BY <1>6, <3>3, <4>2
      <4>. QED BY <1>7, <4>1, <4>2
    <3>5. 1 \in 1 .. m
      BY <1>7
    <3>6. buffer'[1].n = first + (off + 1 - 1) /\ buffer'[1].epoch = epoch
      BY <3>4, <3>5
    <3>7. \A k \in 1 .. m : first + (off + k - 1) = first + (off + 1 - 1) + (k - 1)
      BY <1>7, <3>2
    <3>8. \A k \in 1 .. m : buffer'[k].n = buffer'[1].n + (k - 1) /\ buffer'[k].epoch = buffer'[1].epoch
      BY <3>4, <3>6, <3>7
    <3>. QED BY <1>6, <1>7, <3>8 DEF Window
  <2>. QED BY <2>1, <2>2
<1>16. \A A \in SUBSET Known' : Behind(A, buffer')
  <2>. SUFFICES ASSUME NEW a \in Known', NEW b \in EntriesOf(buffer')
                PROVE  a.epoch <= b.epoch /\ (a.epoch = b.epoch => a.n <= buffer'[Len(buffer')].n)
    BY DEF Behind
  <2>1. b.epoch = epoch
    <3>1. \A k \in DOMAIN buffer' : buffer'[k].epoch = buffer'[m].epoch
      <4>1. m \in DOMAIN buffer'
        BY <1>6, <1>7
      <4>. QED BY <1>15, <4>1 DEF Window
    <3>. QED BY <1>1, <1>6, <3>1 DEF EntriesOf
  <2>. QED BY <1>1, <1>6, <1>10, <1>11, <2>1
<1>17. /\ EntriesOf(page') \subseteq Known' /\ \A i \in Stages' : EntriesOf(Sent(i)') \subseteq Known'
  BY DEF Known, EntriesOf
<1>18. PageInv'
  <2>1. InOrder(page') /\ page' = page
    BY <1>2 DEF PageInv
  <2>2. ASSUME NEW i \in Stages' PROVE Behind(EntriesOf(page'), Sent(i)') /\ Covered(Sent(i)', page')
    <3>1. CASE i # z
      BY <1>2, <1>4, <1>5, <3>1 DEF PageInv
    <3>2. CASE i = z
      <4>1. Behind(EntriesOf(page'), buffer')
        BY <1>16, <1>17
      <4>2. Covered(buffer, page)
        BY <1>4 DEF PageInv
      <4>3. Covered(buffer', page)
        <5>. SUFFICES ASSUME NEW b \in EntriesOf(buffer'), NEW a \in EntriesOf(page),
                             a.epoch = b.epoch, b.n <= a.n
                      PROVE  (\E t \in EntriesOf(page) : Key(t) = Key(b)) \/ Hidden(b, page)
          BY DEF Covered
        <5>1. a.n \in Nat /\ a.n < new.n /\ new.n \in Nat
          BY <1>1, <1>9, <1>10
        <5>2. b # new
          BY <5>1
        <5>. QED BY <1>8, <4>2, <5>2 DEF Covered
      <4>. QED BY <1>2, <1>5, <3>2, <4>1, <4>3
    <3>. QED BY <3>1, <3>2
  <2>. QED BY <2>1, <2>2 DEF PageInv, InOrder, Behind, Covered, Hidden, EntriesOf, Key
<1>19. SentInv'
  <2>1. ASSUME NEW i \in Stages', NEW j \in Stages', i <= j PROVE Follows(Sent(i)', Sent(j)')
    <3>1. CASE j # z
      <4>1. i # z
        BY <1>3, <1>4, <2>1, <3>1
      <4>. QED BY <1>4, <1>5, <2>1, <3>1, <4>1 DEF SentInv
    <3>2. CASE i # z /\ j = z
      <4>1. Follows(Sent(i), buffer) /\ Sent(i)' = Sent(i) /\ Sent(j)' = buffer'
        BY <1>4, <1>5, <2>1, <3>2 DEF SentInv
      <4>2. Behind(EntriesOf(Sent(i)), buffer')
        BY <1>16, <1>17, <4>1
      <4>3. NoGap(Sent(i), buffer')
        <5>. SUFFICES ASSUME NEW a \in EntriesOf(Sent(i)), NEW b \in EntriesOf(buffer'), b.n <= a.n
                      PROVE  Sent(i)[1].n <= b.n
          BY DEF NoGap
        <5>1. a.n \in Nat /\ a.n < new.n /\ new.n \in Nat
          BY <1>1, <1>4, <1>9, <1>10
        <5>2. b # new
          BY <5>1
        <5>. QED BY <1>8, <4>1, <5>2 DEF Follows, NoGap
      <4>. QED BY <1>15, <4>1, <4>2, <4>3 DEF Follows
    <3>3. CASE i = z /\ j = z
      <4>1. Behind(EntriesOf(buffer'), buffer')
        BY <1>4, <1>5, <1>16, <1>17
      <4>2. NoGap(buffer', buffer')
        <5>1. ASSUME NEW k \in DOMAIN buffer' PROVE buffer'[1].n <= buffer'[k].n
          <6>1. buffer'[k].n = buffer'[1].n + (k - 1) /\ k \in 1 .. m /\ 1 \in DOMAIN buffer'
            BY <1>6, <1>7, <1>15 DEF Window
          <6>2. buffer'[1].n \in Nat
            BY <1>1, <1>8, <1>9, <1>10, <6>1 DEF EntriesOf
          <6>. QED BY <1>7, <6>1, <6>2
        <5>. QED BY <5>1 DEF NoGap, EntriesOf
      <4>. QED BY <1>5, <1>15, <3>3, <4>1, <4>2 DEF Follows
    <3>. QED BY <3>1, <3>2, <3>3
  <2>. QED BY <2>1 DEF SentInv, Follows, Window, Behind, NoGap, EntriesOf
<1>20. History(Known)'
  BY <1>12 DEF History
<1>. QED BY <1>1, <1>11, <1>13, <1>14, <1>18, <1>19, <1>20

\* What is recorded belongs to the exchange that goes on, or begins one.
LEMMA RecordsKeepTrace ==
  ASSUME TypeOK, TraceInv, Send \/ Answer \/ Finish \/ Event
  PROVE  TraceInv'
<1>. USE DEF TraceInv
<1>1. /\ count \in Nat /\ exchange \in Nat /\ exchange <= count
      /\ \A e \in Known : e.n \in Nat /\ e.n <= count /\ e.n # 0 /\ e.exchange \in Nat
  <2>1. count \in Nat /\ exchange \in 0 .. count /\ \A e \in Known : e.n \in 1 .. count /\ e.exchange \in 0 .. count
    BY SentTypes
  <2>. QED BY <2>1
<1>2. PICK direction \in {"TX", "RX", "STATUS", "EVENT"}, id \in 0 .. count + 1 :
        /\ Record(direction, id)
        /\ direction = "TX" => id = count + 1 /\ exchange' = count + 1
        /\ direction \in {"RX", "STATUS"} => id = exchange /\ exchange # 0
        /\ direction # "TX" => exchange' = exchange \/ exchange' = 0
  BY <1>1 DEF Send, Answer, Finish, Event
<1>3. /\ History(Known)' /\ LastInv' /\ BufferInv' /\ SentInv' /\ PageInv'
      /\ \E new : /\ new.n = count + 1 /\ new.direction = direction /\ new.exchange = id
                  /\ Known' \subseteq Known \cup {new}
  BY <1>2, RecordKeepsTrace
<1>4. PICK new : /\ new.n = count + 1 /\ new.direction = direction /\ new.exchange = id
                 /\ Known' \subseteq Known \cup {new}
  BY <1>3
<1>5. ASSUME NEW e \in Known', NEW d \in Known', e.direction # "EVENT", d.direction # "EVENT",
             d.exchange <= e.n, e.n <= d.n
      PROVE  e.exchange = d.exchange
  <2>1. CASE e \in Known /\ d \in Known
    BY <1>5, <2>1 DEF Exchanges
  <2>2. CASE e = new /\ d = new
    BY <2>2
  <2>3. CASE e = new /\ d \in Known
    BY <1>1, <1>4, <1>5, <2>3
  <2>4. CASE e \in Known /\ d = new
    <3>1. CASE direction = "TX"
      BY <1>1, <1>2, <1>4, <1>5, <2>4, <3>1
    <3>2. CASE direction \in {"RX", "STATUS"}
      BY <1>1, <1>2, <1>4, <1>5, <2>4, <3>2 DEF Ongoing
    <3>. QED BY <1>2, <1>4, <1>5, <2>4, <3>1, <3>2
  <2>. QED BY <1>4, <2>1, <2>2, <2>3, <2>4
<1>6. ASSUME NEW e \in Known'
      PROVE  /\ e.direction = "TX" => e.exchange = e.n
             /\ e.direction # "EVENT" => e.exchange # 0 /\ e.exchange <= e.n
  <2>1. CASE e \in Known
    BY <2>1 DEF Exchanges
  <2>2. CASE e = new
    BY <1>1, <1>2, <1>4, <2>2
  <2>. QED BY <1>4, <2>1, <2>2
<1>7. ASSUME NEW e \in Known', NEW d \in Known', d.direction # "EVENT", e.n = d.exchange
      PROVE  e.direction = "TX"
  <2>1. CASE e \in Known /\ d \in Known
    BY <1>7, <2>1 DEF Exchanges
  <2>2. CASE e = new /\ d \in Known
    <3>1. d.exchange <= d.n /\ d.n <= count /\ d.n \in Nat /\ d.exchange \in Nat
      BY <1>1, <1>6, <1>7, <2>2
    <3>. QED BY <1>1, <1>4, <1>7, <2>2, <3>1
  <2>3. CASE e \in Known /\ d = new
    <3>1. e.n = id /\ e.n <= count /\ e.n \in Nat
      BY <1>1, <1>4, <1>7, <2>3
    <3>2. direction # "TX" /\ direction # "EVENT"
      BY <1>1, <1>2, <1>4, <1>7, <2>3, <3>1
    <3>. QED BY <1>2, <2>3, <3>1, <3>2 DEF Ongoing
  <2>4. CASE e = new /\ d = new
    BY <1>1, <1>2, <1>4, <1>7, <2>4
  <2>. QED BY <1>4, <2>1, <2>2, <2>3, <2>4
<1>8. Exchanges(Known')
  BY <1>5, <1>6, <1>7, Zenon DEF Exchanges
<1>9. ASSUME exchange' # 0, NEW e \in Known'
      PROVE  /\ e.direction # "EVENT" /\ exchange' <= e.n => e.exchange = exchange'
             /\ e.n = exchange' => e.direction = "TX"
  <2>1. CASE direction = "TX"
    BY <1>1, <1>2, <1>4, <1>9, <2>1
  <2>2. CASE direction # "TX"
    <3>1. exchange' = exchange
      BY <1>2, <1>9, <2>2
    <3>2. CASE e \in Known
      BY <1>9, <3>1, <3>2 DEF Ongoing
    <3>3. CASE e = new
      BY <1>1, <1>2, <1>4, <2>2, <3>1, <3>3
    <3>. QED BY <1>4, <3>2, <3>3
  <2>. QED BY <2>1, <2>2
<1>10. Ongoing'
  BY <1>9 DEF Ongoing
<1>11. Exchanges(Known)'
  BY <1>8 DEF Exchanges
<1>. QED BY <1>3, <1>10, <1>11

\* The invariant, as long as the page can hold what one millisecond brings.
LEMMA TraceInvariant == Spec /\ []Sparse(page) => []TraceInv
<1>1. Init => TraceInv
  <2>. SUFFICES ASSUME Init PROVE TraceInv
    OBVIOUS
  <2>1. buffer = <<>> /\ page = <<>> /\ channel = <<>> /\ exchange = 0
    BY DEF Init
  <2>2. \A i \in Stages : Sent(i) = <<>>
    BY <2>1 DEF Sent
  <2>3. EntriesOf(page) = {} /\ \A i \in Stages : EntriesOf(Sent(i)) = {}
    BY <2>1, <2>2, EmptySeq DEF EntriesOf
  <2>4. Known = {}
    BY <2>3 DEF Known
  <2>5. SentInv
    BY <2>2, EmptyFollows DEF SentInv
  <2>6. PageInv
    BY <2>1, <2>2, EmptyFollows, EmptySeq DEF PageInv, InOrder
  <2>. QED BY <2>1, <2>4, <2>5, <2>6 DEF TraceInv, History, Exchanges, LastInv, BufferInv, Ongoing
<1>2. TypeOK /\ TraceInv /\ Sparse(page)' /\ [Next]_vars => TraceInv'
  <2>. SUFFICES ASSUME TypeOK, TraceInv, Sparse(page)', [Next]_vars PROVE TraceInv'
    OBVIOUS
  <2>1. CASE Send \/ Answer \/ Finish \/ Event
    BY <2>1, RecordsKeepTrace
  <2>2. CASE Abandon \/ Unload \/ Load \/ ClearElsewhere
    BY <2>2, QuietKeeps DEF Abandon, Unload, Load, ClearElsewhere, pageVars
  <2>3. CASE ClearRefused \/ AskClear
    BY <2>3, QuietKeeps DEF ClearRefused, AskClear, traceVars
  <2>4. CASE Publish \/ ClearRuns \/ Select \/ ClearDone
    BY <2>4, PublishKeepsTrace, ClearRunsKeepsTrace, SelectKeepsTrace, ClearDoneKeepsTrace
  <2>5. CASE Ingest
    <3>1. Sparse(page')
      BY DEF Sparse
    <3>. QED BY <2>5, <3>1, IngestKeepsTrace
  <2>6. CASE UNCHANGED vars
    BY <2>6, QuietKeeps DEF vars, traceVars, pageVars
  <2>. QED BY <2>1, <2>2, <2>3, <2>4, <2>5, <2>6 DEF Next, TraceStep, ServerStep, PageStep
<1>. QED BY <1>1, <1>2, MonitorTypeCorrect, PTL DEF Spec

(***************************************************************************)
(* A page that holds entries of one run shows them in the order they were  *)
(* recorded, however snapshots overlap, however the clock is set and       *)
(* whatever the page lost (trace.py record, mergeTraceHistory).            *)
(***************************************************************************)
THEOREM PageShowsOrder == Spec /\ []Sparse(page) => []PageInOrder
<1>1. TraceInv => PageInOrder
  BY DEF TraceInv, PageInv, InOrder, Hidden, PageInOrder, OneEpoch, EntriesOf
<1>. QED BY <1>1, TraceInvariant, PTL


-----------------------------------------------------------------------------
(***************************************************************************)
(* The newest part of the page.                                            *)
(***************************************************************************)

\* A history whose numbers grow, that has all of a window and nothing after it,
\* ends with it.
LEMMA EndsWithWindow ==
  ASSUME NEW T, \A e \in T : e.n \in Nat, NEW X \in Seq(T), NEW S \in Seq(T), S # <<>>, Window(S),
         \A p, q \in DOMAIN X : p < q => X[p].n < X[q].n,
         \A k \in DOMAIN S : \E p \in DOMAIN X : X[p] = S[k],
         \A p \in DOMAIN X : X[p].n <= S[Len(S)].n
  PROVE  Latest(X, Len(S)) = S
<1>1. /\ DOMAIN X = 1 .. Len(X) /\ Len(X) \in Nat /\ \A p \in DOMAIN X : X[p].n \in Nat
      /\ DOMAIN S = 1 .. Len(S) /\ Len(S) \in Nat \ {0} /\ \A k \in DOMAIN S : S[k].n \in Nat
  <2>1. /\ DOMAIN X = 1 .. Len(X) /\ Len(X) \in Nat /\ DOMAIN S = 1 .. Len(S) /\ Len(S) \in Nat
    BY LenProperties
  <2>2. Len(S) # 0
    BY EmptySeq
  <2>. QED BY <2>1, <2>2, ElementOfSeq
<1>2. PICK first \in Nat : \A k \in DOMAIN S : S[k].n = first + (k - 1)
  <2>1. 1 \in DOMAIN S
    BY <1>1
  <2>. QED BY <1>1, <2>1 DEF Window
<1>3. PICK l \in Nat, m \in Nat \ {0} : l = Len(X) /\ m = Len(S)
  BY <1>1
<1>4. /\ DOMAIN X = 1 .. l /\ DOMAIN S = 1 .. m
      /\ \A p \in 1 .. l : X[p].n \in Nat /\ X[p].n <= first + (m - 1)
  <2>1. m \in DOMAIN S
    BY <1>1, <1>3
  <2>. QED BY <1>1, <1>2, <1>3, <2>1
<1>5. \A p, q \in 1 .. l : X[p].n < X[q].n => p < q
  <2>. SUFFICES ASSUME NEW p \in 1 .. l, NEW q \in 1 .. l, X[p].n < X[q].n, ~(p < q) PROVE FALSE
    OBVIOUS
  <2>1. p = q \/ q < p
    BY <1>3
  <2>2. X[q].n < X[p].n \/ X[q].n = X[p].n
    BY <1>4, <2>1
  <2>. QED BY <1>4, <2>2
<1>. DEFINE Fits(j) == l - j \in 1 .. l /\ X[l - j] = S[m - j]
            Bad == {j \in 0 .. m - 1 : ~Fits(j)}
<1>6. ASSUME NEW j \in Bad, \A i \in Bad : j <= i PROVE FALSE
  <2>1. j \in 0 .. m - 1 /\ m - j \in 1 .. m /\ j \in Nat
    BY <1>3, <1>6
  <2>2. PICK p \in 1 .. l : X[p] = S[m - j]
    BY <1>4, <2>1
  <2>3. X[p].n = first + (m - j - 1)
    BY <1>2, <1>4, <2>1, <2>2
  <2>4. p <= l - j
    <3>1. CASE j = 0
      BY <1>3, <2>2, <3>1
    <3>2. CASE j # 0
      <4>1. j - 1 \in 0 .. m - 1 /\ ~(j <= j - 1)
        BY <1>3, <2>1, <3>2
      <4>2. Fits(j - 1)
        BY <1>6, <4>1
      <4>3. l - (j - 1) \in 1 .. l /\ X[l - (j - 1)] = S[m - (j - 1)]
        BY <4>2
      <4>4. m - (j - 1) \in 1 .. m /\ m - (j - 1) - 1 = m - j
        BY <1>3, <2>1, <3>2
      <4>5. X[l - (j - 1)].n = first + (m - j)
        BY <1>2, <1>4, <4>3, <4>4
      <4>6. X[p].n < X[l - (j - 1)].n
        BY <1>2, <1>3, <2>1, <2>3, <4>5
      <4>7. p < l - (j - 1)
        BY <1>5, <2>2, <4>3, <4>6
      <4>. QED BY <1>3, <2>1, <2>2, <4>7
    <3>. QED BY <3>1, <3>2
  <2>5. ~(p < l - j)
    <3>. SUFFICES ASSUME p < l - j PROVE FALSE
      OBVIOUS
    <3>1. l - j \in 1 .. l
      BY <1>3, <2>1, <2>2
    <3>2. X[p].n < X[l - j].n /\ X[l - j].n \in Nat
      BY <1>4, <2>2, <3>1
    <3>3. CASE j = 0
      BY <1>2, <1>3, <1>4, <2>3, <3>1, <3>2, <3>3
    <3>4. CASE j # 0
      <4>1. j - 1 \in 0 .. m - 1 /\ ~(j <= j - 1)
        BY <1>3, <2>1, <3>4
      <4>2. Fits(j - 1)
        BY <1>6, <4>1
      <4>3. l - (j - 1) \in 1 .. l /\ X[l - (j - 1)] = S[m - (j - 1)]
        BY <4>2
      <4>4. m - (j - 1) \in 1 .. m /\ m - (j - 1) - 1 = m - j
        BY <1>3, <2>1, <3>4
      <4>5. X[l - (j - 1)].n = first + (m - j)
        BY <1>2, <1>4, <4>3, <4>4
      <4>6. X[l - j].n < X[l - (j - 1)].n
        <5>1. l - j < l - (j - 1)
          BY <1>3, <2>1
        <5>. QED BY <1>4, <3>1, <4>3, <5>1
      <4>. QED BY <1>2, <1>3, <2>1, <2>3, <3>2, <4>5, <4>6
    <3>. QED BY <3>3, <3>4
  <2>6. p = l - j
    BY <1>3, <2>1, <2>2, <2>4, <2>5
  <2>. QED BY <1>6, <2>2, <2>6
<1>7. \A j \in 0 .. m - 1 : Fits(j)
  <2>1. Bad \in SUBSET Nat
    BY <1>3
  <2>. HIDE DEF Fits
  <2>2. Bad = {}
    <3>. HIDE DEF Bad
    <3>. QED BY <1>6, <2>1, LeastNumber
  <2>. QED BY <2>2
<1>8. m <= l
  <2>1. m - 1 \in 0 .. m - 1
    BY <1>3
  <2>2. l - (m - 1) \in 1 .. l
    BY <1>7, <2>1
  <2>. QED BY <1>3, <2>2
<1>. DEFINE latest == Latest(X, m)
<1>9. /\ latest \in Seq(T) /\ Len(latest) = m
      /\ \A k \in 1 .. m : latest[k] = X[l - m + k]
  <2>1. /\ latest \in Seq(T)
        /\ Len(latest) = IF Len(X) > m THEN m ELSE Len(X)
        /\ \A k \in 1 .. Len(latest) :
              /\ (Len(X) - Len(latest)) + k \in 1 .. Len(X)
              /\ latest[k] = X[(Len(X) - Len(latest)) + k]
    <3>1. m \in Nat \ {0}
      BY <1>3
    <3>. QED BY <3>1, LatestFacts
  <2>2. Len(latest) = m
    BY <1>3, <1>8, <2>1
  <2>. QED BY <1>3, <2>1, <2>2
<1>. HIDE DEF latest
<1>10. ASSUME NEW k \in 1 .. m PROVE latest[k] = S[k]
  <2>1. m - k \in 0 .. m - 1 /\ l - (m - k) = l - m + k /\ m - (m - k) = k
    BY <1>3
  <2>2. X[l - (m - k)] = S[m - (m - k)]
    BY <1>7, <2>1
  <2>. QED BY <1>9, <2>1, <2>2
<1>11. latest = S
  BY <1>3, <1>9, <1>10, SeqEqual
<1>. QED BY <1>3, <1>11 DEF latest


LEMMA LatestNone ==
  ASSUME NEW T, NEW X \in Seq(T)
  PROVE  Latest(X, 0) = <<>>
<1>1. Len(X) \in Nat /\ DOMAIN X = 1 .. Len(X)
  BY LenProperties
<1>2. Latest(X, 0) = SubSeq(X, Len(X) + 1, Len(X))
  <2>1. ~(Len(X) > 0) => Len(X) + 1 = 1
    BY <1>1
  <2>2. Len(X) - 0 + 1 = Len(X) + 1
    BY <1>1
  <2>. QED BY <2>1, <2>2 DEF Latest
<1>3. Len(X) + 1 \in 1 .. Len(X) + 1 /\ \A i \in (Len(X) + 1) .. Len(X) : X[i] \in T
  BY <1>1
<1>4. SubSeq(X, Len(X) + 1, Len(X)) \in Seq(T) /\ Len(SubSeq(X, Len(X) + 1, Len(X))) = 0
  BY <1>1, <1>3, SubSeqProperties
<1>. QED BY <1>2, <1>4, EmptySeq

LEMMA IngestShows ==
  ASSUME TypeOK, TraceInv, PageInv', Sparse(page'), Ingest,
         NEW snapshot, snapshot = channel[1].entries,
         OneEpoch(page \o snapshot), Distinguished(page \o snapshot)
  PROVE  Latest(page', Len(snapshot)) = snapshot
<1>. USE DEF TraceInv
<1>1. /\ 1 \in Stages /\ page' = Merge(page, snapshot) /\ Sent(1) = snapshot
  <2>1. /\ 1 \in DOMAIN channel /\ Head(channel) = channel[1] /\ channel[1].kind = "snapshot"
        /\ DOMAIN channel = 1 .. Len(channel) /\ Len(channel) \in Nat
    BY TailFacts DEF Ingest, Arrives, TypeOK
  <2>2. page' = Merge(page, Head(channel).entries)
    BY DEF Ingest
  <2>. QED BY <2>1, <2>2 DEF Stages, Sent, Reply
<1>2. \A e \in Entry : e.ms \in Nat /\ e.n \in Nat /\ e.epoch \in Nat
  BY SentTypes DEF Entry
<1>3. page \in Seq(Entry) /\ snapshot \in Seq(Entry)
  BY <1>1, SentTypes DEF TypeOK
<1>. DEFINE Both == EntriesOf(page) \cup EntriesOf(snapshot)
<1>4. /\ \A e, d \in Both : e.epoch = d.epoch
      /\ \A e, d \in Both : Key(e) = Key(d) => e.n = d.n
      /\ History(Both)
  <2>1. EntriesOf(page \o snapshot) = Both
    BY <1>3, ConcatEntries
  <2>2. Both \subseteq Known
    BY <1>1 DEF Known
  <2>3. History(Both)
    <3>. HIDE DEF Both
    <3>. QED BY <2>2 DEF History
  <2>. QED BY <2>1, <2>3 DEF OneEpoch, Distinguished
<1>5. /\ page' \in Seq(Entry) /\ EntriesOf(page') \subseteq Both
      /\ \A p, q \in DOMAIN page' : p < q => Key(page'[p]) # Key(page'[q])
      /\ \A e \in Both : \/ \E p \in DOMAIN page' : Key(page'[p]) = Key(e)
                         \/ Len(page') = Limit /\ \A p \in DOMAIN page' : e.ms <= page'[p].ms
  <2>1. LET merged == Merge(page, snapshot)
        IN  /\ merged \in Seq(Entry) /\ Len(merged) <= Limit
            /\ EntriesOf(merged) \subseteq EntriesOf(page) \cup EntriesOf(snapshot)
            /\ \A p, q \in DOMAIN merged : p < q =>
                 merged[p].ms <= merged[q].ms /\ Key(merged[p]) # Key(merged[q])
            /\ \A e \in EntriesOf(page) \cup EntriesOf(snapshot) :
                 \/ \E p \in DOMAIN merged : Key(merged[p]) = Key(e)
                 \/ Len(merged) = Limit /\ \A p \in DOMAIN merged : e.ms <= merged[p].ms
    <3>1. \A e \in Entry : e.ms \in Nat
      BY <1>2
    <3>. HIDE DEF Both
    <3>. QED BY <1>3, <3>1, MergeIsHistory
  <2>. QED BY <1>1, <2>1
<1>6. Window(snapshot) /\ Behind(Both, snapshot)
  <2>1. Follows(Sent(1), Sent(1)) /\ Behind(EntriesOf(page), Sent(1))
    BY <1>1 DEF SentInv, PageInv
  <2>. QED BY <1>1, <2>1 DEF Follows, Behind
<1>7. \A x \in Both : ~Hidden(x, page')
  BY <1>4, <1>5 DEF Hidden
<1>8. \A p, q \in DOMAIN page' : p < q => page'[p].n < page'[q].n
  <2>1. InOrder(page')
    BY DEF PageInv, InOrder, Hidden, EntriesOf, Key
  <2>2. \A p \in DOMAIN page' : page'[p] \in Both
    BY <1>5 DEF EntriesOf
  <2>. QED BY <1>4, <1>7, <2>1, <2>2 DEF InOrder
<1>9. CASE snapshot = <<>>
  <2>1. Len(snapshot) = 0
    BY <1>9, EmptySeq
  <2>. QED BY <1>5, <1>9, <2>1, LatestNone
<1>10. CASE snapshot # <<>>
  <2>. HIDE DEF Both
  <2>1. EntriesOf(snapshot) \subseteq Both
    BY DEF Both
  <2>2. ASSUME NEW b \in EntriesOf(snapshot) PROVE \E p \in DOMAIN page' : page'[p] = b
    <3>1. CASE \E p \in DOMAIN page' : Key(page'[p]) = Key(b)
      <4>1. PICK p \in DOMAIN page' : Key(page'[p]) = Key(b)
        BY <3>1
      <4>2. page'[p] \in Both /\ b \in Both
        BY <1>5, <2>1, <2>2 DEF EntriesOf
      <4>3. page'[p] = b
        BY <1>4, <4>1, <4>2 DEF History
      <4>. QED BY <4>3
    <3>2. CASE Len(page') = Limit /\ \A p \in DOMAIN page' : b.ms <= page'[p].ms
      <4>1. History(EntriesOf(page') \cup EntriesOf(snapshot)) /\ Behind(EntriesOf(page'), snapshot)
        <5>1. Behind(EntriesOf(page'), snapshot)
          BY <1>5, <1>6 DEF Behind
        <5>2. History(EntriesOf(page') \cup EntriesOf(snapshot))
          BY <1>4, <1>5, <2>1 DEF History
        <5>. QED BY <5>1, <5>2
      <4>2. Hidden(b, page')
        <5>. DEFINE X == page'
        <5>1. /\ X \in Seq(Entry) /\ Len(X) = Limit /\ Sparse(X)
              /\ \A p, q \in DOMAIN X : p < q => Key(X[p]) # Key(X[q])
              /\ History(EntriesOf(X) \cup EntriesOf(snapshot)) /\ Behind(EntriesOf(X), snapshot)
              /\ \A p \in DOMAIN X : b.ms <= X[p].ms
          BY <1>5, <3>2, <4>1
        <5>. HIDE DEF X
        <5>2. Hidden(b, X)
          BY <1>2, <1>3, <1>6, <2>2, <5>1, FullPage
        <5>. QED BY <5>2 DEF X
      <4>. QED BY <1>7, <2>1, <2>2, <4>2
    <3>. QED BY <1>5, <2>1, <2>2, <3>1, <3>2
  <2>3. \A k \in DOMAIN snapshot : \E p \in DOMAIN page' : page'[p] = snapshot[k]
    BY <2>2 DEF EntriesOf
  <2>4. \A p \in DOMAIN page' : page'[p].n <= snapshot[Len(snapshot)].n
    <3>1. \E b : b \in EntriesOf(snapshot)
      <4>1. 1 \in DOMAIN snapshot
        <5>1. DOMAIN snapshot = 1 .. Len(snapshot) /\ Len(snapshot) \in Nat /\ Len(snapshot) # 0
          BY <1>3, <1>10, LenProperties, EmptySeq
        <5>. QED BY <5>1
      <4>. QED BY <4>1 DEF EntriesOf
    <3>2. PICK b \in EntriesOf(snapshot) : TRUE
      BY <3>1
    <3>3. \A p \in DOMAIN page' : page'[p] \in Both /\ page'[p].epoch = b.epoch
      BY <1>4, <1>5, <2>1, <3>2 DEF EntriesOf
    <3>. QED BY <1>6, <3>2, <3>3 DEF Behind
  <2>5. \A e \in Entry : e.n \in Nat
    BY <1>2
  <2>. DEFINE X == page'
  <2>6. /\ X \in Seq(Entry) /\ \A p, q \in DOMAIN X : p < q => X[p].n < X[q].n
        /\ \A k \in DOMAIN snapshot : \E p \in DOMAIN X : X[p] = snapshot[k]
        /\ \A p \in DOMAIN X : X[p].n <= snapshot[Len(snapshot)].n
    BY <1>5, <1>8, <2>3, <2>4
  <2>. HIDE DEF X
  <2>7. Latest(X, Len(snapshot)) = snapshot
    BY <1>3, <1>6, <1>10, <2>5, <2>6, EndsWithWindow
  <2>. QED BY <2>7 DEF X
<1>. QED BY <1>9, <1>10

(***************************************************************************)
(* A page that took a snapshot in ends with it, whatever it held and lost: *)
(* no entry of the snapshot is missing and none older follows it, as long  *)
(* as the entries are of one run and their keys tell them apart            *)
(* (mergeTraceHistory).                                                    *)
(***************************************************************************)
THEOREM SnapshotIsShown == Spec /\ []Sparse(page) => ShowsTrace
<1>1. TypeOK /\ TraceInv /\ TraceInv' /\ Sparse(page)' => Shown
  <2>. SUFFICES ASSUME TypeOK, TraceInv, TraceInv', Sparse(page)', Ingest,
                       NEW snapshot, snapshot = channel[1].entries,
                       OneEpoch(page \o snapshot), Distinguished(page \o snapshot)
                PROVE  Latest(page', Len(snapshot)) = snapshot
    BY DEF Shown
  <2>1. PageInv' /\ Sparse(page')
    BY DEF TraceInv, Sparse
  <2>. QED BY <2>1, IngestShows
<1>2. TypeOK /\ TraceInv /\ TraceInv' /\ Sparse(page)' => [Shown]_vars
  BY <1>1
<1>. QED BY <1>2, MonitorTypeCorrect, TraceInvariant, PTL DEF ShowsTrace


-----------------------------------------------------------------------------
(***************************************************************************)
(* The transactions of the page.                                           *)
(***************************************************************************)

\* What an entry belongs to: an event to itself, the rest to the latest that
\* opens a transaction.
LEMMA OpenerFacts ==
  ASSUME TypeOK, NEW i \in DOMAIN page
  PROVE  /\ DOMAIN page = 1 .. Len(page) /\ Len(page) \in Nat
         /\ page[i].direction = "EVENT" => Opener(i) = i
         /\ page[i].direction # "EVENT" => /\ Opener(i) \in 1 .. i /\ Opens(Opener(i))
                                           /\ \A k \in 1 .. i : Opens(k) => k <= Opener(i)
<1>1. DOMAIN page = 1 .. Len(page) /\ Len(page) \in Nat
  BY LenProperties DEF TypeOK
<1>2. page[i].direction = "EVENT" => Opener(i) = i
  BY DEF Opener
<1>3. ASSUME page[i].direction # "EVENT"
      PROVE  /\ Opener(i) \in 1 .. i /\ Opens(Opener(i))
             /\ \A k \in 1 .. i : Opens(k) => k <= Opener(i)
  <2>. DEFINE Others == {k \in 1 .. i : page[k].direction # "EVENT"}
              Openers == {k \in 1 .. i : Opens(k)}
  <2>1. i \in Nat /\ i \in Others /\ Others \in SUBSET Nat
    BY <1>1, <1>3
  <2>2. PICK f \in Others : \A k \in Others : f <= k
    <3>. HIDE DEF Others
    <3>. QED BY <2>1, LeastNumber
  <2>3. \A k \in 1 .. f - 1 : page[k].direction = "EVENT"
    BY <2>1, <2>2
  <2>4. f \in Openers /\ Openers \in SUBSET (1 .. i)
    BY <2>2, <2>3 DEF Opens
  <2>5. Opener(i) = Max(Openers)
    BY <1>3 DEF Opener
  <2>. HIDE DEF Openers
  <2>6. Max(Openers) \in Openers /\ \A k \in Openers : k <= Max(Openers)
    BY <2>1, <2>4, GreatestNumber
  <2>. QED BY <2>5, <2>6 DEF Openers
<1>. QED BY <1>1, <1>2, <1>3

\* Of two entries the earlier has the opener of the later exactly if both are
\* of one exchange.
LEMMA OneOpener ==
  ASSUME TypeOK, TraceInv, OneEpoch(page), NoneMissing(page),
         NEW i \in DOMAIN page, NEW j \in DOMAIN page, i <= j,
         page[i].direction # "EVENT", page[j].direction # "EVENT"
  PROVE  page[i].exchange = page[j].exchange <=> Opener(i) = Opener(j)
<1>. USE DEF TraceInv
<1>1. /\ DOMAIN page = 1 .. Len(page) /\ Len(page) \in Nat
      /\ Opener(i) \in 1 .. i /\ \A k \in 1 .. i : Opens(k) => k <= Opener(i)
      /\ Opener(j) \in 1 .. j /\ Opens(Opener(j)) /\ \A k \in 1 .. j : Opens(k) => k <= Opener(j)
  BY OpenerFacts
<1>2. \A p \in DOMAIN page : /\ page[p] \in Known /\ page[p] \in EntriesOf(page)
                             /\ page[p].n \in Nat /\ page[p].exchange \in Nat
  <2>1. \A p \in DOMAIN page : page[p] \in Known /\ page[p] \in EntriesOf(page)
    BY DEF Known, EntriesOf
  <2>2. \A e \in Known : e.n \in 1 .. count /\ e.exchange \in 0 .. count
    BY SentTypes
  <2>3. \A e \in Known : e.n \in Nat /\ e.exchange \in Nat
    BY <2>2, SentTypes
  <2>. QED BY <2>1, <2>3
<1>3. \A p, q \in DOMAIN page : p < q => page[p].n < page[q].n
  BY DEF PageInv, InOrder, Hidden, OneEpoch, EntriesOf
<1>4. \A p, q \in DOMAIN page : page[p].n < page[q].n => p < q
  <2>. SUFFICES ASSUME NEW p \in DOMAIN page, NEW q \in DOMAIN page, page[p].n < page[q].n, ~(p < q)
                PROVE  FALSE
    OBVIOUS
  <2>1. p = q \/ q < p
    BY <1>1
  <2>. QED BY <1>2, <1>3, <2>1
<1>5. page[i].n <= page[j].n
  BY <1>1, <1>2, <1>3
<1>6. CASE Opener(j) > i
  <2>. DEFINE o == Opener(j)
  <2>1. o \in DOMAIN page /\ i < o /\ o <= j /\ o \in Nat
    BY <1>1, <1>6
  <2>2. Opener(i) # o
    BY <1>1, <2>1
  <2>3. page[o].direction = "TX"
    <3>1. i \in 1 .. o - 1
      BY <1>1, <2>1
    <3>. QED BY <1>1, <3>1 DEF Opens
  <2>4. page[i].n < page[o].n /\ page[o].n <= page[j].n
    <3>1. o = j \/ o < j
      BY <1>1, <2>1
    <3>. QED BY <1>2, <1>3, <2>1, <3>1
  <2>5. page[o].exchange = page[o].n /\ page[i].exchange <= page[i].n
    BY <1>2, <2>1, <2>3, Zenon DEF Exchanges
  <2>6. ASSUME page[i].exchange = page[j].exchange PROVE FALSE
    <3>1. page[j].exchange <= page[o].n
      BY <1>2, <2>1, <2>4, <2>5, <2>6
    <3>2. page[o].exchange = page[j].exchange
      BY <1>2, <2>1, <2>3, <2>4, <3>1 DEF Exchanges
    <3>. QED BY <1>2, <2>1, <2>4, <2>5, <2>6, <3>2
  <2>. QED BY <2>2, <2>6
<1>7. CASE ~(Opener(j) > i)
  <2>1. Opener(j) \in 1 .. i
    BY <1>1, <1>7
  <2>2. Opener(i) = Opener(j)
    <3>1. Opener(j) <= Opener(i)
      BY <1>1, <2>1
    <3>2. Opener(i) \in 1 .. j
      BY <1>1
    <3>3. Opens(Opener(i))
      BY OpenerFacts
    <3>4. Opener(i) <= Opener(j)
      BY <1>1, <3>2, <3>3
    <3>. QED BY <1>1, <3>1, <3>4
  <2>. DEFINE x == page[j].exchange
  <2>3. x \in Nat /\ x # 0 /\ x <= page[j].n
    BY <1>2, Zenon DEF Exchanges
  <2>4. CASE x <= page[i].n
    <3>1. page[i].exchange = page[j].exchange
      BY <1>2, <1>5, <2>4 DEF Exchanges
    <3>. QED BY <2>2, <3>1
  <2>5. CASE ~(x <= page[i].n)
    <3>1. x \in page[i].n .. page[j].n
      BY <1>2, <2>3, <2>5
    <3>2. PICK m \in EntriesOf(page) : m.n = x
      BY <1>2, <3>1 DEF NoneMissing
    <3>3. PICK p \in DOMAIN page : m = page[p]
      BY DEF EntriesOf
    <3>4. page[p].direction = "TX"
      BY <1>2, <3>2, <3>3 DEF Exchanges
    <3>5. i < p /\ p <= j
      <4>1. page[i].n < page[p].n
        BY <1>2, <2>3, <2>5, <3>2, <3>3
      <4>2. ~(page[j].n < page[p].n)
        BY <1>2, <2>3, <3>2, <3>3
      <4>3. ~(j < p)
        BY <1>3, <4>2
      <4>. QED BY <1>1, <1>4, <4>1, <4>3
    <3>6. Opens(p) /\ p \in 1 .. j
      BY <1>1, <3>4, <3>5 DEF Opens
    <3>. QED BY <1>1, <2>1, <3>5, <3>6
  <2>. QED BY <2>4, <2>5
<1>. QED BY <1>6, <1>7

(***************************************************************************)
(* The transactions of a page are the exchanges with the gateway and the   *)
(* events, as long as the page holds one run and no entry is missing       *)
(* between those it holds (buildTransactions).                             *)
(***************************************************************************)
THEOREM TransactionsShowExchanges == Spec /\ []Sparse(page) => []TransactionsAreExchanges
<1>1. TypeOK /\ TraceInv => TransactionsAreExchanges
  <2>. SUFFICES ASSUME TypeOK, TraceInv, OneEpoch(page), NoneMissing(page),
                       NEW t \in Transactions, NEW i \in t
                PROVE  IF page[i].direction = "EVENT" THEN t = {i}
                       ELSE \A j \in DOMAIN page : page[j].direction # "EVENT" =>
                              (page[j].exchange = page[i].exchange <=> j \in t)
    BY DEF TransactionsAreExchanges
  <2>1. i \in DOMAIN page /\ t = {j \in DOMAIN page : Opener(j) = Opener(i)}
    BY DEF Transactions
  <2>2. CASE page[i].direction = "EVENT"
    <3>1. Opener(i) = i
      BY <2>1, <2>2, OpenerFacts
    <3>2. ASSUME NEW j \in t PROVE j = i
      <4>1. j \in DOMAIN page /\ Opener(j) = i
        BY <2>1, <3>1, <3>2
      <4>2. CASE page[j].direction = "EVENT"
        BY <4>1, <4>2, OpenerFacts
      <4>3. CASE page[j].direction # "EVENT"
        <5>1. Opens(i)
          BY <4>1, <4>3, OpenerFacts
        <5>. QED BY <2>2, <5>1 DEF Opens
      <4>. QED BY <4>2, <4>3
    <3>. QED BY <2>2, <3>2
  <2>3. CASE page[i].direction # "EVENT"
    <3>1. ASSUME NEW j \in DOMAIN page, page[j].direction # "EVENT"
          PROVE  page[j].exchange = page[i].exchange <=> j \in t
      <4>1. i \in Nat /\ j \in Nat
        BY <2>1, OpenerFacts
      <4>2. page[j].exchange = page[i].exchange <=> Opener(j) = Opener(i)
        <5>1. CASE i <= j
          BY <2>1, <2>3, <3>1, <5>1, OneOpener
        <5>2. CASE j <= i
          BY <2>1, <2>3, <3>1, <5>2, OneOpener
        <5>. QED BY <4>1, <5>1, <5>2
      <4>. QED BY <2>1, <4>2
    <3>. QED BY <2>3, <3>1
  <2>. QED BY <2>2, <2>3
<1>. QED BY <1>1, MonitorTypeCorrect, TraceInvariant, PTL
=============================================================================
