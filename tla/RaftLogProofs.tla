--------------------------- MODULE RaftLogProofs ---------------------------
(***************************************************************************)
(* What the log algorithms of RaftLog guarantee, for logs of any length,   *)
(* and the facts on numbers and quorums the proofs about RaftNode need.    *)
(***************************************************************************)
EXTENDS RaftLog, FiniteSetsExt, FiniteSetTheorems, SequenceTheorems,
        WellFoundedInduction, TLAPS

-----------------------------------------------------------------------------
\* A non-empty set of natural numbers has a least element.
LEMMA LeastOfNaturals ==
  ASSUME NEW S \in SUBSET Nat, S # {}
  PROVE  \E x \in S : \A y \in S : x <= y
<1>1. \E x \in S : \A y \in S : ~ (<<y, x>> \in OpToRel(<, Nat))
  BY NatLessThanWellFounded, WFMin
<1>2. PICK x \in S : \A y \in S : ~ (<<y, x>> \in OpToRel(<, Nat))
  BY <1>1
<1>3. \A y \in S : ~ (y < x)
  BY <1>2 DEF OpToRel
<1> QED  BY <1>3

\* A bounded one has a greatest element.
LEMMA GreatestOfNaturals ==
  ASSUME NEW b \in Nat, NEW S \in SUBSET (0 .. b), S # {}
  PROVE  Max(S) \in S /\ \A y \in S : y <= Max(S)
<1> DEFINE T == {k \in Nat : k <= b /\ b - k \in S}
<1>1. PICK s \in S : TRUE
  OBVIOUS
<1>2. b - s \in T
  BY <1>1
<1>3. PICK k \in T : \A j \in T : k <= j
  BY <1>2, LeastOfNaturals
<1>4. b - k \in S /\ \A y \in S : y <= b - k
  <2>1. ASSUME NEW y \in S PROVE y <= b - k
    <3>1. b - y \in T
      OBVIOUS
    <3>2. k \in Nat /\ y \in Nat /\ k <= b - y
      BY <1>3, <3>1
    <3> HIDE DEF T
    <3> QED  BY <3>2
  <2> QED  BY <1>3, <2>1
<1>5. \E x \in S : \A y \in S : x >= y
  BY <1>4
<1> QED  BY <1>5 DEF Max

\* Two quorums of one cluster share a node.
LEMMA QuorumsIntersect ==
  ASSUME NEW S, IsFiniteSet(S),
         NEW P \in SUBSET S, Cardinality(P) >= QuorumSize(S),
         NEW Q \in SUBSET S, Cardinality(Q) >= QuorumSize(S)
  PROVE  \E x \in P : x \in Q
<1>1. /\ IsFiniteSet(P) /\ IsFiniteSet(Q)
      /\ P \cup Q \in SUBSET S /\ P \cap Q \in SUBSET S
  BY FS_Subset
<1>2. IsFiniteSet(P \cap Q) /\ IsFiniteSet(P \cup Q)
  BY <1>1, FS_Subset
<1>3. /\ Cardinality(S) \in Nat /\ Cardinality(P) \in Nat
      /\ Cardinality(Q) \in Nat /\ Cardinality(P \cap Q) \in Nat
      /\ Cardinality(P \cup Q) \in Nat
  BY <1>1, <1>2, FS_CardinalityType
<1>4. Cardinality(P \cup Q) <= Cardinality(S)
  BY <1>1, FS_Subset
<1>5. Cardinality(P \cup Q)
        = Cardinality(P) + Cardinality(Q) - Cardinality(P \cap Q)
  BY <1>1, FS_Union
<1>6. Cardinality(P \cap Q) # 0
  BY <1>3, <1>4, <1>5 DEF QuorumSize
<1>7. P \cap Q # {}
  BY <1>2, <1>6, FS_EmptySet
<1> QED  BY <1>7

-----------------------------------------------------------------------------
\* The index of the last entry is the length of a positioned log.
LEMMA LastLogIndexIsLen ==
  ASSUME NEW l \in Seq(Entry), Positioned(l)
  PROVE  LastLogIndex(l) = Len(l)
BY DEF Positioned, LastLogIndex

\* The fields of an entry.
LEMMA EntryFields ==
  /\ \A e \in Entry : e.index \in Nat /\ e.term \in Nat
  /\ \A i, t \in Nat : /\ LogEntry(i, t) \in Entry
                       /\ LogEntry(i, t).index = i /\ LogEntry(i, t).term = t
BY DEF Entry, LogEntry

\* What a log is summarised to is a number.
LEMMA LogSummaryType ==
  ASSUME NEW l \in Seq(Entry), NEW prev \in Nat
  PROVE  /\ LastLogIndex(l) \in Nat /\ LastLogTerm(l) \in Nat
         /\ PrevTerm(l, prev) \in Nat
<1>1. \A i \in DOMAIN l : l[i].index \in Nat /\ l[i].term \in Nat
  <2>1. \A i \in DOMAIN l : l[i] \in Entry
    OBVIOUS
  <2> QED  BY <2>1, EntryFields
<1>2. l # << >> => Len(l) \in DOMAIN l
  OBVIOUS
<1>3. LastLogIndex(l) \in Nat /\ LastLogTerm(l) \in Nat
  BY <1>1, <1>2 DEF LastLogIndex, LastLogTerm
<1>4. PrevTerm(l, prev) \in Nat
  BY <1>1 DEF PrevTerm
<1> QED  BY <1>3, <1>4

\* The entries a leader sends follow the one it names as the previous.
LEMMA EntriesAfterContiguous ==
  ASSUME NEW l \in Seq(Entry), Positioned(l), NEW prev \in Nat
  PROVE  /\ EntriesAfter(l, prev) \in Seq(Entry)
         /\ \A k \in DOMAIN EntriesAfter(l, prev) :
              EntriesAfter(l, prev)[k].index = prev + k
<1>1. CASE prev < Len(l)
  <2>0. EntriesAfter(l, prev) = SubSeq(l, prev + 1, Len(l))
    BY <1>1 DEF EntriesAfter
  <2>1. PICK s \in Seq(Entry) :
          /\ s = EntriesAfter(l, prev) /\ Len(s) = Len(l) - prev
          /\ \A k \in 1 .. Len(l) - prev : s[k] = l[prev + k]
    <3>1. \A i \in (prev + 1) .. Len(l) : l[i] \in Entry
      OBVIOUS
    <3>2. SubSeq(l, prev + 1, Len(l)) \in Seq(Entry)
      BY <3>1, <1>1, SubSeqProperties
    <3>3. /\ Len(SubSeq(l, prev + 1, Len(l))) = Len(l) - prev
          /\ \A k \in 1 .. Len(l) - prev :
               SubSeq(l, prev + 1, Len(l))[k] = l[prev + k]
      BY <1>1
    <3> QED  BY <2>0, <3>2, <3>3
  <2>2. ASSUME NEW k \in DOMAIN s PROVE s[k].index = prev + k
    <3>1. prev + k \in DOMAIN l /\ s[k] = l[prev + k]
      BY <1>1, <2>1
    <3> QED  BY <3>1 DEF Positioned
  <2> QED  BY <2>1, <2>2
<1>2. CASE ~(prev < Len(l))
  BY <1>2 DEF EntriesAfter, NoEntries
<1> QED  BY <1>1, <1>2

\* A leader's log stays positioned when it appends behind its last entry.
LEMMA AppendPositioned ==
  ASSUME NEW l \in Seq(Entry), Positioned(l), NEW t \in Nat
  PROVE  /\ Append(l, LogEntry(LastLogIndex(l) + 1, t)) \in Seq(Entry)
         /\ Positioned(Append(l, LogEntry(LastLogIndex(l) + 1, t)))
<1>1. PICK e \in Entry :
        e = LogEntry(LastLogIndex(l) + 1, t) /\ e.index = Len(l) + 1
  <2>1. LastLogIndex(l) = Len(l) /\ Len(l) + 1 \in Nat
    BY LastLogIndexIsLen
  <2> QED  BY <2>1, EntryFields
<1>2. /\ Append(l, e) \in Seq(Entry) /\ Len(Append(l, e)) = Len(l) + 1
      /\ \A i \in 1 .. Len(l) : Append(l, e)[i] = l[i]
      /\ Append(l, e)[Len(l) + 1] = e
  BY AppendProperties
<1> QED  BY <1>1, <1>2 DEF Positioned

\* Where the append loop cuts: the first entry it does not skip belongs
\* right behind a prefix that the log and the request share.
LEMMA FirstDivergent ==
  ASSUME NEW l \in Seq(Entry), NEW es \in Seq(Entry),
         NEW prev \in 0 .. Len(l),
         \A k \in DOMAIN es : es[k].index = prev + k,
         Divergent(l, es) # {}
  PROVE  \E first \in 1 .. Len(es) :
            /\ prev + first - 1 \in 0 .. Len(l)
            /\ \A j \in 1 .. first - 1 : /\ prev + j <= Len(l)
                                         /\ l[prev + j].term = es[j].term
            /\ first \in Divergent(l, es)
            /\ AppendLoop(l, es) = SubSeq(l, 1, prev + first - 1)
                                     \o SubSeq(es, first, Len(es))
<1> DEFINE D == Divergent(l, es)
           first == CHOOSE k \in D : \A j \in D : k <= j
<1>1. D \in SUBSET Nat /\ D \subseteq DOMAIN es
  BY DEF Divergent
<1>2. \E k \in D : \A j \in D : k <= j
  BY <1>1, LeastOfNaturals
<1>3. first \in D /\ \A j \in D : first <= j
  BY <1>2
<1>4. first \in DOMAIN es /\ first \in 1 .. Len(es)
  BY <1>1, <1>3
<1> HIDE DEF first
<1>5. \A j \in 1 .. first - 1 : j \notin D /\ j \in DOMAIN es
  BY <1>3, <1>4
<1>6. \A j \in 1 .. first - 1 : /\ prev + j <= Len(l)
                               /\ l[prev + j].term = es[j].term
  <2> TAKE j \in 1 .. first - 1
  <2>1. j \in DOMAIN es /\ j \notin Divergent(l, es)
    BY <1>5
  <2>2. es[j].index = prev + j /\ prev + j \in Nat /\ Len(l) \in Nat
    BY <2>1
  <2> QED  BY <2>1, <2>2 DEF Divergent
<1>7. prev + first - 1 \in 0 .. Len(l)
  <2>1. CASE first = 1
    BY <2>1
  <2>2. CASE first # 1
    <3>1. first - 1 \in 1 .. first - 1
      BY <1>4, <2>2
    <3> QED  BY <1>4, <1>6, <3>1
  <2> QED  BY <2>1, <2>2
<1>8. es[first].index - 1 = prev + first - 1
  BY <1>4
<1>9. AppendLoop(l, es) = SubSeq(l, 1, es[first].index - 1)
                            \o SubSeq(es, first, Len(es))
  BY DEF AppendLoop, first
<1> QED  BY <1>3, <1>4, <1>6, <1>7, <1>8, <1>9

\* The entries of a prefix of l followed by a suffix of es.
LEMMA PrefixThenSuffix ==
  ASSUME NEW l \in Seq(Entry), NEW es \in Seq(Entry),
         NEW cut \in 0 .. Len(l), NEW first \in 1 .. Len(es)
  PROVE  LET r == SubSeq(l, 1, cut) \o SubSeq(es, first, Len(es))
         IN  /\ r \in Seq(Entry)
             /\ Len(r) = cut + Len(es) - first + 1
             /\ \A i \in 1 .. Len(r) :
                  r[i] = IF i <= cut THEN l[i] ELSE es[i - cut + first - 1]
<1>1. /\ SubSeq(l, 1, cut) \in Seq(Entry)
      /\ Len(SubSeq(l, 1, cut)) = cut
      /\ \A i \in 1 .. cut : SubSeq(l, 1, cut)[i] = l[i]
  OBVIOUS
<1>2. /\ SubSeq(es, first, Len(es)) \in Seq(Entry)
      /\ Len(SubSeq(es, first, Len(es))) = Len(es) - first + 1
      /\ \A i \in 1 .. Len(es) - first + 1 :
           SubSeq(es, first, Len(es))[i] = es[first + i - 1]
  OBVIOUS
<1>3. ASSUME NEW s \in Seq(Entry), NEW t \in Seq(Entry)
      PROVE  /\ s \o t \in Seq(Entry)
             /\ Len(s \o t) = Len(s) + Len(t)
             /\ \A i \in 1 .. Len(s) + Len(t) :
                  (s \o t)[i] = IF i <= Len(s) THEN s[i] ELSE t[i - Len(s)]
  BY ConcatProperties
<1>4. PICK s \in Seq(Entry) :
        /\ s = SubSeq(l, 1, cut) /\ Len(s) = cut
        /\ \A i \in 1 .. cut : s[i] = l[i]
  BY <1>1
<1>5. PICK t \in Seq(Entry) :
        /\ t = SubSeq(es, first, Len(es)) /\ Len(t) = Len(es) - first + 1
        /\ \A i \in 1 .. Len(es) - first + 1 : t[i] = es[first + i - 1]
  BY <1>2
<1>6. PICK r \in Seq(Entry) :
        /\ r = s \o t /\ Len(r) = Len(s) + Len(t)
        /\ \A i \in 1 .. Len(s) + Len(t) :
             r[i] = IF i <= Len(s) THEN s[i] ELSE t[i - Len(s)]
  BY <1>3
<1>7. Len(r) = cut + Len(es) - first + 1
  <2>1. Len(s) = cut
    BY <1>4
  <2>2. Len(t) = Len(es) - first + 1
    BY <1>5
  <2>3. Len(r) = Len(s) + Len(t)
    BY <1>6
  <2> QED  BY <2>1, <2>2, <2>3
<1>8. ASSUME NEW i \in 1 .. Len(r)
      PROVE  r[i] = IF i <= cut THEN l[i] ELSE es[i - cut + first - 1]
  <2>1. CASE i <= cut
    BY <2>1, <1>4, <1>5, <1>6
  <2>2. CASE i > cut
    <3>1. i - cut \in 1 .. Len(es) - first + 1
      BY <2>2, <1>7
    <3>2. r[i] = t[i - cut]
      BY <2>2, <1>4, <1>5, <1>6, <1>7
    <3>3. t[i - cut] = es[first + (i - cut) - 1]
      BY <3>1, <1>5
    <3>4. first + (i - cut) - 1 = i - cut + first - 1
      OBVIOUS
    <3> QED  BY <2>2, <3>2, <3>3, <3>4
  <2> QED  BY <2>1, <2>2
<1> QED  BY <1>4, <1>5, <1>6, <1>7, <1>8

\* The append loop yields a positioned log that keeps what it held before
\* the first entry that differs and has the request's entries from there on.
LEMMA AppendLoopPositioned ==
  ASSUME NEW l \in Seq(Entry), NEW es \in Seq(Entry),
         Positioned(l), NEW prev \in 0 .. Len(l),
         \A k \in DOMAIN es : es[k].index = prev + k
  PROVE  /\ AppendLoop(l, es) \in Seq(Entry)
         /\ Positioned(AppendLoop(l, es))
<1>1. CASE Divergent(l, es) = {}
  BY <1>1 DEF AppendLoop
<1>2. CASE Divergent(l, es) # {}
  <2>1. PICK first \in 1 .. Len(es) :
          /\ prev + first - 1 \in 0 .. Len(l)
          /\ AppendLoop(l, es) = SubSeq(l, 1, prev + first - 1)
                                   \o SubSeq(es, first, Len(es))
    BY <1>2, FirstDivergent
  <2>2. PICK cut \in 0 .. Len(l) : cut = prev + first - 1
    BY <2>1
  <2>3. PICK r \in Seq(Entry) :
          /\ r = AppendLoop(l, es)
          /\ Len(r) = cut + Len(es) - first + 1
          /\ \A i \in 1 .. Len(r) :
               r[i] = IF i <= cut THEN l[i] ELSE es[i - cut + first - 1]
    BY <2>1, <2>2, PrefixThenSuffix
  <2>4. ASSUME NEW i \in 1 .. Len(r)
        PROVE  r[i].index = i
    <3>1. CASE i <= cut
      <4>1. i \in DOMAIN l /\ r[i] = l[i]
        BY <2>3, <3>1
      <4> QED  BY <4>1 DEF Positioned
    <3>2. CASE i > cut
      <4>1. /\ i - cut + first - 1 \in DOMAIN es
            /\ prev + (i - cut + first - 1) = i
        BY <2>2, <2>3, <3>2
      <4>2. r[i] = es[i - cut + first - 1]
        BY <2>3, <3>2
      <4> QED  BY <4>1, <4>2
    <3> QED  BY <3>1, <3>2
  <2> QED  BY <2>3, <2>4 DEF Positioned
<1> QED  BY <1>1, <1>2
=============================================================================
