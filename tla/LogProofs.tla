------------------------------ MODULE LogProofs ------------------------------
(***************************************************************************)
(* Logs match, for every set of nodes, of which one may be added, and with *)
(* no bound on terms, entries, calls or restarts.  The argument is a       *)
(* ledger: for every term that had a leader, the longest log that leader   *)
(* has had in it.  Whatever else there is, in logs and in requests, was    *)
(* copied from there: it agrees with the ledger of a term up to its last   *)
(* entry of that term.                                                     *)
(***************************************************************************)
EXTENDS ElectionProofs

\* The terms of a log, with a 0 before the first.
LogTerms(l) == [i \in 0 .. Len(l) |-> IF i = 0 THEN 0 ELSE l[i].term]

\* The terms a request speaks of: of its entries and of the one before them.
RequestTerms(m) ==
    [i \in m.prevLogIndex .. m.prevLogIndex + Len(m.entries) |->
        IF i = m.prevLogIndex THEN m.prevLogTerm
                              ELSE m.entries[i - m.prevLogIndex].term]

\* Both are histories.  These are the indices that stand for entries: the
\* first one only says what the entries follow.
Above(f) == {i \in DOMAIN f : i - 1 \in DOMAIN f}

\* f is a stretch of g, or has no entry.
Stretch(f, g) ==
    \/ Above(f) = {}
    \/ DOMAIN f \subseteq DOMAIN g /\ \A i \in DOMAIN f : f[i] = g[i]

-----------------------------------------------------------------------------
\* The invariant, of a ledger W and the terms won in elections.

Won == {e[1] : e \in elected}

\* Up to every entry, f is what the leader of the entry's term had.
Recorded(f, W, won) ==
    \A j \in Above(f) :
        /\ f[j] \in won
        /\ \A x \in DOMAIN f : x <= j => /\ x \in DOMAIN W[f[j]]
                                         /\ f[x] = W[f[j]][x]

\* The history of a log of term t or a later one.
Ordered(g, t) ==
    /\ \E k \in Nat : DOMAIN g = 0 .. k
    /\ g[0] = 0
    /\ \A i \in DOMAIN g : g[i] \in Nat /\ g[i] <= t
    /\ \A i, j \in DOMAIN g : i <= j => g[i] <= g[j]

Book(W, won) == \A t \in won : Ordered(W[t], t) /\ Recorded(W[t], W, won)

Ledger(W) ==
    /\ Book(W, Won)
    /\ \A n \in Node : Recorded(LogTerms(log[n]), W, Won)
    /\ \A m \in appendRequests : /\ m.term \in Won
                                 /\ Stretch(RequestTerms(m), W[m.term])
    /\ \A n \in Node : role[n] = Leader => W[currentTerm[n]] = LogTerms(log[n])

\* Only who was elected leads, and it is elected once in a term.
LeadersElected ==
    /\ \A n \in Node : role[n] = Leader => <<currentTerm[n], n>> \in elected
    /\ \A n \in Node : <<currentTerm[n], n>> \in elected => role[n] # Candidate
    /\ \A e \in elected : e[1] <= currentTerm[e[2]]

LogsInTerm ==
    \A n \in Node : \A i \in DOMAIN log[n] : log[n][i].term <= currentTerm[n]

LogInvariant == LeadersElected /\ LogsInTerm /\ \E W : Ledger(W)

\* A ledger is only ever added to.
Continues(W, V, won) ==
    \A t \in won : \A i \in DOMAIN W[t] : i \in DOMAIN V[t] /\ V[t][i] = W[t][i]

\* What every step does to it.
Kept(W) == /\ LeadersElected' /\ LogsInTerm'
           /\ \E V : Ledger(V)' /\ Continues(W, V, Won)

-----------------------------------------------------------------------------
\* Histories and the ledger

LEMMA StretchRecorded ==
  ASSUME NEW f, NEW g, NEW W, NEW won, Stretch(f, g), Recorded(g, W, won)
  PROVE  Recorded(f, W, won)
<1> SUFFICES ASSUME NEW j \in Above(f)
             PROVE  /\ f[j] \in won
                    /\ \A x \in DOMAIN f : x <= j => /\ x \in DOMAIN W[f[j]]
                                                     /\ f[x] = W[f[j]][x]
  BY DEF Recorded
<1>1. DOMAIN f \subseteq DOMAIN g /\ \A i \in DOMAIN f : f[i] = g[i]
  BY DEF Stretch
<1>2. j \in Above(g) /\ f[j] = g[j]
  BY <1>1 DEF Above
<1> QED  BY <1>1, <1>2 DEF Recorded

LEMMA RecordedContinues ==
  ASSUME NEW f, NEW W, NEW V, NEW won, NEW won2,
         Recorded(f, W, won), won \subseteq won2, Continues(W, V, won)
  PROVE  Recorded(f, V, won2)
BY DEF Recorded, Continues

\* The log h in which a request leaves its entries, behind what it has of a.
LEMMA SplicedRecorded ==
  ASSUME NEW a, NEW m, NEW h, NEW W, NEW won, Book(W, won),
         NEW p \in Nat, NEW la \in Nat, NEW lm \in Nat, p <= la, p <= lm,
         DOMAIN a = 0 .. la, DOMAIN m = p .. lm, DOMAIN h = 0 .. lm,
         a[p] = m[p],
         \A i \in 0 .. p : h[i] = a[i],
         \A i \in p .. lm : h[i] = m[i],
         Recorded(a, W, won), Recorded(m, W, won)
  PROVE  Recorded(h, W, won)
<1> SUFFICES ASSUME NEW j \in Above(h)
             PROVE  /\ h[j] \in won
                    /\ \A x \in DOMAIN h : x <= j => /\ x \in DOMAIN W[h[j]]
                                                     /\ h[x] = W[h[j]][x]
  BY DEF Recorded
<1>1. j \in 1 .. lm
  BY DEF Above
<1>2. CASE j <= p
  <2>1. j \in Above(a) /\ h[j] = a[j]
    BY <1>1, <1>2 DEF Above
  <2>2. \A x \in DOMAIN h : x <= j => x \in DOMAIN a /\ h[x] = a[x]
    BY <1>1, <1>2
  <2> QED  BY <2>1, <2>2 DEF Recorded
<1>3. CASE j > p
  <2>1. j \in Above(m) /\ h[j] = m[j]
    BY <1>1, <1>3 DEF Above
  <2>2. PICK s : s = h[j]
    OBVIOUS
  <2>3. s \in won /\ \A x \in DOMAIN m : x <= j => x \in DOMAIN W[s] /\ m[x] = W[s][x]
    BY <2>1, <2>2 DEF Recorded
  <2>4. ASSUME NEW x \in DOMAIN h, x <= j, x >= p
        PROVE  x \in DOMAIN W[s] /\ h[x] = W[s][x]
    <3>1. x \in p .. lm
      BY <1>1, <2>4
    <3> QED  BY <2>3, <2>4, <3>1
  <2>5. ASSUME NEW x \in DOMAIN h, x < p
        PROVE  x \in DOMAIN W[s] /\ h[x] = W[s][x]
    <3>1. p \in DOMAIN m /\ p <= j
      BY <1>1, <1>3
    <3>2. p \in DOMAIN W[s] /\ a[p] = W[s][p]
      BY <2>3, <3>1
    <3>3. PICK k \in Nat : DOMAIN W[s] = 0 .. k
      BY <2>3 DEF Book, Ordered
    <3>4. /\ x \in 0 .. p /\ x \in DOMAIN a /\ x \in DOMAIN W[s]
          /\ p \in Above(a) /\ p \in Above(W[s])
      BY <2>5, <3>2, <3>3 DEF Above
    <3>5. a[x] = W[a[p]][x]
      BY <2>5, <3>4 DEF Recorded
    <3>6. Recorded(W[s], W, won)
      BY <2>3 DEF Book
    <3>7. W[s][x] = W[W[s][p]][x]
      BY <2>5, <3>4, <3>6 DEF Recorded
    <3> QED  BY <3>2, <3>4, <3>5, <3>7
  <2>6. ASSUME NEW x \in DOMAIN h, x <= j
        PROVE  x \in DOMAIN W[s] /\ h[x] = W[s][x]
    <3>1. x \in Int
      OBVIOUS
    <3> QED  BY <2>4, <2>5, <2>6, <3>1
  <2> QED  BY <2>2, <2>3, <2>6
<1> QED  BY <1>1, <1>2, <1>3

\* A leader's page of the ledger takes one more entry.
LEMMA ExtendedBook ==
  ASSUME NEW W, NEW V, NEW won, Book(W, won), NEW t \in won, t \in Nat,
         NEW la \in Nat, NEW lh, lh = la + 1,
         DOMAIN W[t] = 0 .. la, DOMAIN V[t] = 0 .. lh,
         \A i \in 0 .. la : V[t][i] = W[t][i], V[t][lh] = t,
         \A s \in won : s # t => V[s] = W[s]
  PROVE  Book(V, won) /\ Continues(W, V, won)
<1>h. PICK h : /\ h = V[t] /\ DOMAIN h = 0 .. lh /\ h[lh] = t
               /\ \A i \in 0 .. la : h[i] = W[t][i]
  OBVIOUS
<1> USE <1>h
<1>1. Continues(W, V, won)
  <2> SUFFICES ASSUME NEW s \in won, NEW i \in DOMAIN W[s]
               PROVE  i \in DOMAIN V[s] /\ V[s][i] = W[s][i]
    BY DEF Continues
  <2>1. CASE s = t
    BY <2>1
  <2> QED  BY <2>1
<1>2. Ordered(h, t)
  <2>1. Ordered(W[t], t)
    BY DEF Book
  <2>2. \A i \in 0 .. la : h[i] \in Nat /\ h[i] <= t
    BY <2>1 DEF Ordered
  <2>3. ASSUME NEW i \in 0 .. lh PROVE h[i] \in Nat /\ h[i] <= t
    <3>1. i \in 0 .. la \/ i = lh
      OBVIOUS
    <3> QED  BY <2>2, <3>1
  <2>4. ASSUME NEW i \in 0 .. lh, NEW j \in 0 .. lh, i <= j
        PROVE  h[i] <= h[j]
    <3>1. CASE j = lh
      BY <2>3, <3>1
    <3>2. CASE j # lh
      <4>1. i \in 0 .. la /\ j \in 0 .. la
        BY <2>4, <3>2
      <4>2. W[t][i] <= W[t][j]
        BY <2>1, <2>4, <4>1 DEF Ordered
      <4> QED  BY <4>1, <4>2
    <3> QED  BY <3>1, <3>2
  <2>5. h[0] = 0
    <3>1. 0 \in 0 .. la
      OBVIOUS
    <3> QED  BY <2>1, <3>1 DEF Ordered
  <2>6. lh \in Nat
    OBVIOUS
  <2> QED  BY <2>3, <2>4, <2>5, <2>6 DEF Ordered
<1>3. Recorded(h, V, won)
  <2> SUFFICES ASSUME NEW j \in Above(h)
               PROVE  /\ h[j] \in won
                      /\ \A x \in DOMAIN h : x <= j => /\ x \in DOMAIN V[h[j]]
                                                       /\ h[x] = V[h[j]][x]
    BY DEF Recorded
  <2>1. CASE j = lh
    BY <2>1
  <2>2. CASE j # lh
    <3>1. j \in 0 .. la /\ j \in Above(W[t])
      BY <2>2 DEF Above
    <3>2. Recorded(W[t], V, won)
      BY <1>1, RecordedContinues DEF Book
    <3>3. \A x \in DOMAIN h : x <= j => x \in DOMAIN W[t] /\ h[x] = W[t][x]
      BY <3>1
    <3>4. h[j] = W[t][j]
      BY <3>1
    <3> QED  BY <3>1, <3>2, <3>3, <3>4 DEF Recorded
  <2> QED  BY <2>1, <2>2
<1>4. ASSUME NEW s \in won, s # t
      PROVE  Ordered(V[s], s) /\ Recorded(V[s], V, won)
  <2>1. Ordered(W[s], s) /\ Recorded(W[s], W, won)
    BY DEF Book
  <2>2. Recorded(W[s], V, won)
    BY <1>1, <2>1, RecordedContinues
  <2> QED  BY <1>4, <2>1, <2>2
<1> QED  BY <1>1, <1>2, <1>3, <1>4 DEF Book

\* A new leader opens a page, with the log it has.
LEMMA OpenedBook ==
  ASSUME NEW W, NEW V, NEW won, Book(W, won), NEW t, t \notin won,
         NEW a, Ordered(a, t), Recorded(a, W, won),
         V[t] = a, \A s \in won : V[s] = W[s]
  PROVE  Book(V, won \cup {t}) /\ Continues(W, V, won)
<1>1. Continues(W, V, won)
  BY DEF Continues
<1>2. \A s \in won : Recorded(V[s], V, won \cup {t})
  BY <1>1, RecordedContinues DEF Book
<1>3. Recorded(a, V, won \cup {t})
  BY <1>1, RecordedContinues
<1> QED  BY <1>1, <1>2, <1>3 DEF Book

-----------------------------------------------------------------------------
\* What logs and requests are as functions

LEMMA LogTermsAre ==
  ASSUME NEW l \in Seq(Entry)
  PROVE  /\ DOMAIN LogTerms(l) = 0 .. Len(l) /\ Len(l) \in Nat
         /\ LogTerms(l)[0] = 0
         /\ \A i \in 1 .. Len(l) : LogTerms(l)[i] = l[i].term
BY DEF LogTerms

LEMMA RequestTermsAre ==
  ASSUME NEW m, m.prevLogIndex \in Nat, m.entries \in Seq(Entry)
  PROVE  /\ DOMAIN RequestTerms(m) =
              m.prevLogIndex .. m.prevLogIndex + Len(m.entries)
         /\ Len(m.entries) \in Nat
         /\ RequestTerms(m)[m.prevLogIndex] = m.prevLogTerm
         /\ \A k \in 1 .. Len(m.entries) :
              RequestTerms(m)[m.prevLogIndex + k] = m.entries[k].term
BY DEF RequestTerms

LEMMA AppendRequestFields ==
  ASSUME TypeOK, NEW m \in appendRequests
  PROVE  /\ m.to \in Node /\ m.from \in Node /\ m.term \in Nat
         /\ m.prevLogIndex \in Nat /\ m.prevLogTerm \in Nat
         /\ m.entries \in Seq(Entry)
BY DEF TypeOK, AppendRequest

\* A broadcast carries stretches of its sender's log.
LEMMA ReplicateStretches ==
  ASSUME TypeOK, IndexIsPosition, NEW n \in Node, NEW task,
         NEW l \in Seq(Entry), Positioned(l), NEW m \in Replicate(n, task, l)
  PROVE  /\ Stretch(RequestTerms(m), LogTerms(l))
         /\ m.term = currentTerm[n]
<1>1. PICK p \in Peers(n) :
        /\ m.prevLogIndex = NextIndex(n, p, l) - 1
        /\ m.prevLogTerm = PrevTerm(l, NextIndex(n, p, l) - 1)
        /\ m.entries = EntriesAfter(l, NextIndex(n, p, l) - 1)
        /\ m.term = currentTerm[n]
  BY DEF Replicate
<1>2. LastLogIndex(l) = Len(l) /\ Len(l) \in Nat
  BY LastLogIndexIsLen
<1>3. p \in Node
  BY DEF Peers, TypeOK
<1>4. nextIndex[n][p] \in Nat
  BY <1>3 DEF TypeOK
<1>5. PICK prev \in Nat : prev = NextIndex(n, p, l) - 1
  BY <1>2, <1>4 DEF NextIndex
<1>6. /\ m.prevLogIndex = prev /\ m.prevLogTerm = PrevTerm(l, prev)
      /\ m.entries = EntriesAfter(l, prev)
  BY <1>1, <1>5
<1>8. m.entries \in Seq(Entry)
  BY <1>6, EntriesAfterContiguous
<1>9. /\ DOMAIN RequestTerms(m) = prev .. prev + Len(m.entries)
      /\ RequestTerms(m)[prev] = PrevTerm(l, prev)
      /\ \A k \in 1 .. Len(m.entries) :
           RequestTerms(m)[prev + k] = m.entries[k].term
  BY <1>6, <1>8, RequestTermsAre
<1>10. /\ DOMAIN LogTerms(l) = 0 .. Len(l) /\ LogTerms(l)[0] = 0
       /\ \A i \in 1 .. Len(l) : LogTerms(l)[i] = l[i].term
  BY LogTermsAre
<1>11. CASE prev >= Len(l) + 1
  <2>1. m.entries = << >>
    BY <1>2, <1>6, <1>11 DEF EntriesAfter, NoEntries
  <2>2. DOMAIN RequestTerms(m) = prev .. prev
    BY <1>9, <2>1
  <2>3. Above(RequestTerms(m)) = {}
    BY <2>2 DEF Above
  <2> QED  BY <1>1, <2>3 DEF Stretch
<1>12. CASE prev <= Len(l)
  <2>1. /\ Len(m.entries) = Len(l) - prev
        /\ \A k \in 1 .. Len(l) - prev : m.entries[k] = l[prev + k]
    <3>1. CASE prev < Len(l)
      <4>1. m.entries = SubSeq(l, prev + 1, Len(l))
        BY <1>6, <3>1 DEF EntriesAfter
      <4> QED  BY <1>2, <3>1, <4>1
    <3>2. CASE prev = Len(l)
      BY <1>2, <1>6, <3>2 DEF EntriesAfter, NoEntries
    <3> QED  BY <1>2, <1>12, <3>1, <3>2
  <2>2. PrevTerm(l, prev) = LogTerms(l)[prev]
    BY <1>2, <1>10, <1>12 DEF PrevTerm
  <2>3. DOMAIN RequestTerms(m) = prev .. Len(l)
    BY <1>2, <1>9, <1>12, <2>1
  <2>4. ASSUME NEW i \in prev .. Len(l)
        PROVE  RequestTerms(m)[i] = LogTerms(l)[i]
    <3>1. CASE i = prev
      BY <1>9, <2>2, <3>1
    <3>2. CASE i > prev
      <4>1. PICK k \in 1 .. Len(l) - prev : i = prev + k
        <5>1. i - prev \in 1 .. Len(l) - prev /\ i = prev + (i - prev)
          BY <1>2, <3>2
        <5> QED  BY <5>1
      <4>2. RequestTerms(m)[i] = l[i].term
        BY <1>9, <2>1, <4>1
      <4>3. i \in 1 .. Len(l)
        BY <1>2, <3>2
      <4> QED  BY <1>10, <4>2, <4>3
    <3> QED  BY <3>1, <3>2
  <2> QED  BY <1>1, <1>2, <1>10, <1>12, <2>3, <2>4 DEF Stretch
<1> QED  BY <1>2, <1>11, <1>12

\* What the append loop leaves unless it skips every entry: the log up to
\* where the request starts, and then the request's entries.
LEMMA AppendLoopSplices ==
  ASSUME NEW l \in Seq(Entry), NEW es \in Seq(Entry), NEW prev \in 0 .. Len(l),
         \A k \in DOMAIN es : es[k].index = prev + k,
         Divergent(l, es) # {}
  PROVE  /\ Len(AppendLoop(l, es)) = prev + Len(es)
         /\ \A i \in 1 .. prev : AppendLoop(l, es)[i] = l[i]
         /\ \A i \in prev + 1 .. prev + Len(es) :
              AppendLoop(l, es)[i].term = es[i - prev].term
<1>2. PICK first \in 1 .. Len(es) :
        /\ prev + first - 1 \in 0 .. Len(l)
        /\ \A j \in 1 .. first - 1 : l[prev + j].term = es[j].term
        /\ AppendLoop(l, es) = SubSeq(l, 1, prev + first - 1)
                                 \o SubSeq(es, first, Len(es))
  BY FirstDivergent
<1>3. PICK cut \in 0 .. Len(l) : cut = prev + first - 1
  BY <1>2
<1>4. PICK r \in Seq(Entry) :
        /\ r = AppendLoop(l, es)
        /\ Len(r) = cut + Len(es) - first + 1
        /\ \A i \in 1 .. Len(r) :
             r[i] = IF i <= cut THEN l[i] ELSE es[i - cut + first - 1]
  BY <1>2, <1>3, PrefixThenSuffix
<1>5. Len(r) = prev + Len(es) /\ prev \in Nat /\ first \in Nat /\ Len(es) \in Nat
  BY <1>3, <1>4
<1>6. ASSUME NEW i \in 1 .. prev PROVE r[i] = l[i]
  <2>1. i \in 1 .. Len(r) /\ i <= cut
    BY <1>3, <1>5
  <2> QED  BY <1>4, <2>1
<1>7. ASSUME NEW i \in prev + 1 .. prev + Len(es)
      PROVE  r[i].term = es[i - prev].term
  <2>1. i \in 1 .. Len(r)
    BY <1>5
  <2>2. CASE i <= cut
    <3>1. i - prev \in 1 .. first - 1 /\ prev + (i - prev) = i
      BY <1>3, <1>5, <2>2
    <3>2. r[i] = l[i]
      BY <1>4, <2>1, <2>2
    <3> QED  BY <1>2, <3>1, <3>2
  <2>3. CASE ~(i <= cut)
    <3>1. i - cut + first - 1 = i - prev
      BY <1>3, <1>5
    <3> QED  BY <1>4, <2>1, <2>3, <3>1
  <2> QED  BY <2>2, <2>3
<1> QED  BY <1>4, <1>5, <1>6, <1>7

-----------------------------------------------------------------------------
\* Steps.  The logs stay, and requests carry what is in a leader's log or was
\* in a request.
Forwarding ==
    /\ UNCHANGED log
    /\ \A m \in appendRequests' :
         \/ \E k \in appendRequests : /\ m.term = k.term
                                      /\ m.prevLogIndex = k.prevLogIndex
                                      /\ m.prevLogTerm = k.prevLogTerm
                                      /\ m.entries = k.entries
         \/ \E n \in Node, task \in Entry :
              role[n] = Leader /\ m \in Replicate(n, task, log[n])

\* Nobody is elected, and who begins an election does so in a new term.
Demoting ==
    /\ UNCHANGED elected
    /\ \A n \in Node :
         /\ currentTerm'[n] >= currentTerm[n]
         /\ role'[n] = Leader => /\ role[n] = Leader
                                 /\ currentTerm'[n] = currentTerm[n]
         /\ role'[n] = Candidate => \/ /\ role[n] = Candidate
                                       /\ currentTerm'[n] = currentTerm[n]
                                    \/ currentTerm'[n] > currentTerm[n]

LEMMA LeadersElectedStep ==
  ASSUME TypeOK, TypeOK', LeadersElected, Demoting
  PROVE  LeadersElected'
<1>1. \A n \in Node : currentTerm[n] \in Nat /\ currentTerm'[n] \in Nat
  BY DEF TypeOK
<1>2. \A e \in elected : e[1] \in Nat /\ e[2] \in Node
  <2>1. elected \subseteq Nat \X Node
    BY DEF TypeOK
  <2> QED  BY <2>1
<1>3. ASSUME NEW n \in Node, role'[n] = Leader
      PROVE  <<currentTerm'[n], n>> \in elected'
  <2>1. /\ role[n] = Leader /\ currentTerm'[n] = currentTerm[n]
        /\ elected' = elected
    BY <1>3 DEF Demoting
  <2>2. <<currentTerm[n], n>> \in elected
    BY <2>1 DEF LeadersElected
  <2> QED  BY <2>1, <2>2
<1>4. ASSUME NEW n \in Node, <<currentTerm'[n], n>> \in elected',
             role'[n] = Candidate
      PROVE  FALSE
  <2>1. <<currentTerm'[n], n>> \in elected
    BY <1>4 DEF Demoting
  <2>2. currentTerm'[n] <= currentTerm[n]
    BY <2>1 DEF LeadersElected
  <2>3. role[n] = Candidate /\ currentTerm'[n] = currentTerm[n]
    BY <1>1, <1>4, <2>2 DEF Demoting
  <2> QED  BY <2>1, <2>3 DEF LeadersElected
<1>5. ASSUME NEW e \in elected' PROVE e[1] <= currentTerm'[e[2]]
  <2>1. e \in elected
    BY DEF Demoting
  <2>2. /\ e[1] \in Nat /\ e[2] \in Node /\ e[1] <= currentTerm[e[2]]
        /\ currentTerm'[e[2]] >= currentTerm[e[2]]
    BY <1>2, <2>1 DEF LeadersElected, Demoting
  <2> QED  BY <1>1, <2>2
<1> QED  BY <1>3, <1>4, <1>5 DEF LeadersElected

\* What a leader sends is in its page of the ledger.
LEMMA LeadersSendTheirPage ==
  ASSUME TypeOK, IndexIsPosition, LeadersElected, NEW W, Ledger(W),
         NEW n \in Node, role[n] = Leader, NEW task \in Entry,
         NEW m \in Replicate(n, task, log[n])
  PROVE  m.term \in Won /\ Stretch(RequestTerms(m), W[m.term])
<1>1. log[n] \in Seq(Entry) /\ Positioned(log[n])
  BY NodeLogType
<1>2. Stretch(RequestTerms(m), LogTerms(log[n])) /\ m.term = currentTerm[n]
  BY <1>1, ReplicateStretches
<1>3. W[m.term] = LogTerms(log[n])
  BY <1>2 DEF Ledger
<1>4. <<currentTerm[n], n>> \in elected
  BY DEF LeadersElected
<1>5. m.term \in Won
  BY <1>2, <1>4 DEF Won
<1> QED  BY <1>2, <1>3, <1>5, Zenon

LEMMA ForwardingStep ==
  ASSUME TypeOK, TypeOK', IndexIsPosition, LeadersElected, LogsInTerm,
         NEW W, Ledger(W), Forwarding, Demoting
  PROVE  Kept(W)
<1>1. LeadersElected'
  BY LeadersElectedStep
<1>2. LogsInTerm'
  <2> SUFFICES ASSUME NEW n \in Node, NEW i \in DOMAIN log'[n]
               PROVE  log'[n][i].term <= currentTerm'[n]
    BY DEF LogsInTerm
  <2>1. log' = log /\ currentTerm'[n] >= currentTerm[n]
    BY DEF Forwarding, Demoting
  <2>2. log[n][i].term <= currentTerm[n] /\ log[n][i] \in Entry
    BY <2>1 DEF LogsInTerm, TypeOK
  <2>3. /\ log[n][i].term \in Nat
        /\ currentTerm[n] \in Nat /\ currentTerm'[n] \in Nat
    BY <2>2, EntryFields DEF TypeOK
  <2> QED  BY <2>1, <2>2, <2>3
<1>3. Won' = Won /\ log' = log
  BY DEF Won, Demoting, Forwarding
<1>4. ASSUME NEW m \in appendRequests'
      PROVE  m.term \in Won /\ Stretch(RequestTerms(m), W[m.term])
  <2>1. ASSUME NEW k \in appendRequests, m.term = k.term,
               m.prevLogIndex = k.prevLogIndex, m.prevLogTerm = k.prevLogTerm,
               m.entries = k.entries
        PROVE  m.term \in Won /\ Stretch(RequestTerms(m), W[m.term])
    <3>1. RequestTerms(m) = RequestTerms(k)
      BY <2>1 DEF RequestTerms
    <3> QED  BY <2>1, <3>1 DEF Ledger
  <2> QED  BY <2>1, LeadersSendTheirPage DEF Forwarding
<1>5. \A n \in Node : role'[n] = Leader => W[currentTerm'[n]] = LogTerms(log'[n])
  BY <1>3 DEF Ledger, Demoting
<1>6. Ledger(W)'
  BY <1>3, <1>4, <1>5 DEF Ledger
<1>7. Continues(W, W, Won)
  BY DEF Continues
<1> QED  BY <1>1, <1>2, <1>6, <1>7 DEF Kept

\* The page of a term holds no later one, and starts with a 0.
LEMMA PageShape ==
  ASSUME NEW W, NEW won, Book(W, won), NEW t \in won
  PROVE  /\ \E k \in Nat : DOMAIN W[t] = 0 .. k
         /\ W[t][0] = 0
         /\ \A i \in DOMAIN W[t] : W[t][i] \in Nat /\ W[t][i] <= t
         /\ Recorded(W[t], W, won)
BY DEF Book, Ordered

\* An accepted request: the follower's history is spliced from its own and
\* the request's.
LEMMA AcceptAppendStep ==
  ASSUME WellFormed, WellFormed', LeadersElected, LogsInTerm,
         NEW W, Ledger(W), NEW m \in appendRequests, AcceptAppend(m), Demoting
  PROVE  Kept(W)
<1>t. TypeOK /\ TypeOK' /\ IndexIsPosition
  BY DEF WellFormed
<1> DEFINE n == m.to
           p == m.prevLogIndex
           l == log[n]
           r == LogAfter(m)
<1>1. /\ n \in Node /\ p \in Nat /\ m.prevLogTerm \in Nat /\ m.term \in Nat
      /\ m.entries \in Seq(Entry) /\ l \in Seq(Entry)
  BY <1>t, AppendRequestFields DEF TypeOK
<1>2. /\ log' = [log EXCEPT ![n] = r]
      /\ MatchesPrev(l, p, m.prevLogTerm)
      /\ appendRequests' \subseteq appendRequests
      /\ role'[n] = Follower
      /\ currentTerm'[n] = m.term
  <2>1. /\ role' = [role EXCEPT ![n] = Follower]
        /\ currentTerm' = [currentTerm EXCEPT ![n] = m.term]
    BY DEF AcceptAppend, FollowLeader, BecomeFollower
  <2> QED  BY <1>t, <1>1, <2>1 DEF AcceptAppend, AnswerAppend, TypeOK
<1>3. r \in Seq(Entry)
  BY <1>2, AcceptedLogType
<1>4. p \in 0 .. Len(l)
  BY <1>1, <1>2 DEF MatchesPrev
<1>5. CASE Divergent(l, m.entries) = {}
  <2>1. r = l
    BY <1>5 DEF LogAfter, AppendLoop
  <2>2. UNCHANGED log
    BY <1>t, <1>2, <2>1 DEF TypeOK
  <2>3. Forwarding
    BY <1>2, <2>2 DEF Forwarding
  <2> QED  BY <1>t, <2>3, ForwardingStep
<1>8. /\ Book(W, Won) /\ m.term \in Won
      /\ Stretch(RequestTerms(m), W[m.term])
      /\ \A k \in appendRequests : /\ k.term \in Won
                                   /\ Stretch(RequestTerms(k), W[k.term])
  BY DEF Ledger
<1>6. CASE Divergent(l, m.entries) # {}
  <2>1. \A k \in DOMAIN m.entries : m.entries[k].index = p + k
    BY DEF WellFormed, ContiguousRequests
  <2>2. r = AppendLoop(l, m.entries)
    BY DEF LogAfter
  <2>3. /\ Len(r) = p + Len(m.entries)
        /\ \A i \in 1 .. p : r[i] = l[i]
        /\ \A i \in p + 1 .. p + Len(m.entries) :
             r[i].term = m.entries[i - p].term
    <3>2. /\ Len(AppendLoop(l, m.entries)) = p + Len(m.entries)
          /\ \A i \in 1 .. p : AppendLoop(l, m.entries)[i] = l[i]
          /\ \A i \in p + 1 .. p + Len(m.entries) :
               AppendLoop(l, m.entries)[i].term = m.entries[i - p].term
      BY <1>1, <1>4, <1>6, <2>1, AppendLoopSplices, Zenon
    <3> QED  BY <2>2, <3>2, Zenon
  <2>4. PICK a : /\ a = LogTerms(l) /\ DOMAIN a = 0 .. Len(l) /\ a[0] = 0
                 /\ \A i \in 1 .. Len(l) : a[i] = l[i].term
    BY <1>1, LogTermsAre
  <2>5. PICK q : /\ q = RequestTerms(m)
                 /\ DOMAIN q = p .. Len(r) /\ q[p] = m.prevLogTerm
                 /\ \A k \in 1 .. Len(m.entries) :
                      q[p + k] = m.entries[k].term
    <3>1. DOMAIN RequestTerms(m) = p .. p + Len(m.entries)
      BY <1>1, RequestTermsAre
    <3>2. DOMAIN RequestTerms(m) = p .. Len(r)
      BY <2>3, <3>1
    <3>3. /\ RequestTerms(m)[p] = m.prevLogTerm
          /\ \A k \in 1 .. Len(m.entries) :
               RequestTerms(m)[p + k] = m.entries[k].term
      BY <1>1, RequestTermsAre
    <3> QED  BY <3>2, <3>3, Zenon
  <2>6. PICK h : /\ h = LogTerms(r) /\ DOMAIN h = 0 .. Len(r) /\ h[0] = 0
                 /\ \A i \in 1 .. Len(r) : h[i] = r[i].term
    BY <1>3, LogTermsAre
  <2>7. Len(l) \in Nat /\ Len(r) \in Nat /\ Len(m.entries) \in Nat
    BY <1>1, <1>3
  <2>11. Stretch(q, W[m.term])
    BY <1>8, <2>5
  <2>20. /\ DOMAIN q \subseteq DOMAIN W[m.term]
         /\ \A i \in DOMAIN q : q[i] = W[m.term][i]
    <3>1. p + 1 \in DOMAIN q /\ p \in DOMAIN q
      <4>1. Len(m.entries) > 0
        BY <1>6, <2>7 DEF Divergent
      <4> QED  BY <1>1, <2>3, <2>5, <2>7, <4>1
    <3>2. p + 1 \in Above(q)
      BY <1>1, <3>1 DEF Above
    <3> QED  BY <2>11, <3>2 DEF Stretch
  <2>8. a[p] = q[p]
    <3>1. CASE p = 0
      BY <1>8, <2>4, <2>5, <2>7, <2>20, <3>1, PageShape
    <3>2. CASE p > 0
      BY <1>2, <1>4, <2>4, <2>5, <3>2 DEF MatchesPrev
    <3> QED  BY <1>1, <3>1, <3>2
  <2>9. \A i \in 0 .. p : h[i] = a[i]
    <3> SUFFICES ASSUME NEW i \in 0 .. p PROVE h[i] = a[i]
      OBVIOUS
    <3>1. CASE i = 0
      BY <2>4, <2>6, <3>1
    <3>2. CASE i # 0
      <4>1. i \in 1 .. p /\ i \in 1 .. Len(l) /\ i \in 1 .. Len(r)
        BY <1>1, <1>4, <2>3, <2>7, <3>2
      <4> QED  BY <2>3, <2>4, <2>6, <4>1
    <3> QED  BY <3>1, <3>2
  <2>10. \A i \in p .. Len(r) : h[i] = q[i]
    <3> SUFFICES ASSUME NEW i \in p .. Len(r) PROVE h[i] = q[i]
      OBVIOUS
    <3>1. CASE i = p
      BY <1>1, <2>8, <2>9, <3>1
    <3>2. CASE i > p
      <4>1. i - p \in 1 .. Len(m.entries) /\ p + (i - p) = i
        BY <1>1, <2>3, <2>7, <3>2
      <4>2. i \in p + 1 .. p + Len(m.entries) /\ i \in 1 .. Len(r)
        BY <1>1, <2>3, <2>7, <3>2
      <4> QED  BY <2>3, <2>5, <2>6, <4>1, <4>2
    <3> QED  BY <1>1, <3>1, <3>2
  <2>12. Recorded(h, W, Won)
    <3>1. Recorded(a, W, Won) /\ Recorded(W[m.term], W, Won)
      BY <1>1, <1>8, <2>4, PageShape DEF Ledger
    <3>2. Recorded(q, W, Won)
      BY <2>11, <3>1, StretchRecorded
    <3>3. PICK s \in Nat, la \in Nat, lm \in Nat :
            s = p /\ la = Len(l) /\ lm = Len(r)
      BY <1>1, <2>7
    <3>4. s <= la /\ s <= lm
      BY <1>1, <1>4, <2>3, <2>7, <3>3
    <3>5. /\ DOMAIN a = 0 .. la /\ DOMAIN q = s .. lm /\ DOMAIN h = 0 .. lm
          /\ a[s] = q[s]
          /\ \A i \in 0 .. s : h[i] = a[i]
          /\ \A i \in s .. lm : h[i] = q[i]
      BY <2>4, <2>5, <2>6, <2>8, <2>9, <2>10, <3>3
    <3> QED  BY <1>8, <3>1, <3>2, <3>4, <3>5, SplicedRecorded
  <2>13. Won' = Won
    BY DEF Won, Demoting
  <2>14. \A x \in Node : x # n => log'[x] = log[x]
    BY <1>t, <1>2 DEF TypeOK
  <2>15. log'[n] = r
    BY <1>t, <1>1, <1>2 DEF TypeOK
  <2>16. ASSUME NEW x \in Node PROVE Recorded(LogTerms(log'[x]), W, Won)
    <3>1. CASE x = n
      BY <2>6, <2>12, <2>15, <3>1
    <3>2. CASE x # n
      BY <2>14, <3>2 DEF Ledger
    <3> QED  BY <3>1, <3>2
  <2>17. ASSUME NEW x \in Node, role'[x] = Leader
         PROVE  W[currentTerm'[x]] = LogTerms(log'[x])
    <3>1. x # n
      BY <1>2, <2>17 DEF Follower, Leader
    <3>2. /\ log'[x] = log[x] /\ role[x] = Leader
          /\ currentTerm'[x] = currentTerm[x]
      BY <2>14, <2>17, <3>1 DEF Demoting
    <3> QED  BY <3>2 DEF Ledger
  <2>18. Ledger(W)'
    BY <1>2, <1>8, <2>13, <2>16, <2>17 DEF Ledger
  <2>19. LogsInTerm'
    <3> SUFFICES ASSUME NEW x \in Node, NEW i \in DOMAIN log'[x]
                 PROVE  log'[x][i].term <= currentTerm'[x]
      BY DEF LogsInTerm
    <3>1. /\ currentTerm'[x] >= currentTerm[x]
          /\ currentTerm[x] \in Nat /\ currentTerm'[x] \in Nat
      BY <1>t DEF Demoting, TypeOK
    <3>2. \A j \in DOMAIN log[x] : log[x][j].term <= currentTerm[x]
                                   /\ log[x][j].term \in Nat
      <4>1. \A j \in DOMAIN log[x] : log[x][j] \in Entry
        BY <1>t DEF TypeOK
      <4> QED  BY <4>1, EntryFields DEF LogsInTerm
    <3>3. CASE x # n
      <4>1. log'[x] = log[x]
        BY <2>14, <3>3
      <4> QED  BY <3>1, <3>2, <4>1
    <3>4. CASE x = n /\ i <= p
      <4>1. i \in 1 .. p /\ i \in DOMAIN l
        BY <1>1, <1>3, <1>4, <2>15, <3>4
      <4>2. log'[x][i] = log[x][i]
        BY <2>3, <2>15, <3>4, <4>1
      <4> QED  BY <3>1, <3>2, <3>4, <4>1, <4>2
    <3>5. CASE x = n /\ i > p
      <4>1. i \in p .. Len(r) /\ i \in 1 .. Len(r)
        BY <1>1, <1>3, <2>15, <3>5
      <4>2. log'[x][i].term = q[i]
        BY <2>6, <2>10, <2>15, <3>5, <4>1
      <4>3. i \in DOMAIN W[m.term] /\ q[i] = W[m.term][i]
        BY <2>5, <2>20, <4>1
      <4>4. q[i] <= m.term
        BY <1>8, <4>3, PageShape
      <4> QED  BY <1>2, <3>5, <4>2, <4>4
    <3>6. i \in Nat
      BY <1>t DEF TypeOK
    <3> QED  BY <1>1, <3>3, <3>4, <3>5, <3>6
  <2>21. LeadersElected'
    BY <1>t, LeadersElectedStep
  <2>22. Continues(W, W, Won)
    BY DEF Continues
  <2> QED  BY <2>13, <2>18, <2>19, <2>21, <2>22 DEF Kept
<1> QED  BY <1>5, <1>6

\* A command of a leader, in a cluster of any size: its page takes one more
\* entry of its term.
LEMMA CommandStepKeeps ==
  ASSUME WellFormed, WellFormed', LeadersElected, LogsInTerm, ElectionSafety,
         NEW W, Ledger(W), NEW n \in Node, role[n] = Leader,
         log' = [log EXCEPT ![n] = Append(@, NewEntry(n))],
         UNCHANGED <<role, currentTerm, elected>>,
         \A m \in appendRequests' :
            m \in appendRequests
              \/ \E task \in Entry : m \in Replicate(n, task, log'[n])
  PROVE  Kept(W)
<1>t. TypeOK /\ TypeOK' /\ IndexIsPosition /\ IndexIsPosition'
  BY DEF WellFormed
<1>1. PICK l \in Seq(Entry), la \in Nat, t \in Nat :
        /\ l = log[n] /\ la = Len(l) /\ t = currentTerm[n]
        /\ LastLogIndex(l) = la
  BY <1>t, NodeLogType
<1>2. PICK e \in Entry : e = NewEntry(n) /\ e.index = la + 1 /\ e.term = t
  <2>1. NewEntry(n) = LogEntry(la + 1, t)
    BY <1>1 DEF NewEntry
  <2> QED  BY <1>1, <2>1, EntryFields
<1>3. PICK r \in Seq(Entry) :
        /\ r = log'[n] /\ r = Append(l, e) /\ Len(r) = la + 1
        /\ Positioned(r)
        /\ \A i \in 1 .. la : r[i] = l[i]
        /\ r[la + 1] = e
  <2>1. log'[n] = Append(l, e)
    BY <1>t, <1>1, <1>2 DEF TypeOK
  <2>2. /\ Append(l, e) \in Seq(Entry) /\ Len(Append(l, e)) = la + 1
        /\ \A i \in 1 .. la : Append(l, e)[i] = l[i]
        /\ Append(l, e)[la + 1] = e
    BY <1>1, AppendProperties
  <2>3. Positioned(log'[n])
    BY <1>t DEF IndexIsPosition
  <2> QED  BY <2>1, <2>2, <2>3
<1>4. PICK a : /\ a = LogTerms(l) /\ DOMAIN a = 0 .. la /\ a[0] = 0
               /\ \A i \in 1 .. la : a[i] = l[i].term
  BY <1>1, LogTermsAre
<1>5. PICK h : /\ h = LogTerms(r) /\ DOMAIN h = 0 .. la + 1 /\ h[0] = 0
               /\ \A i \in 1 .. la + 1 : h[i] = r[i].term
  <2>1. /\ DOMAIN LogTerms(r) = 0 .. Len(r) /\ LogTerms(r)[0] = 0
        /\ \A i \in 1 .. Len(r) : LogTerms(r)[i] = r[i].term
    BY LogTermsAre
  <2>2. /\ DOMAIN LogTerms(r) = 0 .. la + 1 /\ LogTerms(r)[0] = 0
        /\ \A i \in 1 .. la + 1 : LogTerms(r)[i] = r[i].term
    BY <1>3, <2>1, Zenon
  <2> QED  BY <2>2, Zenon
<1>6. (\A i \in 0 .. la : h[i] = a[i]) /\ h[la + 1] = t
  <2>1. ASSUME NEW i \in 0 .. la PROVE h[i] = a[i]
    <3>1. CASE i = 0
      BY <1>4, <1>5, <3>1
    <3>2. CASE i # 0
      <4>1. i \in 1 .. la /\ i \in 1 .. la + 1
        BY <3>2
      <4> QED  BY <1>3, <1>4, <1>5, <4>1
    <3> QED  BY <3>1, <3>2
  <2>2. la + 1 \in 1 .. la + 1
    OBVIOUS
  <2> QED  BY <1>2, <1>3, <1>5, <2>1, <2>2
<1>7. /\ t \in Won /\ W[t] = a /\ Book(W, Won)
      /\ \A x \in Node : role[x] = Leader => currentTerm[x] \in Won
  <2>1. ASSUME NEW x \in Node, role[x] = Leader PROVE currentTerm[x] \in Won
    <3>1. <<currentTerm[x], x>> \in elected
      BY <2>1 DEF LeadersElected
    <3> QED  BY <3>1 DEF Won
  <2> QED  BY <1>1, <1>4, <2>1 DEF Ledger
<1>8. Won' = Won
  BY DEF Won
<1>9. PICK V : V[t] = h /\ \A s \in Won : s # t => V[s] = W[s]
  <2>1. PICK V : V = [s \in Won |-> IF s = t THEN h ELSE W[s]]
    OBVIOUS
  <2> QED  BY <1>7, <2>1
<1>10. Book(V, Won) /\ Continues(W, V, Won)
  <2>1. PICK lh \in Nat : lh = la + 1
    OBVIOUS
  <2>2. /\ DOMAIN W[t] = 0 .. la /\ DOMAIN V[t] = 0 .. lh
        /\ \A i \in 0 .. la : V[t][i] = W[t][i]
        /\ V[t][lh] = t
    BY <1>4, <1>5, <1>6, <1>7, <1>9, <2>1
  <2>3. /\ Book(W, Won) /\ t \in Won /\ t \in Nat /\ la \in Nat
        /\ \A s \in Won : s # t => V[s] = W[s]
    BY <1>7, <1>9
  <2> QED  BY <2>1, <2>2, <2>3, ExtendedBook
<1>11. ASSUME NEW x \in Node PROVE Recorded(LogTerms(log'[x]), V, Won)
  <2>1. CASE x = n
    <3>1. Recorded(V[t], V, Won)
      BY <1>7, <1>10, PageShape
    <3> QED  BY <1>3, <1>5, <1>9, <2>1, <3>1
  <2>2. CASE x # n
    <3>1. log'[x] = log[x]
      BY <1>t, <2>2 DEF TypeOK
    <3>2. Recorded(LogTerms(log[x]), W, Won)
      BY DEF Ledger
    <3> QED  BY <1>10, <3>1, <3>2, RecordedContinues
  <2> QED  BY <2>1, <2>2
<1>12. ASSUME NEW m \in appendRequests'
       PROVE  m.term \in Won /\ Stretch(RequestTerms(m), V[m.term])
  <2>1. ASSUME m \in appendRequests
        PROVE  m.term \in Won /\ Stretch(RequestTerms(m), V[m.term])
    <3>1. m.term \in Won /\ Stretch(RequestTerms(m), W[m.term])
      BY <2>1 DEF Ledger
    <3>2. CASE m.term = t
      <4>1. Stretch(RequestTerms(m), a)
        BY <1>7, <3>1, <3>2
      <4>2. \A i \in DOMAIN a : i \in DOMAIN h /\ a[i] = h[i]
        BY <1>4, <1>5, <1>6
      <4>3. Stretch(RequestTerms(m), h)
        BY <4>1, <4>2 DEF Stretch
      <4> QED  BY <1>9, <3>1, <3>2, <4>3
    <3>3. CASE m.term # t
      BY <1>9, <3>1, <3>3
    <3> QED  BY <3>2, <3>3
  <2>2. ASSUME NEW task \in Entry, m \in Replicate(n, task, r)
        PROVE  m.term \in Won /\ Stretch(RequestTerms(m), V[m.term])
    <3>1. Positioned(r)
      BY <1>3
    <3>2. Stretch(RequestTerms(m), LogTerms(r)) /\ m.term = currentTerm[n]
      BY <1>t, <2>2, <3>1, ReplicateStretches, Zenon
    <3>3. m.term = t
      BY <1>1, <3>2
    <3>4. V[m.term] = LogTerms(r)
      BY <1>5, <1>9, <3>3
    <3> QED  BY <1>7, <3>2, <3>3, <3>4, Zenon
  <2> QED  BY <1>3, <2>1, <2>2
<1>13. ASSUME NEW x \in Node, role[x] = Leader
       PROVE  V[currentTerm[x]] = LogTerms(log'[x])
  <2>1. CASE x = n
    BY <1>1, <1>3, <1>5, <1>9, <2>1
  <2>2. CASE x # n
    <3>1. <<currentTerm[x], x>> \in elected /\ <<currentTerm[n], n>> \in elected
      BY <1>13 DEF LeadersElected
    <3>2. currentTerm[x] # t
      BY <1>1, <2>2, <3>1 DEF ElectionSafety
    <3>3. log'[x] = log[x]
      BY <1>t, <2>2 DEF TypeOK
    <3>4. W[currentTerm[x]] = LogTerms(log[x]) /\ currentTerm[x] \in Won
      BY <1>7, <1>13 DEF Ledger
    <3> QED  BY <1>9, <3>2, <3>3, <3>4
  <2> QED  BY <2>1, <2>2
<1>14. Ledger(V)'
  BY <1>8, <1>10, <1>11, <1>12, <1>13 DEF Ledger
<1>15. LogsInTerm'
  <2> SUFFICES ASSUME NEW x \in Node, NEW i \in DOMAIN log'[x]
               PROVE  log'[x][i].term <= currentTerm'[x]
    BY DEF LogsInTerm
  <2>1. CASE x # n
    BY <1>t, <2>1 DEF TypeOK, LogsInTerm
  <2>2. CASE x = n /\ i = la + 1
    BY <1>1, <1>2, <1>3, <2>2
  <2>3. CASE x = n /\ i # la + 1
    <3>1. i \in 1 .. la
      BY <1>3, <2>3
    <3>2. log'[x][i] = log[x][i] /\ i \in DOMAIN log[x]
      BY <1>1, <1>3, <2>3, <3>1
    <3> QED  BY <3>2 DEF LogsInTerm
  <2> QED  BY <2>1, <2>2, <2>3
<1>16. LeadersElected'
  BY DEF LeadersElected
<1> QED  BY <1>8, <1>10, <1>14, <1>15, <1>16 DEF Kept

\* The log a node opens a page with.
LEMMA LogOrdered ==
  ASSUME TypeOK, LogsInTerm, NEW W, Ledger(W), NEW n \in Node,
         NEW t \in Nat, t >= currentTerm[n]
  PROVE  Ordered(LogTerms(log[n]), t)
<1>1. log[n] \in Seq(Entry) /\ currentTerm[n] \in Nat
  BY DEF TypeOK
<1>la. PICK la \in Nat : la = Len(log[n])
  BY <1>1
<1>2. PICK a : /\ a = LogTerms(log[n]) /\ la = Len(log[n])
               /\ DOMAIN a = 0 .. la /\ a[0] = 0
               /\ \A i \in 1 .. la : a[i] = log[n][i].term
  BY <1>1, <1>la, LogTermsAre
<1>3. ASSUME NEW i \in DOMAIN a PROVE a[i] \in Nat /\ a[i] <= t
  <2>1. CASE i = 0
    BY <1>2, <2>1
  <2>2. CASE i # 0
    <3>1. i \in 1 .. la /\ i \in DOMAIN log[n]
      BY <1>1, <1>2, <2>2
    <3>2. log[n][i] \in Entry /\ log[n][i].term <= currentTerm[n]
      BY <1>1, <3>1 DEF LogsInTerm
    <3>3. log[n][i].term \in Nat
      BY <3>2, EntryFields
    <3> QED  BY <1>1, <1>2, <3>1, <3>2, <3>3
  <2> QED  BY <2>1, <2>2
<1>4. ASSUME NEW i \in DOMAIN a, NEW j \in DOMAIN a, i <= j
      PROVE  a[i] <= a[j]
  <2>1. CASE j = 0
    <3>1. i = 0
      BY <1>2, <1>4, <2>1
    <3> QED  BY <1>2, <2>1, <3>1
  <2>2. CASE j # 0
    <3>1. j \in Above(a)
      BY <1>2, <2>2 DEF Above
    <3>2. PICK s : s = a[j]
      OBVIOUS
    <3>3. /\ s \in Won /\ i \in DOMAIN W[s] /\ j \in DOMAIN W[s]
          /\ a[i] = W[s][i] /\ a[j] = W[s][j]
      <4>1. Recorded(a, W, Won)
        BY <1>2 DEF Ledger
      <4>2. j <= j
        BY <1>2
      <4> QED  BY <1>4, <3>1, <3>2, <4>1, <4>2 DEF Recorded
    <3>4. W[s][i] <= W[s][j]
      BY <1>4, <3>3 DEF Ledger, Book, Ordered
    <3> QED  BY <3>3, <3>4
  <2> QED  BY <2>1, <2>2
<1> QED  BY <1>2, <1>3, <1>4 DEF Ordered

\* An election opens a page.
LEMMA WinningStep ==
  ASSUME TypeOK, TypeOK', LeadersElected, LogsInTerm, ElectionSafety',
         NEW W, Ledger(W),
         NEW n \in Node, NEW t \in Nat, t >= currentTerm[n],
         <<t, n>> \notin elected,
         elected' = elected \cup {<<t, n>>},
         role' = [role EXCEPT ![n] = Leader],
         currentTerm' = [currentTerm EXCEPT ![n] = t],
         UNCHANGED <<log, appendRequests>>
  PROVE  Kept(W)
<1>1. PICK a : a = LogTerms(log[n])
  OBVIOUS
<1>2. \A x \in Node : currentTerm[x] \in Nat /\ currentTerm'[x] \in Nat
  BY DEF TypeOK
<1>3. role'[n] = Leader /\ currentTerm'[n] = t
  BY DEF TypeOK
<1>4. \A x \in Node : x # n => /\ role'[x] = role[x]
                               /\ currentTerm'[x] = currentTerm[x]
  BY DEF TypeOK
<1>5. t \notin Won
  <2> SUFFICES ASSUME NEW e \in elected, e[1] = t PROVE FALSE
    BY DEF Won
  <2>1. e \in elected' /\ <<t, n>> \in elected'
    OBVIOUS
  <2>2. e[2] = n
    BY <2>1 DEF ElectionSafety
  <2>3. e = <<e[1], e[2]>>
    <3>1. elected \subseteq Nat \X Node
      BY DEF TypeOK
    <3> QED  BY <3>1
  <2> QED  BY <2>2, <2>3
<1>6. Won' = Won \cup {t}
  BY DEF Won
<1>7. PICK V : V[t] = a /\ \A s \in Won : V[s] = W[s]
  <2>1. PICK V : V = [s \in Won \cup {t} |-> IF s = t THEN a ELSE W[s]]
    OBVIOUS
  <2> QED  BY <1>5, <2>1
<1>8. /\ Book(W, Won) /\ Recorded(a, W, Won) /\ Ordered(a, t)
  BY <1>1, LogOrdered DEF Ledger
<1>9. LeadersElected'
  <2>1. ASSUME NEW x \in Node, role'[x] = Leader
        PROVE  <<currentTerm'[x], x>> \in elected'
    BY <1>3, <1>4, <2>1 DEF LeadersElected
  <2>2. ASSUME NEW x \in Node, <<currentTerm'[x], x>> \in elected'
        PROVE  role'[x] # Candidate
    <3>1. CASE x = n
      BY <1>3, <3>1 DEF Leader, Candidate
    <3>2. CASE x # n
      BY <1>4, <2>2, <3>2 DEF LeadersElected
    <3> QED  BY <3>1, <3>2
  <2>3. ASSUME NEW e \in elected' PROVE e[1] <= currentTerm'[e[2]]
    <3>1. CASE e = <<t, n>>
      BY <1>3, <3>1
    <3>2. CASE e \in elected
      <4>1. /\ e[1] \in Nat /\ e[2] \in Node
            /\ e[1] <= currentTerm[e[2]]
        BY <3>2 DEF LeadersElected, TypeOK
      <4> QED  BY <1>2, <1>3, <1>4, <4>1
    <3> QED  BY <3>1, <3>2
  <2> QED  BY <2>1, <2>2, <2>3 DEF LeadersElected
<1>10. Book(V, Won \cup {t}) /\ Continues(W, V, Won)
  BY <1>5, <1>7, <1>8, OpenedBook
<1>11. ASSUME NEW x \in Node PROVE Recorded(LogTerms(log[x]), V, Won \cup {t})
  <2>1. Recorded(LogTerms(log[x]), W, Won) /\ Won \subseteq Won \cup {t}
    BY DEF Ledger
  <2> QED  BY <1>10, <2>1, RecordedContinues
<1>12. ASSUME NEW m \in appendRequests
       PROVE  m.term \in Won /\ Stretch(RequestTerms(m), V[m.term])
  <2>1. m.term \in Won /\ Stretch(RequestTerms(m), W[m.term])
    BY DEF Ledger
  <2> QED  BY <1>7, <2>1
<1>13. ASSUME NEW x \in Node, role'[x] = Leader
       PROVE  V[currentTerm'[x]] = LogTerms(log[x])
  <2>1. CASE x = n
    BY <1>1, <1>3, <1>7, <2>1
  <2>2. CASE x # n
    <3>1. role[x] = Leader /\ currentTerm'[x] = currentTerm[x]
      BY <1>4, <1>13, <2>2
    <3>2. W[currentTerm[x]] = LogTerms(log[x])
      BY <3>1 DEF Ledger
    <3>3. <<currentTerm[x], x>> \in elected
      BY <3>1 DEF LeadersElected
    <3>4. currentTerm[x] \in Won
      BY <3>3 DEF Won
    <3> QED  BY <1>7, <3>1, <3>2, <3>4
  <2> QED  BY <2>1, <2>2
<1>14. Ledger(V)'
  BY <1>6, <1>10, <1>11, <1>12, <1>13 DEF Ledger
<1>15. LogsInTerm'
  <2> SUFFICES ASSUME NEW x \in Node, NEW i \in DOMAIN log[x]
               PROVE  log[x][i].term <= currentTerm'[x]
    BY DEF LogsInTerm
  <2>1. log[x][i].term <= currentTerm[x]
    BY DEF LogsInTerm
  <2>2. CASE x # n
    BY <1>4, <2>1, <2>2
  <2>3. CASE x = n
    <3>1. log[x] \in Seq(Entry)
      BY DEF TypeOK
    <3>2. log[x][i].term \in Nat
      BY <3>1, EntryFields
    <3> QED  BY <1>2, <1>3, <2>1, <2>3, <3>2
  <2> QED  BY <2>2, <2>3
<1> QED  BY <1>9, <1>10, <1>14, <1>15 DEF Kept

-----------------------------------------------------------------------------
LEMMA LogInit == Init => LogInvariant
<1> SUFFICES ASSUME Init PROVE LogInvariant
  OBVIOUS
<1>1. \A n \in Node : DOMAIN LogTerms(log[n]) = 0 .. 0
  BY DEF Init, LogTerms, NoEntries
<1>2. \A n \in Node : Above(LogTerms(log[n])) = {}
  BY <1>1 DEF Above
<1>3. LeadersElected
  BY DEF Init, LeadersElected, Follower, Leader
<1>4. LogsInTerm
  BY DEF Init, LogsInTerm, NoEntries
<1>5. Won = {}
  BY DEF Init, Won
<1>6. PICK W : W = << >>
  OBVIOUS
<1>7. Ledger(W)
  BY <1>2, <1>5 DEF Init, Ledger, Book, Recorded, Follower, Leader
<1> QED  BY <1>3, <1>4, <1>7 DEF LogInvariant

\* become_follower, and a step that leaves roles and terms alone, only demote.
LEMMA BecomeFollowerDemotes ==
  ASSUME TypeOK, NEW n \in Node, NEW term \in Nat, term >= currentTerm[n],
         BecomeFollower(n, term), UNCHANGED elected
  PROVE  Demoting
<1> SUFFICES ASSUME NEW k \in Node
             PROVE  /\ currentTerm'[k] >= currentTerm[k]
                    /\ role'[k] \in {Leader, Candidate} =>
                         /\ role'[k] = role[k]
                         /\ currentTerm'[k] = currentTerm[k]
  BY DEF Demoting
<1>1. currentTerm[k] \in Nat
  BY DEF TypeOK
<1>2. CASE k = n
  BY <1>1, <1>2 DEF BecomeFollower, TypeOK, Follower, Candidate, Leader
<1>3. CASE k # n
  BY <1>1, <1>3 DEF BecomeFollower, TypeOK
<1> QED  BY <1>2, <1>3

LEMMA UnchangedDemotes ==
  ASSUME TypeOK, UNCHANGED <<currentTerm, role, elected>>
  PROVE  Demoting
<1>1. \A k \in Node : currentTerm[k] \in Nat
  BY DEF TypeOK
<1> QED  BY <1>1 DEF Demoting

\* Nothing new on the wire.
LEMMA FewerRequestsForward ==
  ASSUME UNCHANGED log, appendRequests' \subseteq appendRequests
  PROVE  Forwarding
BY DEF Forwarding

-----------------------------------------------------------------------------
\* The actions that leave roles, terms and logs alone and send nothing.
LEMMA SilentSteps ==
  ASSUME TypeOK, TypeOK', IndexIsPosition, LeadersElected, LogsInTerm,
         NEW W, Ledger(W), UNCHANGED <<log, currentTerm, role, elected>>,
         appendRequests' \subseteq appendRequests
  PROVE  Kept(W)
BY UnchangedDemotes, FewerRequestsForward, ForwardingStep

\* A broadcast, which only a leader makes.
Sent(n, task) == {m \in Replicate(n, task, log[n]) : role[n] = Leader}

LEMMA BroadcastSteps ==
  ASSUME TypeOK, TypeOK', IndexIsPosition, LeadersElected, LogsInTerm,
         NEW W, Ledger(W), UNCHANGED <<log, currentTerm, role, elected>>,
         NEW n \in Node, NEW task \in Entry,
         appendRequests' \subseteq appendRequests \cup Sent(n, task)
  PROVE  Kept(W)
<1>1. Forwarding
  BY DEF Forwarding, Sent
<1> QED  BY <1>1, UnchangedDemotes, ForwardingStep

\* The actions that may change a node's role or term, but elect nobody.
LEMMA DemotingSteps ==
  ASSUME TypeOK, TypeOK', IndexIsPosition, LeadersElected, LogsInTerm,
         NEW W, Ledger(W), Demoting,
         UNCHANGED log, appendRequests' \subseteq appendRequests
  PROVE  Kept(W)
BY FewerRequestsForward, ForwardingStep

LEMMA StartElectionDemotes ==
  ASSUME TypeOK, NEW n \in Node, StartElection(n)
  PROVE  Demoting
<1>1. \A k \in Node : currentTerm[k] \in Nat
  BY DEF TypeOK
<1>2. /\ currentTerm' = [currentTerm EXCEPT ![n] = @ + 1]
      /\ role' = [role EXCEPT ![n] = Candidate]
      /\ UNCHANGED elected
  BY DEF StartElection, BecomeCandidate
<1>3. role'[n] = Candidate /\ currentTerm'[n] = currentTerm[n] + 1
  BY <1>2 DEF TypeOK
<1>4. \A k \in Node : k # n => /\ role'[k] = role[k]
                               /\ currentTerm'[k] = currentTerm[k]
  BY <1>2 DEF TypeOK
<1>5. ASSUME NEW k \in Node
      PROVE  /\ currentTerm'[k] >= currentTerm[k]
             /\ role'[k] = Leader => /\ role[k] = Leader
                                     /\ currentTerm'[k] = currentTerm[k]
             /\ role'[k] = Candidate => \/ /\ role[k] = Candidate
                                           /\ currentTerm'[k] = currentTerm[k]
                                        \/ currentTerm'[k] > currentTerm[k]
  <2>1. CASE k = n
    BY <1>1, <1>3, <2>1 DEF Candidate, Leader
  <2>2. CASE k # n
    BY <1>1, <1>4, <2>2
  <2> QED  BY <2>1, <2>2
<1> QED  BY <1>2, <1>5 DEF Demoting

LEMMA HandleRequestVoteDemotes ==
  ASSUME TypeOK, NEW m \in voteRequests, HandleRequestVote(m)
  PROVE  Demoting
<1>1. /\ m.to \in Node /\ m.term \in Nat
      /\ \A k \in Node : currentTerm[k] \in Nat
  BY DEF TypeOK, VoteRequest
<1>2. /\ currentTerm' = [currentTerm EXCEPT ![m.to] =
                           IF m.term > currentTerm[m.to]
                           THEN m.term ELSE currentTerm[m.to]]
      /\ role' = [role EXCEPT ![m.to] =
                    IF m.term > currentTerm[m.to] THEN Follower ELSE @]
      /\ UNCHANGED elected
  BY DEF HandleRequestVote
<1>3. CASE m.term > currentTerm[m.to]
  <2>1. role'[m.to] = Follower /\ currentTerm'[m.to] = m.term
    BY <1>1, <1>2, <1>3 DEF TypeOK
  <2>2. \A k \in Node : k # m.to => /\ role'[k] = role[k]
                                    /\ currentTerm'[k] = currentTerm[k]
    BY <1>2 DEF TypeOK
  <2>3. currentTerm'[m.to] >= currentTerm[m.to]
    BY <1>1, <1>3, <2>1
  <2> QED  BY <1>1, <1>2, <2>1, <2>2, <2>3
           DEF Demoting, Follower, Candidate, Leader
<1>4. CASE ~(m.term > currentTerm[m.to])
  <2>1. \A k \in Node : role'[k] = role[k] /\ currentTerm'[k] = currentTerm[k]
    BY <1>2, <1>4 DEF TypeOK
  <2> QED  BY <1>1, <1>2, <2>1 DEF Demoting
<1> QED  BY <1>3, <1>4

LEMMA RebornDemotes ==
  ASSUME TypeOK, NEW n \in Node, Reborn(n), UNCHANGED <<currentTerm, elected>>
  PROVE  Demoting
<1>1. \A k \in Node : currentTerm[k] \in Nat
  BY DEF TypeOK
<1>2. \A k \in Node : role'[k] # Follower => role'[k] = role[k]
  BY DEF Reborn, TypeOK
<1> QED  BY <1>1, <1>2 DEF Demoting, Follower, Candidate, Leader

-----------------------------------------------------------------------------
LEMMA LogStep ==
  ASSUME WellFormed, WellFormed', LeadersElected, LogsInTerm, ElectionSafety,
         ElectionSafety', NEW W, Ledger(W), [Next]_vars
  PROVE  Kept(W)
<1>t. TypeOK /\ TypeOK' /\ IndexIsPosition
  BY DEF WellFormed
<1> USE DEF nodeVars, clusterVars, roleVars, termVars, logVars, voteCalls,
            appendCalls, historyVars
<1>1. ASSUME NEW n \in Node, AddNode(n) PROVE Kept(W)
  BY <1>t, <1>1, SilentSteps DEF AddNode
<1>2. ASSUME NEW n \in Node, Stop(n) PROVE Kept(W)
  BY <1>t, <1>2, SilentSteps DEF Stop
<1>3. ASSUME NEW m \in voteRequests, LoseVoteRequest(m) PROVE Kept(W)
  BY <1>t, <1>3, SilentSteps DEF LoseVoteRequest
<1>4. ASSUME NEW m \in voteRequests, VoteCallTimesOut(m) PROVE Kept(W)
  BY <1>t, <1>4, SilentSteps DEF VoteCallTimesOut
<1>5. ASSUME NEW r \in voteReplies, VoteReplyIgnored(r) PROVE Kept(W)
  BY <1>t, <1>5, SilentSteps DEF VoteReplyIgnored
<1>6. ASSUME NEW r \in voteReplies, LoseVoteReply(r) PROVE Kept(W)
  BY <1>t, <1>6, SilentSteps DEF LoseVoteReply
<1>7. ASSUME NEW m \in appendRequests, RejectStaleAppend(m) PROVE Kept(W)
  BY <1>t, <1>7, SilentSteps DEF RejectStaleAppend, AnswerAppend
<1>8. ASSUME NEW m \in appendRequests, LoseAppendRequest(m) PROVE Kept(W)
  BY <1>t, <1>8, SilentSteps DEF LoseAppendRequest
<1>9. ASSUME NEW r \in appendReplies, AppendReplyIgnored(r) PROVE Kept(W)
  BY <1>t, <1>9, SilentSteps DEF AppendReplyIgnored
<1>10. ASSUME NEW r \in appendReplies, AppendReplySuccess(r) PROVE Kept(W)
  BY <1>t, <1>10, SilentSteps DEF AppendReplySuccess
<1>11. ASSUME NEW r \in appendReplies, AppendReplyFailure(r) PROVE Kept(W)
  BY <1>t, <1>11, SilentSteps DEF AppendReplyFailure
<1>12. ASSUME NEW r \in appendReplies, LoseAppendReply(r) PROVE Kept(W)
  BY <1>t, <1>12, SilentSteps DEF LoseAppendReply
<1>13. ASSUME NEW c \in commands, CommandPending(c) PROVE Kept(W)
  BY <1>t, <1>13, SilentSteps DEF CommandPending
<1>14. ASSUME NEW c \in commands, CommandReturns(c) PROVE Kept(W)
  BY <1>t, <1>14, SilentSteps DEF CommandReturns
<1>15. ASSUME NEW m \in appendRequests, AppendCallTimesOut(m) PROVE Kept(W)
  <2>1. \A k \in appendRequests' : k \in appendRequests
           \/ k = [m EXCEPT !.awaited = FALSE]
    BY <1>15 DEF AppendCallTimesOut, GiveUp
  <2>2. /\ [m EXCEPT !.awaited = FALSE].prevLogIndex = m.prevLogIndex
        /\ [m EXCEPT !.awaited = FALSE].prevLogTerm = m.prevLogTerm
        /\ [m EXCEPT !.awaited = FALSE].entries = m.entries
        /\ [m EXCEPT !.awaited = FALSE].term = m.term
    BY <1>t DEF TypeOK, AppendRequest
  <2>3. Forwarding
    BY <1>15, <2>1, <2>2 DEF AppendCallTimesOut, Forwarding
  <2> QED  BY <1>t, <1>15, <2>3, UnchangedDemotes, ForwardingStep
           DEF AppendCallTimesOut
<1>16. ASSUME NEW n \in Node, Heartbeat(n) PROVE Kept(W)
  <2>1. HeartbeatTask(currentTerm[n]) \in Entry
    BY <1>t, NodeLogType, EntryFields DEF HeartbeatTask
  <2>2. /\ UNCHANGED <<log, currentTerm, role, elected>>
        /\ appendRequests' \subseteq
              appendRequests \cup Sent(n, HeartbeatTask(currentTerm[n]))
    BY <1>16 DEF Heartbeat, Sent
  <2> QED  BY <1>t, <2>1, <2>2, BroadcastSteps
<1>17. ASSUME NEW c \in commands, CommandRetry(c) PROVE Kept(W)
  <2>1. c.node \in Node /\ c.entry \in Entry
    BY <1>t DEF TypeOK, Command
  <2>2. /\ UNCHANGED <<log, currentTerm, role, elected>>
        /\ appendRequests' \subseteq
              appendRequests \cup Sent(c.node, c.entry)
    BY <1>17 DEF CommandRetry, BroadcastFor, Leads, Sent
  <2> QED  BY <1>t, <2>1, <2>2, BroadcastSteps
<1>18. ASSUME NEW c \in commands, CommandCommitted(c) PROVE Kept(W)
  <2>1. c.node \in Node /\ c.entry \in Entry
    BY <1>t DEF TypeOK, Command
  <2>2. /\ UNCHANGED <<log, currentTerm, role, elected>>
        /\ appendRequests' \subseteq
              appendRequests \cup Sent(c.node, c.entry)
    BY <1>18 DEF CommandCommitted, BroadcastFor, Leads, Sent
  <2> QED  BY <1>t, <2>1, <2>2, BroadcastSteps
<1>19. ASSUME NEW r \in voteReplies, VoteReplyStepDown(r) PROVE Kept(W)
  <2>1. r.to \in Node /\ r.term \in Nat /\ currentTerm[r.to] \in Nat
    BY <1>t DEF TypeOK, VoteReply
  <2>2. r.term >= currentTerm[r.to] /\ BecomeFollower(r.to, r.term)
    BY <1>19, <2>1 DEF VoteReplyStepDown
  <2>3. Demoting
    BY <1>t, <1>19, <2>1, <2>2, BecomeFollowerDemotes DEF VoteReplyStepDown
  <2> QED  BY <1>t, <1>19, <2>3, DemotingSteps DEF VoteReplyStepDown
<1>20. ASSUME NEW r \in appendReplies, AppendReplyStepDown(r) PROVE Kept(W)
  <2>1. r.to \in Node /\ r.term \in Nat /\ currentTerm[r.to] \in Nat
    BY <1>t DEF TypeOK, AppendReply
  <2>2. r.term >= currentTerm[r.to] /\ BecomeFollower(r.to, r.term)
    BY <1>20, <2>1 DEF AppendReplyStepDown
  <2>3. Demoting
    BY <1>t, <1>20, <2>1, <2>2, BecomeFollowerDemotes DEF AppendReplyStepDown
  <2> QED  BY <1>t, <1>20, <2>3, DemotingSteps DEF AppendReplyStepDown
<1>21. ASSUME NEW m \in appendRequests, RejectAppend(m) PROVE Kept(W)
  <2>1. m.to \in Node /\ m.term \in Nat /\ currentTerm[m.to] \in Nat
    BY <1>t DEF TypeOK, AppendRequest
  <2>2. /\ m.term >= currentTerm[m.to] /\ BecomeFollower(m.to, m.term)
        /\ UNCHANGED elected
    BY <1>21 DEF RejectAppend, FollowLeader
  <2>3. Demoting
    BY <1>t, <2>1, <2>2, BecomeFollowerDemotes
  <2> QED  BY <1>t, <1>21, <2>3, DemotingSteps DEF RejectAppend, AnswerAppend
<1>22. ASSUME NEW m \in appendRequests, AcceptAppend(m) PROVE Kept(W)
  <2>1. m.to \in Node /\ m.term \in Nat /\ currentTerm[m.to] \in Nat
    BY <1>t DEF TypeOK, AppendRequest
  <2>2. /\ m.term >= currentTerm[m.to] /\ BecomeFollower(m.to, m.term)
        /\ UNCHANGED elected
    BY <1>22 DEF AcceptAppend, FollowLeader
  <2>3. Demoting
    BY <1>t, <2>1, <2>2, BecomeFollowerDemotes
  <2> QED  BY <1>t, <1>22, <2>3, AcceptAppendStep
<1>23. ASSUME NEW n \in Node, StartElection(n) PROVE Kept(W)
  <2>1. UNCHANGED <<log, appendRequests>>
    BY <1>23 DEF StartElection
  <2> QED  BY <1>t, <1>23, <2>1, StartElectionDemotes, DemotingSteps
<1>24. ASSUME NEW m \in voteRequests, HandleRequestVote(m) PROVE Kept(W)
  <2>1. UNCHANGED <<log, appendRequests>>
    BY <1>24 DEF HandleRequestVote
  <2> QED  BY <1>t, <1>24, <2>1, HandleRequestVoteDemotes, DemotingSteps
<1>25. ASSUME NEW n \in Node, Revive(n) PROVE Kept(W)
  <2>1. Reborn(n) /\ UNCHANGED <<log, appendRequests, currentTerm, elected>>
    BY <1>25 DEF Revive
  <2> QED  BY <1>t, <2>1, RebornDemotes, DemotingSteps
<1>26. ASSUME NEW n \in Node, Restart(n) PROVE Kept(W)
  <2>1. Reborn(n) /\ UNCHANGED <<log, appendRequests, currentTerm, elected>>
    BY <1>26 DEF Restart
  <2> QED  BY <1>t, <2>1, RebornDemotes, DemotingSteps
<1>27. ASSUME NEW n \in Node, ExecuteCommand(n) PROVE Kept(W)
  <2>1. /\ role[n] = Leader /\ UNCHANGED <<role, currentTerm, elected>>
        /\ log' = [log EXCEPT ![n] = Append(@, NewEntry(n))]
        /\ appendRequests' = appendRequests
                               \cup Replicate(n, NewEntry(n), log'[n])
    BY <1>27 DEF ExecuteCommand, AcceptsCommand
  <2>2. NewEntry(n) \in Entry
    BY <1>t, NodeLogType, EntryFields DEF NewEntry
  <2> QED  BY <2>1, <2>2, CommandStepKeeps
<1>28. ASSUME NEW n \in Node, ExecuteCommandAlone(n) PROVE Kept(W)
  <2>1. /\ role[n] = Leader /\ UNCHANGED <<role, currentTerm, elected>>
        /\ log' = [log EXCEPT ![n] = Append(@, NewEntry(n))]
        /\ UNCHANGED appendRequests
    BY <1>28 DEF ExecuteCommandAlone, AcceptsCommand
  <2> QED  BY <2>1, CommandStepKeeps
<1>29. ASSUME NEW n \in Node, StartElectionAlone(n) PROVE Kept(W)
  <2>1. PICK t \in Nat : t = currentTerm[n] + 1 /\ t >= currentTerm[n]
    <3>1. currentTerm[n] \in Nat
      BY <1>t DEF TypeOK
    <3>2. /\ currentTerm[n] + 1 \in Nat
          /\ currentTerm[n] + 1 >= currentTerm[n]
      BY <3>1
    <3> QED  BY <3>2
  <2>2. <<t, n>> \notin elected
    <3>1. <<t, n>> \in elected => t <= currentTerm[n]
      BY DEF LeadersElected
    <3> QED  BY <1>t, <2>1, <3>1 DEF TypeOK
  <2>3. /\ elected' = elected \cup {<<t, n>>}
        /\ role' = [role EXCEPT ![n] = Leader]
        /\ currentTerm' = [currentTerm EXCEPT ![n] = t]
        /\ UNCHANGED <<log, appendRequests>>
    BY <1>29, <2>1 DEF StartElectionAlone, BecomeCandidate, BecomeLeader
  <2> QED  BY <1>t, <2>1, <2>2, <2>3, WinningStep
<1>30. ASSUME NEW r \in voteReplies, VoteReplyCounted(r) PROVE Kept(W)
  <2>1. r.to \in Node /\ currentTerm[r.to] \in Nat
    BY <1>t DEF TypeOK, VoteReply
  <2>2. PICK n \in Node, t \in Nat :
          n = r.to /\ t = currentTerm[n] /\ t >= currentTerm[n]
    BY <2>1
  <2>3. /\ role[n] = Candidate
        /\ UNCHANGED <<log, appendRequests, currentTerm>>
    BY <1>30, <2>2 DEF VoteReplyCounted, ElectionGoesOn
  <2>4. CASE votesGranted[n] + 1 >= QuorumSize(electorate[n])
    <3>1. <<t, n>> \notin elected
      BY <2>2, <2>3 DEF LeadersElected
    <3>2. /\ elected' = elected \cup {<<t, n>>}
          /\ role' = [role EXCEPT ![n] = Leader]
      BY <1>30, <2>2, <2>4 DEF VoteReplyCounted, BecomeLeader
    <3>3. currentTerm' = [currentTerm EXCEPT ![n] = t]
      BY <1>t, <2>2, <2>3 DEF TypeOK
    <3> QED  BY <1>t, <2>2, <2>3, <3>1, <3>2, <3>3, WinningStep
  <2>5. CASE ~(votesGranted[n] + 1 >= QuorumSize(electorate[n]))
    <3>1. UNCHANGED <<role, elected>>
      BY <1>30, <2>2, <2>5 DEF VoteReplyCounted
    <3> QED  BY <1>t, <2>3, <3>1, SilentSteps
  <2> QED  BY <2>4, <2>5
<1>31. CASE UNCHANGED vars
  BY <1>t, <1>31, SilentSteps DEF vars
<1> QED
  BY <1>1, <1>2, <1>3, <1>4, <1>5, <1>6, <1>7, <1>8, <1>9, <1>10,
     <1>11, <1>12, <1>13, <1>14, <1>15, <1>16, <1>17, <1>18,
     <1>19, <1>20, <1>21, <1>22, <1>23, <1>24, <1>25, <1>26,
     <1>27, <1>28, <1>29, <1>30, <1>31
  DEF Next, NodeStep, VoteRequestStep, VoteReplyStep, AppendRequestStep,
      AppendReplyStep, CommandStep

LEMMA LogInvariantStep ==
  WellFormed /\ WellFormed' /\ LogInvariant /\ ElectionSafety
     /\ ElectionSafety' /\ [Next]_vars => LogInvariant'
<1> SUFFICES ASSUME WellFormed, WellFormed', LogInvariant, ElectionSafety,
                    ElectionSafety', [Next]_vars
             PROVE  LogInvariant'
  OBVIOUS
<1>1. PICK W : Ledger(W)
  BY DEF LogInvariant
<1>2. Kept(W)
  BY <1>1, LogStep DEF LogInvariant
<1> QED  BY <1>2 DEF Kept, LogInvariant

\* In every reachable state there is a ledger of what the leaders had that
\* accounts for every log and every request.
THEOREM LogInvariantAlways ==
  ASSUME MaxAdds <= 1 PROVE Spec => []LogInvariant
BY LogInit, LogInvariantStep, WellFormedAlways, ElectionSafetyAlways, PTL
   DEF Spec

LEMMA InvariantGivesMatching ==
  ASSUME WellFormed, LogInvariant PROVE LogMatching
<1>t. TypeOK /\ IndexIsPosition
  BY DEF WellFormed
<1> SUFFICES ASSUME NEW a \in Node, NEW b \in Node,
                    NEW i \in DOMAIN log[a] \cap DOMAIN log[b],
                    log[a][i].term = log[b][i].term,
                    NEW j \in 1 .. i
             PROVE  log[a][j] = log[b][j]
  BY DEF LogMatching
<1>1. PICK k \in Seq(Entry), l \in Seq(Entry) :
        k = log[a] /\ l = log[b] /\ Positioned(k) /\ Positioned(l)
  BY <1>t, NodeLogType
<1>2. /\ i \in 1 .. Len(k) /\ i \in 1 .. Len(l)
      /\ j \in 1 .. Len(k) /\ j \in 1 .. Len(l)
      /\ Len(k) \in Nat /\ Len(l) \in Nat
  BY <1>1
<1>3. PICK W, f, g : /\ f = LogTerms(k) /\ Recorded(f, W, Won)
                     /\ g = LogTerms(l) /\ Recorded(g, W, Won)
  BY <1>1 DEF LogInvariant, Ledger
<1>4. /\ DOMAIN f = 0 .. Len(k) /\ DOMAIN g = 0 .. Len(l)
      /\ \A x \in 1 .. Len(k) : f[x] = k[x].term
      /\ \A x \in 1 .. Len(l) : g[x] = l[x].term
  BY <1>3, LogTermsAre
<1>5. i \in Above(f) /\ i \in Above(g) /\ f[i] = g[i]
  BY <1>1, <1>2, <1>4 DEF Above
<1>6. f[j] = g[j]
  <2>1. f[j] = W[f[i]][j] /\ g[j] = W[g[i]][j]
    BY <1>2, <1>3, <1>4, <1>5 DEF Recorded
  <2> QED  BY <1>5, <2>1
<1>7. k[j].term = l[j].term /\ k[j].index = j /\ l[j].index = j
  BY <1>1, <1>2, <1>4, <1>6 DEF Positioned
<1>8. k[j] \in Entry /\ l[j] \in Entry
  BY <1>2
<1>9. \A x \in Entry : x = LogEntry(x.index, x.term)
  BY DEF Entry, LogEntry
<1>10. k[j] = l[j]
  BY <1>7, <1>8, <1>9, Zenon
<1> QED  BY <1>1, <1>10

\* Logs that share an entry's term at an index are the same up to it,
\* whatever requests were lost, late, repeated or reordered: a follower's
\* check of the entry before and its conflict rule are enough.
THEOREM LogMatchingAlways ==
  ASSUME MaxAdds <= 1 PROVE Spec => []LogMatching
<1>1. WellFormed /\ LogInvariant => LogMatching
  BY InvariantGivesMatching
<1> QED  BY <1>1, WellFormedAlways, LogInvariantAlways, PTL

-----------------------------------------------------------------------------
\* What a step does to the log and the commit index of a node that leads.
LEMMA LeaderStep ==
  ASSUME WellFormed, [Next]_vars, NEW n \in Node,
         role[n] = Leader, role'[n] = Leader
  PROVE  /\ Len(log[n]) <= Len(log'[n])
         /\ SubSeq(log'[n], 1, Len(log[n])) = log[n]
         /\ commitIndex'[n] # commitIndex[n] =>
              log'[n][commitIndex'[n]].term = currentTerm[n]
<1>t. TypeOK /\ IndexIsPosition
  BY DEF WellFormed
<1> DEFINE Same == /\ Len(log[n]) <= Len(log'[n])
                   /\ SubSeq(log'[n], 1, Len(log[n])) = log[n]
           OwnTerm == commitIndex'[n] # commitIndex[n] =>
                        log'[n][commitIndex'[n]].term = currentTerm[n]
<1> USE DEF nodeVars, clusterVars, roleVars, termVars, logVars, commitVars,
            voteCalls, appendCalls, historyVars
<1>1. PICK l \in Seq(Entry), la \in Nat :
        l = log[n] /\ la = Len(l) /\ LastLogIndex(l) = la
  BY <1>t, NodeLogType
<1>2. log'[n] = log[n] => Same
  BY <1>1
<1>3. log'[n] = log[n] /\ commitIndex'[n] = commitIndex[n] => Same /\ OwnTerm
  BY <1>2
<1>4. ASSUME NEW k \in Node,
             log' = [log EXCEPT ![k] = Append(@, NewEntry(k))]
      PROVE  /\ Same
             /\ k # n => log'[n] = log[n]
             /\ k = n => log'[n][la + 1].term = currentTerm[n]
  <2>1. CASE k # n
    BY <1>t, <1>2, <1>4, <2>1 DEF TypeOK
  <2>2. CASE k = n
    <3>1. PICK e \in Entry : e = NewEntry(n) /\ e.term = currentTerm[n]
      <4>1. NewEntry(n) = LogEntry(la + 1, currentTerm[n])
        BY <1>1 DEF NewEntry
      <4>2. la + 1 \in Nat /\ currentTerm[n] \in Nat
        BY <1>t DEF TypeOK
      <4>3. /\ LogEntry(la + 1, currentTerm[n]) \in Entry
            /\ LogEntry(la + 1, currentTerm[n]).term = currentTerm[n]
        BY <4>2, EntryFields
      <4> QED  BY <4>1, <4>3, Zenon
    <3>2. log'[n] = Append(l, e)
      BY <1>t, <1>1, <1>4, <2>2, <3>1 DEF TypeOK
    <3>3. /\ Len(Append(l, e)) = la + 1 /\ Append(l, e)[la + 1] = e
          /\ SubSeq(Append(l, e), 1, la) = l
      BY <1>1
    <3> QED  BY <1>1, <2>2, <3>1, <3>2, <3>3
  <2> QED  BY <2>1, <2>2
<1>5. ASSUME NEW k \in Node, ExecuteCommand(k) PROVE Same /\ OwnTerm
  BY <1>4, <1>5 DEF ExecuteCommand
<1>6. ASSUME NEW k \in Node, ExecuteCommandAlone(k) PROVE Same /\ OwnTerm
  <2>1. /\ log' = [log EXCEPT ![k] = Append(@, NewEntry(k))]
        /\ commitIndex' = [commitIndex EXCEPT ![k] = NewEntry(k).index]
    BY <1>6 DEF ExecuteCommandAlone, CommitAndApply
  <2>2. CASE k # n
    BY <1>t, <1>4, <2>1, <2>2 DEF TypeOK
  <2>3. CASE k = n
    <3>1. NewEntry(n).index = la + 1
      BY <1>1 DEF NewEntry, LogEntry
    <3>2. commitIndex'[n] = la + 1
      BY <1>t, <2>1, <2>3, <3>1 DEF TypeOK
    <3> QED  BY <1>4, <2>1, <2>3, <3>2
  <2> QED  BY <2>2, <2>3
<1>7. ASSUME NEW k \in Node, Restart(k) PROVE Same /\ OwnTerm
  <2>1. k # n
    BY <1>t, <1>7 DEF Restart, Reborn, TypeOK, Follower, Leader
  <2> QED  BY <1>t, <1>3, <1>7, <2>1 DEF Restart, TypeOK
<1>8. ASSUME NEW m \in appendRequests, AcceptAppend(m) PROVE Same /\ OwnTerm
  <2>1. m.to \in Node /\ role' = [role EXCEPT ![m.to] = Follower]
    BY <1>t, <1>8, AppendRequestFields
    DEF AcceptAppend, FollowLeader, BecomeFollower
  <2>2. m.to # n
    BY <1>t, <2>1 DEF TypeOK, Follower, Leader
  <2>3. log'[n] = log[n]
    <3>1. log' = [log EXCEPT ![m.to] = LogAfter(m)]
      BY <1>8 DEF AcceptAppend
    <3> QED  BY <1>t, <2>2, <3>1 DEF TypeOK
  <2>4. commitIndex'[n] = commitIndex[n]
    <3>1. \/ \E c : commitIndex' = [commitIndex EXCEPT ![m.to] = c]
          \/ UNCHANGED commitIndex
      BY <1>8 DEF AcceptAppend, CommitAndApply
    <3> QED  BY <1>t, <2>2, <3>1 DEF TypeOK
  <2> QED  BY <1>3, <2>3, <2>4
<1>9. ASSUME NEW r \in appendReplies, AppendReplySuccess(r)
      PROVE  Same /\ OwnTerm
  <2>1. r.to \in Node
    BY <1>t DEF TypeOK, AppendReply
  <2>2. PICK match : /\ UNCHANGED log
                     /\ commitIndex' = [commitIndex EXCEPT ![r.to] =
                                          AdvancedCommit(r.to, match)]
    BY <1>9 DEF AppendReplySuccess, CommitAndApply
  <2>3. CASE r.to # n
    BY <1>t, <1>3, <2>2, <2>3 DEF TypeOK
  <2>4. CASE r.to = n
    <3>1. commitIndex'[n] = AdvancedCommit(n, match)
      BY <1>t, <2>2, <2>4 DEF TypeOK
    <3>2. commitIndex'[n] # commitIndex[n] =>
            commitIndex'[n] \in Committable(n, match)
      BY <1>t, <3>1, AdvancedCommitType
    <3>3. OwnTerm
      BY <2>2, <3>2 DEF Committable
    <3> QED  BY <1>2, <2>2, <3>3
  <2> QED  BY <2>3, <2>4
<1>10. CASE UNCHANGED vars
  BY <1>3, <1>10 DEF vars
<1>11. CASE Next
  <2>1. ASSUME NEW k \in Node, NodeStep(k)
        PROVE  \/ ExecuteCommand(k) \/ ExecuteCommandAlone(k) \/ Restart(k)
               \/ UNCHANGED <<log, commitIndex>>
    BY <2>1 DEF NodeStep, StartElection, StartElectionAlone, Heartbeat, Stop,
                Revive, AddNode
  <2>2. ASSUME NEW m \in voteRequests, VoteRequestStep(m)
        PROVE  UNCHANGED <<log, commitIndex>>
    BY <2>2 DEF VoteRequestStep, HandleRequestVote, LoseVoteRequest,
                VoteCallTimesOut
  <2>3. ASSUME NEW r \in voteReplies, VoteReplyStep(r)
        PROVE  UNCHANGED <<log, commitIndex>>
    BY <2>3 DEF VoteReplyStep, VoteReplyIgnored, VoteReplyStepDown,
                VoteReplyCounted, LoseVoteReply
  <2>4. ASSUME NEW m \in appendRequests, AppendRequestStep(m)
        PROVE  AcceptAppend(m) \/ UNCHANGED <<log, commitIndex>>
    BY <2>4 DEF AppendRequestStep, RejectStaleAppend, RejectAppend,
                LoseAppendRequest, AppendCallTimesOut
  <2>5. ASSUME NEW r \in appendReplies, AppendReplyStep(r)
        PROVE  AppendReplySuccess(r) \/ UNCHANGED <<log, commitIndex>>
    BY <2>5 DEF AppendReplyStep, AppendReplyIgnored, AppendReplyStepDown,
                AppendReplyFailure, LoseAppendReply
  <2>6. ASSUME NEW c \in commands, CommandStep(c)
        PROVE  UNCHANGED <<log, commitIndex>>
    BY <2>6 DEF CommandStep, CommandRetry, CommandCommitted, CommandPending,
                CommandReturns
  <2> QED  BY <1>3, <1>5, <1>6, <1>7, <1>8, <1>9, <1>11,
              <2>1, <2>2, <2>3, <2>4, <2>5, <2>6 DEF Next
<1> QED  BY <1>10, <1>11

\* A leader only ever appends to its log, for every set of nodes and however
\* often nodes are added.
THEOREM LeaderAppendOnlyAlways == Spec => LeaderAppendOnly
<1>1. WellFormed /\ [Next]_vars =>
        \A n \in Node :
          role[n] = Leader /\ role'[n] = Leader =>
              /\ Len(log[n]) <= Len(log'[n])
              /\ SubSeq(log'[n], 1, Len(log[n])) = log[n]
  BY LeaderStep
<1> QED  BY <1>1, WellFormedAlways, PTL DEF Spec, LeaderAppendOnly

\* A leader's commit index only ever moves to an entry of its own term: an
\* older entry is committed by a newer one behind it, never counted itself.
THEOREM LeaderCommitsOwnTermAlways == Spec => LeaderCommitsOwnTerm
<1>1. WellFormed /\ [Next]_vars =>
        \A n \in Node :
          role[n] = Leader /\ role'[n] = Leader
             /\ commitIndex'[n] # commitIndex[n] =>
              log'[n][commitIndex'[n]].term = currentTerm[n]
  BY LeaderStep
<1> QED  BY <1>1, WellFormedAlways, PTL DEF Spec, LeaderCommitsOwnTerm
=============================================================================
