--------------------------- MODULE PipelineProofs ---------------------------
(***************************************************************************)
(* The host programs of Pipeline order what they issue: for any number of  *)
(* jobs and rounds no item reads a buffer early, the host takes the right  *)
(* results, and nothing is in flight when the buffers are freed.           *)
(***************************************************************************)
EXTENDS Pipeline, SequenceTheorems, TLAPS

(***************************************************************************)
(* Sequences of calls.                                                     *)
(***************************************************************************)
\* s is a sequence of a calls.
IsList(s, a) == a \in Nat /\ s = [i \in 1..a |-> s[i]]

\* Sequence u is s and then t.
Joined(u, s, t) == u = s \o t

\* A list of elements of S is a sequence over S.
LEMMA ListSeq == ASSUME NEW s, NEW a, IsList(s, a), NEW S, \A i \in 1..a : s[i] \in S
  PROVE s \in Seq(S) /\ Len(s) = a
<1>1. s \in [1..a -> S] /\ a \in Nat
  BY DEF IsList
<1> QED BY <1>1

\* A list followed by a list: the indices of both.
LEMMA ListConcat ==
  ASSUME NEW s, NEW a, IsList(s, a), NEW t, NEW b, IsList(t, b), NEW u, Joined(u, s, t)
  PROVE  /\ IsList(u, a + b) /\ a \in Nat /\ b \in Nat
         /\ \A i \in 1..a : u[i] = s[i]
         /\ \A i \in 1..b : u[a + i] = t[i]
<1> DEFINE S == {s[i] : i \in 1..a} \cup {t[i] : i \in 1..b}
<1>a. (\A i \in 1..a : s[i] \in S) /\ (\A i \in 1..b : t[i] \in S)
  OBVIOUS
<1> HIDE DEF S
<1>1. s \in Seq(S) /\ Len(s) = a
  BY <1>a, ListSeq
<1>2. t \in Seq(S) /\ Len(t) = b
  BY <1>a, ListSeq
<1>3. a \in Nat /\ b \in Nat
  BY DEF IsList
<1>4. u \in Seq(S) /\ Len(u) = a + b
  BY <1>1, <1>2, ConcatProperties DEF Joined
<1>5. \A i \in 1..(a + b) : u[i] = IF i <= a THEN s[i] ELSE t[i - a]
  BY <1>1, <1>2, ConcatProperties DEF Joined
<1>6. ASSUME NEW i \in 1..a PROVE u[i] = s[i]
  <2>1. i \in 1..(a + b) /\ i <= a
    BY <1>3
  <2> QED BY <1>5, <2>1
<1>7. ASSUME NEW i \in 1..b PROVE u[a + i] = t[i]
  <2>1. a + i \in 1..(a + b) /\ ~(a + i <= a) /\ (a + i) - a = i
    BY <1>3
  <2> QED BY <1>5, <2>1
<1>8. u \in [1..(a + b) -> S]
  BY <1>4, LenProperties
<1>9. IsList(u, a + b)
  BY <1>8, <1>3 DEF IsList
<1> QED BY <1>3, <1>6, <1>7, <1>9

\* The k-th of m calls in turn j: its position, and back.
LEMMA DivMod == ASSUME NEW n \in Nat, NEW m \in Nat \ {0}, NEW j \in 1..n, NEW k \in 1..m
 PROVE /\ m*(j-1)+k \in 1..(n*m) /\ (((m*(j-1)+k) - 1) \div m) + 1 = j
        /\ (((m*(j-1)+k) - 1) % m) + 1 = k
<1>1. m * (j-1) \in Nat /\ n * m \in Nat /\ m * (j - 1) >= 0
  OBVIOUS
<1>2. m * (j - 1) + m <= n * m 
  OBVIOUS
<1>3. m * (j-1) + k \in 1..(n*m) BY <1>1, <1>2
<1>4. ((m*(j-1)+(k-1)) \div m)  = j - 1
  OBVIOUS
<1>5. ((m*(j-1)+(k-1)) % m)  = k - 1
  OBVIOUS
<1> QED BY <1>3, <1>4, <1>5

\* ForJobs: the k-th call of turn j, and no call besides these.
LEMMA ListLoop == ASSUME NEW n \in Nat \ {0}, NEW m \in Nat \ {0}, NEW calls, IsList(calls, n), Len(calls[1]) = m
  PROVE /\ IsList(ForJobs(calls), n * m)
        /\ \A j \in 1..n, k \in 1..m : ForJobs(calls)[m * (j - 1) + k] = calls[j][k]
        /\ \A i \in 1..(n * m) : \E j \in 1..n, k \in 1..m : i = m * (j - 1) + k
<1>0. Len(calls) = n
  BY DEF IsList
<1>1. ForJobs(calls) = [i \in 1..(n * m) |-> calls[((i - 1) \div m) + 1][((i - 1) % m) + 1]]
  BY <1>0 DEF ForJobs
<1>2. ASSUME NEW j \in 1..n, NEW k \in 1..m PROVE ForJobs(calls)[m * (j - 1) + k] = calls[j][k]
  <2> DEFINE p == m * (j - 1) + k
  <2>1. p \in 1..(n * m) /\ ((p - 1) \div m) + 1 = j /\ ((p - 1) % m) + 1 = k
    BY DivMod
  <2> HIDE DEF p
  <2>2. ForJobs(calls)[p] = calls[j][k]
    BY <2>1, <1>1
  <2> QED BY <2>2 DEF p
<1>3. IsList(ForJobs(calls), n * m)
  <2>1. n * m \in Nat OBVIOUS
  <2> QED BY <1>1, <2>1 DEF IsList
<1>4. ASSUME NEW i \in 1..(n * m) PROVE \E j \in 1..n, k \in 1..m : i = m * (j - 1) + k
  <2> DEFINE j == ((i - 1) \div m) + 1  k == ((i - 1) % m) + 1
  <2>1. i = m * (j - 1) + k
    OBVIOUS
  <2>2. k \in 1..m
    OBVIOUS
  <2>3. j \in Nat /\ j >= 1
    OBVIOUS
  <2>4. j <= n
    <3>1. m * (j - 1) < n * m
      BY <2>1, <2>2
    <3> QED BY <3>1, <2>3
  <2>5. j \in 1..n
    BY <2>3, <2>4
  <2> HIDE DEF j, k
  <2> QED BY <2>1, <2>2, <2>5
<1> QED BY <1>2, <1>3, <1>4

\* P is the list pre of a calls and then a loop of n turns, m calls in each.
LoopFollows(P, pre, a, calls, n, m) ==
  /\ IsList(P, a + n * m) /\ a \in Nat
  /\ \A i \in 1..a : P[i] = pre[i]
  /\ \A j \in 1..n : \A k \in 1..m : P[a + (m * (j - 1) + k)] = calls[j][k]
  /\ \A p \in 1..(a + n * m) :
       p \in 1..a \/ \E j \in 1..n, k \in 1..m : p = a + (m * (j - 1) + k)

\* A loop after a first list of calls.
LEMMA LoopAfter ==
  ASSUME NEW n \in Nat \ {0}, NEW m \in Nat \ {0}, NEW pre, NEW a, IsList(pre, a),
         NEW calls, IsList(calls, n), Len(calls[1]) = m, NEW P, Joined(P, pre, ForJobs(calls))
  PROVE  LoopFollows(P, pre, a, calls, n, m)
<1> DEFINE t == ForJobs(calls)
<1>1. /\ IsList(t, n * m)
      /\ \A j \in 1..n, k \in 1..m : t[m * (j - 1) + k] = calls[j][k]
      /\ \A i \in 1..(n * m) : \E j \in 1..n, k \in 1..m : i = m * (j - 1) + k
  BY ListLoop
<1> HIDE DEF t
<1>2. Joined(P, pre, t)
  BY DEF t
<1>3. /\ IsList(P, a + n * m)
      /\ \A i \in 1..a : P[i] = pre[i]
      /\ \A i \in 1..(n * m) : P[a + i] = t[i]
  <2> DEFINE b == n * m
  <2>1. IsList(t, b)
    BY <1>1
  <2> HIDE DEF b
  <2>2. IsList(P, a + b) /\ (\A i \in 1..a : P[i] = pre[i]) /\ \A i \in 1..b : P[a + i] = t[i]
    BY <2>1, <1>2, ListConcat
  <2> QED BY <2>2 DEF b
<1>5. ASSUME NEW j \in 1..n, NEW k \in 1..m PROVE P[a + (m * (j - 1) + k)] = calls[j][k]
  <2>1. m * (j - 1) + k \in 1..(n * m)
    BY DivMod
  <2> QED BY <1>1, <1>3, <2>1
<1>6. a \in Nat /\ n * m \in Nat
  BY DEF IsList
<1>7. ASSUME NEW p \in 1..(a + n * m), p \notin 1..a
      PROVE  \E j \in 1..n, k \in 1..m : p = a + (m * (j - 1) + k)
  <2>1. p - a \in 1..(n * m)
    BY <1>6, <1>7
  <2>2. PICK j \in 1..n, k \in 1..m : p - a = m * (j - 1) + k
    BY <1>1, <2>1
  <2>3. m * (j - 1) + k \in 1..(n * m)
    BY DivMod
  <2>4. p = a + (m * (j - 1) + k)
    BY <2>2, <2>3, <1>6
  <2> QED BY <2>4
<1> QED BY <1>3, <1>5, <1>6, <1>7 DEF LoopFollows

-----------------------------------------------------------------------------
(***************************************************************************)
(* What a program P orders.  Positions of P stand for its calls.           *)
(***************************************************************************)
Ops(P) == {p \in DOMAIN P : P[p].do \in {"issue", "record", "wait"}}
Issues(P) == {p \in Ops(P) : P[p].do = "issue"}
Records(P, e) == {p \in Ops(P) : P[p].do = "record" /\ P[p].event = e}
Waits(P) == {p \in Ops(P) : P[p].do = "wait"}
Writers(P, l) == {p \in Issues(P) : P[p].writes = l}

\* D may be the items finished when the host is about to make call h: streams
\* are FIFO, a wait is passed after the records before it, and the host has
\* been through its synchronisations.
Closed(P, D, h) ==
  /\ \A q \in D, p \in Ops(P) : p < q /\ P[p].stream = P[q].stream => p \in D
  /\ \A w \in D \cap Waits(P) : \A r \in Records(P, P[w].event) : r < w => r \in D
  /\ \A k \in 1..(h - 1) : P[k].do = "event_sync" =>
       \A r \in Records(P, P[k].event) : r < k => r \in D
  /\ \A k \in 1..(h - 1) : P[k].do = "sync" =>
       \A p \in Ops(P) : p < k /\ P[p].stream \in P[k].streams => p \in D

\* Item p is finished when the host makes call h.
Past(P, p, h) == \A D \in SUBSET Ops(P) : Closed(P, D, h) => p \in D

\* Item p is finished when item q begins.
Before(P, p, q) ==
  \A D \in SUBSET Ops(P) :
    /\ Closed(P, D, q)
    /\ \A o \in Ops(P) : o < q /\ P[o].stream = P[q].stream => o \in D
    => p \in D

(***************************************************************************)
(* What a program must get right, and each program does.                   *)
(***************************************************************************)
Typed(P) ==
  /\ \A p \in Ops(P) : P[p].stream \in StreamNames
  /\ \A p \in Ops(P) \ Issues(P) : P[p].event \in EventNames
  /\ \A q \in Issues(P) :
       /\ P[q].reads \in SUBSET LocationNames /\ P[q].reads # {}
       /\ P[q].writes \in LocationNames \ AllHostBuffers
       /\ P[q].writes \notin P[q].reads

OneStreamPerEvent(P) ==
  \A e \in EventNames : \A r, s \in Records(P, e) : P[r].stream = P[s].stream

InputsFilled(P) ==
  \A q \in Issues(P) : \A l \in P[q].reads \cap AllHostBuffers :
    \E f \in 1..(q - 1) : P[f].do = "fill" /\ l \in HostBuffers(P[f].job)

InputsReady(P) ==
  \A q \in Issues(P) : \A l \in P[q].reads \ AllHostBuffers :
    \E p \in Writers(P, l) : p < q /\ Before(P, p, q)

\* A location with several writers is used in one stream only.
NoClobber(P) ==
  \A q \in Issues(P) : \A l \in P[q].reads : \A p, s \in Writers(P, l) :
    p = s \/ P[p].stream = P[q].stream

CollectsLate(P) ==
  \A c \in DOMAIN P : P[c].do = "collect" =>
    /\ Writers(P, <<"hc", P[c].job>>) # {}
    /\ \A p \in Writers(P, <<"hc", P[c].job>>) : p < c /\ Past(P, p, c)

TimersLate(P) ==
  \A h \in DOMAIN P : P[h].do = "elapsed" =>
    /\ \A p \in Ops(P) : p < h => Past(P, p, h)
    /\ \A e \in P[h].events : e \in EventNames /\ \E r \in Records(P, e) : r < h

EndsQuiet(P) == \A p \in Ops(P) : Past(P, p, Len(P) + 1)

ResultsInOrder(P, jobs) ==
  /\ \A j \in jobs : Writers(P, <<"hc", j>>) # {}
  /\ \A i, j \in jobs : i < j =>
       \A p \in Writers(P, <<"hc", i>>), q \in Writers(P, <<"hc", j>>) :
         p < q /\ P[p].stream = P[q].stream

Serial(P) ==
  \A p, q \in Issues(P) : p < q /\ P[p].stream # P[q].stream => Before(P, p, q)

Control == {"pageable", "single", "copy_compute", "gemm"}

WellOrdered(P, c, jobs) ==
  /\ IsList(P, Len(P))
  /\ Typed(P) /\ OneStreamPerEvent(P) /\ (c = "scheduler" => InputsFilled(P))
  /\ InputsReady(P) /\ NoClobber(P) /\ CollectsLate(P) /\ TimersLate(P)
  /\ EndsQuiet(P) /\ ResultsInOrder(P, jobs) /\ (c \in Control => Serial(P))

-----------------------------------------------------------------------------
(***************************************************************************)
(* Chains of order.                                                        *)
(***************************************************************************)
LEMMA BeforeByEvent ==
  ASSUME NEW P, NEW p \in Ops(P), NEW q, NEW w \in Waits(P),
         NEW r \in Records(P, P[w].event),
         p < r, r < w, w < q, P[p].stream = P[r].stream, P[w].stream = P[q].stream
  PROVE  Before(P, p, q)
BY DEF Before, Closed, Waits, Records

\* ... when the host has been through cudaEventSynchronize on the record.
LEMMA PastByEvent ==
  ASSUME NEW P, NEW p \in Ops(P), NEW h \in Int, NEW k \in 1..(h - 1),
         P[k].do = "event_sync", NEW r \in Records(P, P[k].event),
         r < k, p = r \/ (p < r /\ P[p].stream = P[r].stream)
  PROVE  Past(P, p, h)
BY DEF Past, Closed, Records

\* ... when the host has synchronised its stream.
LEMMA PastBySync ==
  ASSUME NEW P, NEW p \in Ops(P), NEW h \in Int, NEW k \in 1..(h - 1),
         P[k].do = "sync", p < k, P[p].stream \in P[k].streams
  PROVE  Past(P, p, h)
BY DEF Past, Closed

\* ... when an item is finished that is a wait for the record.
LEMMA PastByWait ==
  ASSUME NEW P, NEW p \in Ops(P), NEW h, NEW w \in Waits(P), Past(P, w, h),
         NEW r \in Records(P, P[w].event),
         r < w, p = r \/ (p < r /\ P[p].stream = P[r].stream)
  PROVE  Past(P, p, h)
BY DEF Past, Closed, Records, Waits

\* Streams are FIFO.
LEMMA PastByStream ==
  ASSUME NEW P, NEW p \in Ops(P), NEW h, NEW q \in Ops(P), Past(P, q, h),
         p = q \/ (p < q /\ P[p].stream = P[q].stream)
  PROVE  Past(P, p, h)
BY DEF Past, Closed

-----------------------------------------------------------------------------
(***************************************************************************)
(* One stream: everything is in the program's order.                       *)
(***************************************************************************)
LEMMA OneStreamOrder ==
  ASSUME NEW P, NEW s, \A p \in Ops(P) : P[p].stream = s
  PROVE  /\ OneStreamPerEvent(P) /\ NoClobber(P) /\ Serial(P)
         /\ \A p, q \in Ops(P) : p < q => Before(P, p, q)
<1>1. OneStreamPerEvent(P)
  BY DEF OneStreamPerEvent, Records
<1>2. NoClobber(P)
  BY DEF NoClobber, Writers, Issues
<1>3. Serial(P)
  BY DEF Serial, Issues
<1>4. \A p, q \in Ops(P) : p < q => Before(P, p, q)
  BY DEF Before
<1> QED BY <1>1, <1>2, <1>3, <1>4

\* In one stream an input is ready once its writer precedes the reader.
LEMMA OneStreamInputs ==
  ASSUME NEW P, NEW s, \A p \in Ops(P) : P[p].stream = s,
         \A q \in Issues(P) : \A l \in P[q].reads \ AllHostBuffers : \E p \in Writers(P, l) : p < q
  PROVE  InputsReady(P)
<1>1. \A p, q \in Ops(P) : p < q => Before(P, p, q)
  BY OneStreamOrder
<1> QED BY <1>1 DEF InputsReady, Writers, Issues

(***************************************************************************)
(* Three streams: each job's upload at a[j] and b[j], its kernel at g[j]   *)
(* and its download at d[j], with record r[j] and wait w[j] between the    *)
(* upload and the kernel, record u[j] and wait v[j] between the kernel and *)
(* the download.                                                           *)
(***************************************************************************)
Chain(P, n, a, b, r, w, g, u, v, d) ==
  /\ \A q \in Issues(P) : \E j \in 1..n : q \in {a[j], b[j], g[j], d[j]}
  /\ \A j \in 1..n :
       /\ a[j] \in Issues(P) /\ P[a[j]].reads = {<<"ha", j>>} /\ P[a[j]].writes = <<"da", j>>
       /\ b[j] \in Issues(P) /\ P[b[j]].reads = {<<"hb", j>>} /\ P[b[j]].writes = <<"db", j>>
       /\ g[j] \in Issues(P) /\ P[g[j]].reads = {<<"da", j>>, <<"db", j>>}
       /\ P[g[j]].writes = <<"dc", j>>
       /\ d[j] \in Issues(P) /\ P[d[j]].reads = {<<"dc", j>>} /\ P[d[j]].writes = <<"hc", j>>
       /\ w[j] \in Waits(P) /\ r[j] \in Records(P, P[w[j]].event)
       /\ v[j] \in Waits(P) /\ u[j] \in Records(P, P[v[j]].event)
       /\ a[j] < r[j] /\ b[j] < r[j] /\ r[j] < w[j] /\ w[j] < g[j]
       /\ g[j] < u[j] /\ u[j] < v[j] /\ v[j] < d[j]
       /\ a[j] < g[j] /\ b[j] < g[j] /\ g[j] < d[j]
       /\ P[a[j]].stream = P[r[j]].stream /\ P[b[j]].stream = P[r[j]].stream
       /\ P[w[j]].stream = P[g[j]].stream /\ P[g[j]].stream = P[u[j]].stream
       /\ P[v[j]].stream = P[d[j]].stream
  /\ \A i, j \in 1..n : i < j => d[i] < d[j] /\ P[d[i]].stream = P[d[j]].stream

\* A chain makes every input ready and the results arrive in order.
LEMMA ChainOrder ==
  ASSUME NEW P, NEW n, NEW a, NEW b, NEW r, NEW w, NEW g, NEW u, NEW v, NEW d,
         Chain(P, n, a, b, r, w, g, u, v, d), 1..n \subseteq JobIds
  PROVE  /\ InputsReady(P) /\ NoClobber(P) /\ ResultsInOrder(P, 1..n)
         /\ \A j \in 1..n : Writers(P, <<"hc", j>>) = {d[j]}
<1>1. ASSUME NEW q \in Issues(P), NEW l \in P[q].reads \ AllHostBuffers
      PROVE  \E p \in Writers(P, l) : p < q /\ Before(P, p, q)
  <2>1. PICK j \in 1..n : q \in {a[j], b[j], g[j], d[j]}
    BY DEF Chain
  <2>h. <<"ha", j>> \in AllHostBuffers /\ <<"hb", j>> \in AllHostBuffers
    BY DEF AllHostBuffers, HostBuffers
  <2>2. q # a[j] /\ q # b[j]
    <3>1. q = a[j] => l = <<"ha", j>>
      BY DEF Chain
    <3>2. q = b[j] => l = <<"hb", j>>
      BY DEF Chain
    <3> QED BY <3>1, <3>2, <2>h
  <2>3. CASE q = g[j]
    <3>1. l = <<"da", j>> \/ l = <<"db", j>>
      BY <2>3 DEF Chain
    <3>2. Before(P, a[j], g[j]) /\ Before(P, b[j], g[j])
      BY BeforeByEvent DEF Chain, Issues
    <3> QED BY <3>1, <3>2, <2>3 DEF Chain, Writers
  <2>4. CASE q = d[j]
    <3>1. l = <<"dc", j>>
      BY <2>4 DEF Chain
    <3>2. Before(P, g[j], d[j])
      BY BeforeByEvent DEF Chain, Issues
    <3> QED BY <3>1, <3>2, <2>4 DEF Chain, Writers
  <2> QED BY <2>1, <2>2, <2>3, <2>4
<1>2. ASSUME NEW l, NEW p \in Writers(P, l), NEW q \in Writers(P, l) PROVE p = q
  <2>1. PICK i \in 1..n : p \in {a[i], b[i], g[i], d[i]}
    BY DEF Chain, Writers
  <2>2. PICK j \in 1..n : q \in {a[j], b[j], g[j], d[j]}
    BY DEF Chain, Writers
  <2>3. P[p].writes = l /\ P[q].writes = l
    BY DEF Writers
  <2>4. \/ p = a[i] /\ l = <<"da", i>>
        \/ p = b[i] /\ l = <<"db", i>>
        \/ p = g[i] /\ l = <<"dc", i>>
        \/ p = d[i] /\ l = <<"hc", i>>
    BY <2>1, <2>3 DEF Chain
  <2>5. \/ q = a[j] /\ l = <<"da", j>>
        \/ q = b[j] /\ l = <<"db", j>>
        \/ q = g[j] /\ l = <<"dc", j>>
        \/ q = d[j] /\ l = <<"hc", j>>
    BY <2>2, <2>3 DEF Chain
  <2> QED BY <2>4, <2>5
<1>3. \A j \in 1..n : Writers(P, <<"hc", j>>) = {d[j]}
  <2> TAKE j \in 1..n
  <2>1. d[j] \in Writers(P, <<"hc", j>>)
    BY DEF Chain, Writers
  <2> QED BY <2>1, <1>2
<1>4. ResultsInOrder(P, 1..n)
  <2>1. \A i, j \in 1..n : i < j => d[i] < d[j] /\ P[d[i]].stream = P[d[j]].stream
    BY DEF Chain
  <2>2. \A j \in 1..n : Writers(P, <<"hc", j>>) # {}
    BY <1>3
  <2>3. ASSUME NEW i \in 1..n, NEW j \in 1..n, i < j,
               NEW p \in Writers(P, <<"hc", i>>), NEW q \in Writers(P, <<"hc", j>>)
        PROVE  p < q /\ P[p].stream = P[q].stream
    <3>1. p = d[i] /\ q = d[j]
      BY <1>3
    <3> QED BY <3>1, <2>1, <2>3
  <2> QED BY <2>2, <2>3 DEF ResultsInOrder
<1>5. InputsReady(P)
  BY <1>1 DEF InputsReady
<1>6. NoClobber(P)
  BY <1>2 DEF NoClobber
<1> QED BY <1>3, <1>4, <1>5, <1>6

\* Typed issues.
LEMMA ChainTyped ==
  ASSUME NEW P, NEW n, NEW a, NEW b, NEW r, NEW w, NEW g, NEW u, NEW v, NEW d,
         Chain(P, n, a, b, r, w, g, u, v, d), 1..n \subseteq JobIds, NEW q \in Issues(P)
  PROVE  /\ P[q].reads \in SUBSET LocationNames /\ P[q].reads # {}
         /\ P[q].writes \in LocationNames \ AllHostBuffers
         /\ P[q].writes \notin P[q].reads
<1>1. PICK j \in 1..n : q \in {a[j], b[j], g[j], d[j]}
  BY DEF Chain
<1>2. \/ P[q].reads = {<<"ha", j>>} /\ P[q].writes = <<"da", j>>
      \/ P[q].reads = {<<"hb", j>>} /\ P[q].writes = <<"db", j>>
      \/ P[q].reads = {<<"da", j>>, <<"db", j>>} /\ P[q].writes = <<"dc", j>>
      \/ P[q].reads = {<<"dc", j>>} /\ P[q].writes = <<"hc", j>>
  BY <1>1 DEF Chain
<1>3. j \in JobIds
  OBVIOUS
<1>4. \A x \in {"ha", "hb", "hc", "da", "db", "dc"} : <<x, j>> \in LocationNames
  BY <1>3 DEF LocationNames
<1>5. \A x \in {"hc", "da", "db", "dc"} : <<x, j>> \notin AllHostBuffers
  BY DEF AllHostBuffers, HostBuffers
<1> QED BY <1>2, <1>4, <1>5

\* The event at k ends a chain of streams: it is recorded at z after the last
\* download, and p is before z in its stream, or before the record of a kernel,
\* or before the record of an upload.
LEMMA ChainPast ==
  ASSUME NEW P, NEW n, NEW a, NEW b, NEW r, NEW w, NEW g, NEW u, NEW v, NEW d,
         Chain(P, n, a, b, r, w, g, u, v, d), NEW h \in Int, NEW k \in 1..(h - 1),
         P[k].do = "event_sync", NEW z \in Records(P, P[k].event), z < k,
         \A j \in 1..n : v[j] < z /\ P[v[j]].stream = P[z].stream /\ w[j] < u[j],
         NEW p \in Ops(P),
         \/ p = z
         \/ p < z /\ P[p].stream = P[z].stream
         \/ \E j \in 1..n : p = u[j] \/ (p < u[j] /\ P[p].stream = P[u[j]].stream)
         \/ \E j \in 1..n : p = r[j] \/ (p < r[j] /\ P[p].stream = P[r[j]].stream)
  PROVE  Past(P, p, h)
<1>1. z < k /\ z \in Ops(P)
  BY DEF Records
<1>2. Past(P, z, h)
  BY <1>1, PastByEvent
<1>3. ASSUME NEW j \in 1..n PROVE Past(P, v[j], h) /\ v[j] \in Waits(P) /\ v[j] \in Ops(P)
  <2>1. v[j] \in Waits(P) /\ v[j] \in Ops(P) /\ v[j] < z /\ P[v[j]].stream = P[z].stream
    BY DEF Chain, Waits
  <2> QED BY <2>1, <1>1, <1>2, PastByStream
<1>4. ASSUME NEW j \in 1..n PROVE Past(P, u[j], h) /\ u[j] \in Ops(P)
  <2>1. u[j] \in Records(P, P[v[j]].event) /\ u[j] < v[j] /\ u[j] \in Ops(P)
    BY DEF Chain, Records
  <2> QED BY <2>1, <1>3, PastByWait
<1>5. ASSUME NEW j \in 1..n PROVE Past(P, r[j], h) /\ r[j] \in Ops(P)
  <2>1. /\ r[j] \in Records(P, P[w[j]].event) /\ r[j] < w[j] /\ r[j] \in Ops(P)
        /\ w[j] \in Waits(P) /\ w[j] \in Ops(P)
        /\ w[j] < u[j] /\ P[w[j]].stream = P[u[j]].stream
    BY DEF Chain, Records, Waits
  <2>2. Past(P, w[j], h)
    BY <2>1, <1>4, PastByStream
  <2> QED BY <2>1, <2>2, PastByWait
<1> QED BY <1>1, <1>2, <1>4, <1>5, PastByStream

-----------------------------------------------------------------------------
(***************************************************************************)
(* The program of execute_batch.                                           *)
(***************************************************************************)
LEMMA SchedulerCalls ==
  ASSUME NEW n \in JobIds
  PROVE  LET P == ExecuteBatch(n)
             at(j, k) == 10 * (j - 1) + k
             end(j, k) == n * 10 + (2 * (j - 1) + k)
         IN  /\ IsList(P, n * 12)
             /\ \A j \in 1..n :
                  /\ P[at(j, 1)] = Fill(j)
                  /\ P[at(j, 2)] = UploadA("h2d", j)
                  /\ P[at(j, 3)] = UploadB("h2d", j)
                  /\ P[at(j, 4)] = Mark(<<"h2d_done", j>>, "h2d")
                  /\ P[at(j, 5)] = Await("compute", <<"h2d_done", j>>)
                  /\ P[at(j, 6)] = Gemm("compute", j)
                  /\ P[at(j, 7)] = Mark(<<"kern_done", j>>, "compute")
                  /\ P[at(j, 8)] = Await("d2h", <<"kern_done", j>>)
                  /\ P[at(j, 9)] = Download("d2h", j)
                  /\ P[at(j, 10)] = Mark(<<"done", j>>, "d2h")
                  /\ P[end(j, 1)] = EventSync(<<"done", j>>)
                  /\ P[end(j, 2)] = Collect(j)
             /\ \A p \in 1..(n * 12) :
                  \E j \in 1..n : (\E k \in 1..10 : p = at(j, k)) \/ p = end(j, 1) \/ p = end(j, 2)
<1> DEFINE P == ExecuteBatch(n)
           calls == [j \in 1..n |-> EnqueueH2D(j) \o EnqueueJob(j)]
           ends == [j \in 1..n |-> <<EventSync(<<"done", j>>), Collect(j)>>]
           at(j, k) == 10 * (j - 1) + k
           end(j, k) == n * 10 + (2 * (j - 1) + k)
           s == ForJobs(calls)
<1>1. /\ n \in Nat \ {0} /\ 1 \in 1..n /\ 10 \in Nat \ {0} /\ 2 \in Nat \ {0}
  BY BoundsAssumption DEF JobIds
<1>2. IsList(calls, n) /\ Len(calls[1]) = 10
  BY <1>1 DEF IsList, EnqueueH2D, EnqueueJob
<1>3. IsList(ends, n) /\ Len(ends[1]) = 2
  BY <1>1 DEF IsList
<1>4. Joined(P, s, ForJobs(ends))
  BY DEF ExecuteBatch, Joined
<1>5. \A j \in 1..n :
        /\ calls[j][1] = Fill(j)
        /\ calls[j][2] = UploadA("h2d", j)
        /\ calls[j][3] = UploadB("h2d", j)
        /\ calls[j][4] = Mark(<<"h2d_done", j>>, "h2d")
        /\ calls[j][5] = Await("compute", <<"h2d_done", j>>)
        /\ calls[j][6] = Gemm("compute", j)
        /\ calls[j][7] = Mark(<<"kern_done", j>>, "compute")
        /\ calls[j][8] = Await("d2h", <<"kern_done", j>>)
        /\ calls[j][9] = Download("d2h", j)
        /\ calls[j][10] = Mark(<<"done", j>>, "d2h")
  <2> TAKE j \in 1..n
  <2>1. calls[j] = EnqueueH2D(j) \o EnqueueJob(j)
    OBVIOUS
  <2> HIDE DEF calls
  <2> QED BY <2>1 DEF EnqueueH2D, EnqueueJob
<1>6. \A j \in 1..n : ends[j][1] = EventSync(<<"done", j>>) /\ ends[j][2] = Collect(j)
  OBVIOUS
<1> HIDE DEF P, calls, ends, s
<1>7. /\ IsList(s, n * 10)
      /\ \A j \in 1..n, k \in 1..10 : s[10 * (j - 1) + k] = calls[j][k]
      /\ \A i \in 1..(n * 10) : \E j \in 1..n, k \in 1..10 : i = 10 * (j - 1) + k
  BY <1>1, <1>2, ListLoop DEF s
<1>8. /\ IsList(P, n * 10 + n * 2)
      /\ \A i \in 1..(n * 10) : P[i] = s[i]
      /\ \A j \in 1..n : \A k \in 1..2 : P[n * 10 + (2 * (j - 1) + k)] = ends[j][k]
      /\ \A p \in 1..(n * 10 + n * 2) :
           p \in 1..(n * 10) \/ \E j \in 1..n, k \in 1..2 : p = n * 10 + (2 * (j - 1) + k)
  <2>1. LoopFollows(P, s, n * 10, ends, n, 2)
    BY <1>1, <1>3, <1>4, <1>7, LoopAfter
  <2> QED BY <2>1 DEF LoopFollows
<1>9. ASSUME NEW j \in 1..n, NEW k \in 1..10 PROVE P[at(j, k)] = calls[j][k]
  <2>1. at(j, k) \in 1..(n * 10)
    BY <1>1
  <2> QED BY <2>1, <1>7, <1>8
<1>10. ASSUME NEW j \in 1..n PROVE P[end(j, 1)] = ends[j][1] /\ P[end(j, 2)] = ends[j][2]
  BY <1>8
<1>11. n * 10 + n * 2 = n * 12
  BY <1>1
<1>12. \A p \in 1..(n * 12) :
         \E j \in 1..n : (\E k \in 1..10 : p = at(j, k)) \/ p = end(j, 1) \/ p = end(j, 2)
  <2> TAKE p \in 1..(n * 12)
  <2>1. CASE p \in 1..(n * 10)
    BY <2>1, <1>7
  <2>2. CASE \E j \in 1..n, k \in 1..2 : p = n * 10 + (2 * (j - 1) + k)
    <3>1. PICK j \in 1..n, k \in 1..2 : p = n * 10 + (2 * (j - 1) + k)
      BY <2>2
    <3>2. k = 1 \/ k = 2
      OBVIOUS
    <3> QED BY <3>1, <3>2
  <2> QED BY <2>1, <2>2, <1>8, <1>11
<1>13. IsList(P, n * 12)
  BY <1>8, <1>11
<1> QED BY <1>5, <1>6, <1>9, <1>10, <1>12, <1>13, SMTT(30) DEF P

-----------------------------------------------------------------------------
(***************************************************************************)
(* What each kind of call is to the order.                                 *)
(***************************************************************************)
LEMMA MarkCall ==
  ASSUME NEW P, NEW p \in DOMAIN P, NEW e, NEW s, P[p] = Mark(e, s)
  PROVE  /\ p \in Ops(P) /\ p \in Records(P, e) /\ p \notin Issues(P) /\ p \notin Waits(P)
         /\ P[p].do = "record" /\ P[p].stream = s /\ P[p].event = e
BY DEF Mark, Ops, Records, Issues, Waits

\* A wait is an item of its stream.
LEMMA AwaitCall ==
  ASSUME NEW P, NEW p \in DOMAIN P, NEW e, NEW s, P[p] = Await(s, e)
  PROVE  /\ p \in Ops(P) /\ p \in Waits(P) /\ p \notin Issues(P)
         /\ P[p].do = "wait" /\ P[p].stream = s /\ P[p].event = e
BY DEF Await, Ops, Issues, Waits

\* A call of the host queues nothing.
LEMMA HostCall ==
  ASSUME NEW P, NEW p \in DOMAIN P
  PROVE  /\ \A j : P[p] = Fill(j) => p \notin Ops(P) /\ P[p].do = "fill" /\ P[p].job = j
         /\ \A e : P[p] = EventSync(e) => p \notin Ops(P) /\ P[p].do = "event_sync" /\ P[p].event = e
         /\ \A S : P[p] = Sync(S) => p \notin Ops(P) /\ P[p].do = "sync" /\ P[p].streams = S
         /\ \A e, f : P[p] = ElapsedMs(e, f) =>
              p \notin Ops(P) /\ P[p].do = "elapsed" /\ P[p].events = {e, f}
         /\ \A j : P[p] = Collect(j) => p \notin Ops(P) /\ P[p].do = "collect" /\ P[p].job = j
BY DEF Fill, EventSync, Sync, ElapsedMs, Collect, Ops

\* The events of a job of the program are events of the model.
LEMMA Names ==
  ASSUME NEW j \in JobIds
  PROVE  /\ \A e \in JobEvents : <<e, j>> \in EventNames
         /\ \A e \in {"start", "end", "ev_h2d", "ev_kern"} : <<e, 0>> \in EventNames
BY DEF EventNames

\* The jobs of a round are jobs of the model.
LEMMA JobRange ==
  ASSUME NEW n \in JobIds
  PROVE  n \in Nat \ {0} /\ 1 \in 1..n /\ n \in 1..n /\ 1..n \subseteq JobIds
BY BoundsAssumption DEF JobIds

\* The length of a list.
LEMMA ListLen ==
  ASSUME NEW s, NEW a, IsList(s, a)
  PROVE  DOMAIN s = 1..a /\ Len(s) = a /\ IsList(s, Len(s))
<1> DEFINE S == {s[i] : i \in 1..a}
<1>1. \A i \in 1..a : s[i] \in S
  OBVIOUS
<1> HIDE DEF S
<1>2. Len(s) = a
  BY <1>1, ListSeq
<1> QED BY <1>2 DEF IsList

\* What the copies and the kernel of a job read and write.
LEMMA JobIssue ==
  ASSUME NEW P, NEW p \in DOMAIN P, NEW j, NEW s
  PROVE  /\ P[p] = UploadA(s, j) =>
              p \in Issues(P) /\ P[p].stream = s /\ P[p].reads = {<<"ha", j>>} /\ P[p].writes = <<"da", j>>
         /\ P[p] = UploadB(s, j) =>
              p \in Issues(P) /\ P[p].stream = s /\ P[p].reads = {<<"hb", j>>} /\ P[p].writes = <<"db", j>>
         /\ P[p] = Gemm(s, j) =>
              /\ p \in Issues(P) /\ P[p].stream = s
              /\ P[p].reads = {<<"da", j>>, <<"db", j>>} /\ P[p].writes = <<"dc", j>>
         /\ P[p] = Download(s, j) =>
              p \in Issues(P) /\ P[p].stream = s /\ P[p].reads = {<<"dc", j>>} /\ P[p].writes = <<"hc", j>>
<1>1. P[p] = UploadA(s, j) =>
        p \in Issues(P) /\ P[p].stream = s /\ P[p].reads = {<<"ha", j>>} /\ P[p].writes = <<"da", j>>
  BY DEF UploadA, Issue, Issues, Ops
<1>2. P[p] = UploadB(s, j) =>
        p \in Issues(P) /\ P[p].stream = s /\ P[p].reads = {<<"hb", j>>} /\ P[p].writes = <<"db", j>>
  BY DEF UploadB, Issue, Issues, Ops
<1>3. P[p] = Gemm(s, j) =>
        /\ p \in Issues(P) /\ P[p].stream = s
        /\ P[p].reads = {<<"da", j>>, <<"db", j>>} /\ P[p].writes = <<"dc", j>>
  BY DEF Gemm, Issue, Issues, Ops
<1>4. P[p] = Download(s, j) =>
        p \in Issues(P) /\ P[p].stream = s /\ P[p].reads = {<<"dc", j>>} /\ P[p].writes = <<"hc", j>>
  BY DEF Download, Issue, Issues, Ops
<1> QED BY <1>1, <1>2, <1>3, <1>4

\* The calls that queue an item.
LEMMA AnyCall ==
  ASSUME NEW P, NEW p \in DOMAIN P
  PROVE  /\ \A s, j : P[p] \in {UploadA(s, j), UploadB(s, j), Gemm(s, j), Download(s, j)} =>
              p \in Issues(P) /\ p \in Ops(P) /\ P[p].do = "issue" /\ P[p].stream = s
         /\ \A s, e : P[p] = Mark(e, s) =>
              /\ p \in Records(P, e) /\ p \in Ops(P) /\ p \notin Issues(P)
              /\ P[p].do = "record" /\ P[p].stream = s /\ P[p].event = e
         /\ \A s, e : P[p] = Await(s, e) =>
              /\ p \in Waits(P) /\ p \in Ops(P) /\ p \notin Issues(P)
              /\ P[p].do = "wait" /\ P[p].stream = s /\ P[p].event = e
<1>1. ASSUME NEW s, NEW j, P[p] \in {UploadA(s, j), UploadB(s, j), Gemm(s, j), Download(s, j)}
      PROVE  p \in Issues(P) /\ p \in Ops(P) /\ P[p].do = "issue" /\ P[p].stream = s
  BY <1>1 DEF UploadA, UploadB, Gemm, Download, Issue, Issues, Ops
<1>2. ASSUME NEW s, NEW e, P[p] = Mark(e, s)
      PROVE  /\ p \in Records(P, e) /\ p \in Ops(P) /\ p \notin Issues(P)
             /\ P[p].do = "record" /\ P[p].stream = s /\ P[p].event = e
  BY <1>2, MarkCall
<1>3. ASSUME NEW s, NEW e, P[p] = Await(s, e)
      PROVE  /\ p \in Waits(P) /\ p \in Ops(P) /\ p \notin Issues(P)
             /\ P[p].do = "wait" /\ P[p].stream = s /\ P[p].event = e
  BY <1>3, AwaitCall
<1> QED BY <1>1, <1>2, <1>3

\* execute_batch: the uploads, kernels and downloads of its three streams are
\* ordered by h2d_done, kern_done and done.
LEMMA SchedulerOrdered ==
  ASSUME NEW n \in JobIds
  PROVE  WellOrdered(ExecuteBatch(n), "scheduler", 1..n)
<1> DEFINE P == ExecuteBatch(n)
           f == [j \in 1..n |-> 10 * (j - 1) + 1]
           a == [j \in 1..n |-> 10 * (j - 1) + 2]
           b == [j \in 1..n |-> 10 * (j - 1) + 3]
           r == [j \in 1..n |-> 10 * (j - 1) + 4]
           w == [j \in 1..n |-> 10 * (j - 1) + 5]
           g == [j \in 1..n |-> 10 * (j - 1) + 6]
           u == [j \in 1..n |-> 10 * (j - 1) + 7]
           v == [j \in 1..n |-> 10 * (j - 1) + 8]
           d == [j \in 1..n |-> 10 * (j - 1) + 9]
           e == [j \in 1..n |-> 10 * (j - 1) + 10]
           x == [j \in 1..n |-> n * 10 + (2 * (j - 1) + 1)]
           y == [j \in 1..n |-> n * 10 + (2 * (j - 1) + 2)]
           N == n * 12
<1>0. n \in Nat \ {0} /\ 1 \in 1..n /\ n \in 1..n /\ 1..n \subseteq JobIds
  BY JobRange
<1>1. /\ IsList(P, N)
      /\ \A j \in 1..n :
           /\ P[f[j]] = Fill(j) /\ P[a[j]] = UploadA("h2d", j) /\ P[b[j]] = UploadB("h2d", j)
           /\ P[r[j]] = Mark(<<"h2d_done", j>>, "h2d")
           /\ P[w[j]] = Await("compute", <<"h2d_done", j>>)
           /\ P[g[j]] = Gemm("compute", j)
           /\ P[u[j]] = Mark(<<"kern_done", j>>, "compute")
           /\ P[v[j]] = Await("d2h", <<"kern_done", j>>)
           /\ P[d[j]] = Download("d2h", j)
           /\ P[e[j]] = Mark(<<"done", j>>, "d2h")
           /\ P[x[j]] = EventSync(<<"done", j>>) /\ P[y[j]] = Collect(j)
  <2> HIDE DEF P
  <2> QED BY SchedulerCalls DEF P
<1>2. \A p \in 1..N : \E j \in 1..n :
        p \in {f[j], a[j], b[j], r[j], w[j], g[j], u[j], v[j], d[j], e[j], x[j], y[j]}
  <2> TAKE p \in 1..N
  <2>1. PICK j \in 1..n : \/ \E k \in 1..10 : p = 10 * (j - 1) + k
                          \/ p = n * 10 + (2 * (j - 1) + 1) \/ p = n * 10 + (2 * (j - 1) + 2)
    BY SchedulerCalls
  <2>2. CASE \E k \in 1..10 : p = 10 * (j - 1) + k
    <3>1. PICK k \in 1..10 : p = 10 * (j - 1) + k
      BY <2>2
    <3>2. k \in {1, 2, 3, 4, 5, 6, 7, 8, 9, 10}
      OBVIOUS
    <3>3. p \in {f[j], a[j], b[j], r[j], w[j], g[j], u[j], v[j], d[j], e[j]}
      BY <3>1, <3>2
    <3> HIDE DEF f, a, b, r, w, g, u, v, d, e, x, y
    <3> QED BY <3>3
  <2> QED BY <2>1, <2>2
<1>3. \A j \in 1..n :
        /\ f[j] \in 1..N /\ a[j] \in 1..N /\ b[j] \in 1..N /\ r[j] \in 1..N /\ w[j] \in 1..N
        /\ g[j] \in 1..N /\ u[j] \in 1..N /\ v[j] \in 1..N /\ d[j] \in 1..N /\ e[j] \in 1..N
        /\ x[j] \in 1..N /\ y[j] \in 1..N
  BY <1>0
<1>4. \A j \in 1..n :
        /\ f[j] < a[j] /\ a[j] < b[j] /\ b[j] < r[j] /\ r[j] < w[j] /\ w[j] < g[j] /\ g[j] < u[j]
        /\ u[j] < v[j] /\ v[j] < d[j] /\ d[j] < e[j] /\ e[j] < x[j] /\ x[j] < y[j]
        /\ e[j] <= e[n] /\ v[j] < e[n] /\ e[n] < x[n] /\ x[n] <= N
  BY <1>0
<1>5. \A i, j \in 1..n : i < j => d[i] < d[j]
  BY <1>0
<1>i. N \in Int
  BY <1>0
<1> HIDE DEF P, f, a, b, r, w, g, u, v, d, e, x, y, N
<1>6. DOMAIN P = 1..N /\ Len(P) = N /\ IsList(P, Len(P))
  BY <1>1, ListLen
<1>f. \A j \in 1..n :
         /\ f[j] \notin Ops(P) /\ P[f[j]].do = "fill" /\ P[f[j]].job = j
  <2> TAKE j \in 1..n
  <2>1. P[f[j]] = Fill(j) /\ f[j] \in DOMAIN P
    BY <1>1, <1>3, <1>6
  <2> QED BY <2>1, HostCall
<1>a. \A j \in 1..n :
         /\ a[j] \in Issues(P) /\ a[j] \in Ops(P) /\ P[a[j]].stream = "h2d"
         /\ P[a[j]].reads = {<<"ha", j>>} /\ P[a[j]].writes = <<"da", j>>
  <2> TAKE j \in 1..n
  <2>1. P[a[j]] = UploadA("h2d", j) /\ a[j] \in DOMAIN P
    BY <1>1, <1>3, <1>6
  <2> QED BY <2>1, JobIssue, AnyCall
<1>b. \A j \in 1..n :
         /\ b[j] \in Issues(P) /\ b[j] \in Ops(P) /\ P[b[j]].stream = "h2d"
         /\ P[b[j]].reads = {<<"hb", j>>} /\ P[b[j]].writes = <<"db", j>>
  <2> TAKE j \in 1..n
  <2>1. P[b[j]] = UploadB("h2d", j) /\ b[j] \in DOMAIN P
    BY <1>1, <1>3, <1>6
  <2> QED BY <2>1, JobIssue, AnyCall
<1>r. \A j \in 1..n :
         /\ r[j] \in Records(P, <<"h2d_done", j>>) /\ r[j] \in Ops(P) /\ r[j] \notin Issues(P)
         /\ P[r[j]].do = "record" /\ P[r[j]].event = <<"h2d_done", j>> /\ P[r[j]].stream = "h2d"
  <2> TAKE j \in 1..n
  <2>1. P[r[j]] = Mark(<<"h2d_done", j>>, "h2d") /\ r[j] \in DOMAIN P
    BY <1>1, <1>3, <1>6
  <2> QED BY <2>1, MarkCall
<1>w. \A j \in 1..n :
         /\ w[j] \in Waits(P) /\ w[j] \in Ops(P) /\ w[j] \notin Issues(P)
         /\ P[w[j]].do = "wait" /\ P[w[j]].event = <<"h2d_done", j>> /\ P[w[j]].stream = "compute"
  <2> TAKE j \in 1..n
  <2>1. P[w[j]] = Await("compute", <<"h2d_done", j>>) /\ w[j] \in DOMAIN P
    BY <1>1, <1>3, <1>6
  <2> QED BY <2>1, AwaitCall
<1>g. \A j \in 1..n :
         /\ g[j] \in Issues(P) /\ g[j] \in Ops(P) /\ P[g[j]].stream = "compute"
         /\ P[g[j]].reads = {<<"da", j>>, <<"db", j>>} /\ P[g[j]].writes = <<"dc", j>>
  <2> TAKE j \in 1..n
  <2>1. P[g[j]] = Gemm("compute", j) /\ g[j] \in DOMAIN P
    BY <1>1, <1>3, <1>6
  <2> QED BY <2>1, JobIssue, AnyCall
<1>u. \A j \in 1..n :
         /\ u[j] \in Records(P, <<"kern_done", j>>) /\ u[j] \in Ops(P) /\ u[j] \notin Issues(P)
         /\ P[u[j]].do = "record" /\ P[u[j]].event = <<"kern_done", j>> /\ P[u[j]].stream = "compute"
  <2> TAKE j \in 1..n
  <2>1. P[u[j]] = Mark(<<"kern_done", j>>, "compute") /\ u[j] \in DOMAIN P
    BY <1>1, <1>3, <1>6
  <2> QED BY <2>1, MarkCall
<1>v. \A j \in 1..n :
         /\ v[j] \in Waits(P) /\ v[j] \in Ops(P) /\ v[j] \notin Issues(P)
         /\ P[v[j]].do = "wait" /\ P[v[j]].event = <<"kern_done", j>> /\ P[v[j]].stream = "d2h"
  <2> TAKE j \in 1..n
  <2>1. P[v[j]] = Await("d2h", <<"kern_done", j>>) /\ v[j] \in DOMAIN P
    BY <1>1, <1>3, <1>6
  <2> QED BY <2>1, AwaitCall
<1>d. \A j \in 1..n :
         /\ d[j] \in Issues(P) /\ d[j] \in Ops(P) /\ P[d[j]].stream = "d2h"
         /\ P[d[j]].reads = {<<"dc", j>>} /\ P[d[j]].writes = <<"hc", j>>
  <2> TAKE j \in 1..n
  <2>1. P[d[j]] = Download("d2h", j) /\ d[j] \in DOMAIN P
    BY <1>1, <1>3, <1>6
  <2> QED BY <2>1, JobIssue, AnyCall
<1>e. \A j \in 1..n :
         /\ e[j] \in Records(P, <<"done", j>>) /\ e[j] \in Ops(P) /\ e[j] \notin Issues(P)
         /\ P[e[j]].do = "record" /\ P[e[j]].event = <<"done", j>> /\ P[e[j]].stream = "d2h"
  <2> TAKE j \in 1..n
  <2>1. P[e[j]] = Mark(<<"done", j>>, "d2h") /\ e[j] \in DOMAIN P
    BY <1>1, <1>3, <1>6
  <2> QED BY <2>1, MarkCall
<1>x. \A j \in 1..n :
         /\ x[j] \notin Ops(P) /\ P[x[j]].do = "event_sync" /\ P[x[j]].event = <<"done", j>>
  <2> TAKE j \in 1..n
  <2>1. P[x[j]] = EventSync(<<"done", j>>) /\ x[j] \in DOMAIN P
    BY <1>1, <1>3, <1>6
  <2> QED BY <2>1, HostCall
<1>y. \A j \in 1..n :
         /\ y[j] \notin Ops(P) /\ P[y[j]].do = "collect" /\ P[y[j]].job = j
  <2> TAKE j \in 1..n
  <2>1. P[y[j]] = Collect(j) /\ y[j] \in DOMAIN P
    BY <1>1, <1>3, <1>6
  <2> QED BY <2>1, HostCall
<1>o. \A j \in 1..n :
        /\ a[j] \in Ops(P) /\ b[j] \in Ops(P) /\ r[j] \in Ops(P) /\ w[j] \in Ops(P) /\ g[j] \in Ops(P)
        /\ u[j] \in Ops(P) /\ v[j] \in Ops(P) /\ d[j] \in Ops(P) /\ e[j] \in Ops(P)
  <2>1. \A j \in 1..n : a[j] \in Ops(P) /\ b[j] \in Ops(P)
    BY <1>a, <1>b
  <2>2. \A j \in 1..n : g[j] \in Ops(P) /\ d[j] \in Ops(P)
    BY <1>g, <1>d
  <2>3. \A j \in 1..n : r[j] \in Ops(P) /\ u[j] \in Ops(P) /\ e[j] \in Ops(P)
    BY <1>r, <1>u, <1>e
  <2>4. \A j \in 1..n : w[j] \in Ops(P) /\ v[j] \in Ops(P)
    BY <1>w, <1>v
  <2> QED BY <2>1, <2>2, <2>3, <2>4
<1>n. \A j \in 1..n : /\ r[j] \notin Issues(P) /\ u[j] \notin Issues(P) /\ e[j] \notin Issues(P)
                      /\ w[j] \notin Issues(P) /\ v[j] \notin Issues(P)
  <2>1. \A j \in 1..n : r[j] \notin Issues(P) /\ u[j] \notin Issues(P) /\ e[j] \notin Issues(P)
    BY <1>r, <1>u, <1>e
  <2>2. \A j \in 1..n : w[j] \notin Issues(P) /\ v[j] \notin Issues(P)
    BY <1>w, <1>v
  <2> QED BY <2>1, <2>2
<1>7. \A p \in Ops(P) : \E j \in 1..n :
        p \in {a[j], b[j], r[j], w[j], g[j], u[j], v[j], d[j], e[j]}
  <2> SUFFICES ASSUME NEW p \in Ops(P)
               PROVE  \E j \in 1..n : p \in {a[j], b[j], r[j], w[j], g[j], u[j], v[j], d[j], e[j]}
    OBVIOUS
  <2>1. PICK j \in 1..n :
          p \in {f[j], a[j], b[j], r[j], w[j], g[j], u[j], v[j], d[j], e[j], x[j], y[j]}
    BY <1>2, <1>6 DEF Ops
  <2>2. p # f[j] /\ p # x[j] /\ p # y[j]
    <3>1. f[j] \notin Ops(P) BY <1>f
    <3>2. x[j] \notin Ops(P) BY <1>x
    <3>3. y[j] \notin Ops(P) BY <1>y
    <3> QED BY <3>1, <3>2, <3>3
  <2> QED BY <2>1, <2>2
<1>8. \A q \in Issues(P) : \E j \in 1..n : q \in {a[j], b[j], g[j], d[j]}
  <2> SUFFICES ASSUME NEW q \in Issues(P) PROVE \E j \in 1..n : q \in {a[j], b[j], g[j], d[j]}
    OBVIOUS
  <2>1. PICK j \in 1..n : q \in {a[j], b[j], r[j], w[j], g[j], u[j], v[j], d[j], e[j]}
    BY <1>7 DEF Issues
  <2> QED BY <1>n, <2>1
<1>9. \A j \in 1..n :
        /\ P[a[j]].stream = "h2d" /\ P[b[j]].stream = "h2d" /\ P[r[j]].stream = "h2d"
        /\ P[w[j]].stream = "compute" /\ P[g[j]].stream = "compute" /\ P[u[j]].stream = "compute"
        /\ P[v[j]].stream = "d2h" /\ P[d[j]].stream = "d2h" /\ P[e[j]].stream = "d2h"
  <2>1. \A j \in 1..n : P[a[j]].stream = "h2d" /\ P[b[j]].stream = "h2d"
    BY <1>a, <1>b
  <2>2. \A j \in 1..n : P[g[j]].stream = "compute" /\ P[d[j]].stream = "d2h"
    BY <1>g, <1>d
  <2>3. \A j \in 1..n : P[r[j]].stream = "h2d" /\ P[u[j]].stream = "compute" /\ P[e[j]].stream = "d2h"
    BY <1>r, <1>u, <1>e
  <2>4. \A j \in 1..n : P[w[j]].stream = "compute" /\ P[v[j]].stream = "d2h"
    BY <1>w, <1>v
  <2> QED BY <2>1, <2>2, <2>3, <2>4
<1>c. \A j \in 1..n :
        /\ a[j] < r[j] /\ b[j] < r[j] /\ r[j] < w[j] /\ w[j] < g[j] /\ w[j] < u[j]
        /\ g[j] < u[j] /\ u[j] < v[j] /\ v[j] < d[j]
        /\ a[j] < g[j] /\ b[j] < g[j] /\ g[j] < d[j] /\ v[j] < e[n]
  BY <1>3, <1>4, <1>i
<1>10. Chain(P, n, a, b, r, w, g, u, v, d)
  <2>1. \A j \in 1..n :
          /\ r[j] \in Records(P, P[w[j]].event) /\ w[j] \in Waits(P)
          /\ u[j] \in Records(P, P[v[j]].event) /\ v[j] \in Waits(P)
    BY <1>r, <1>w, <1>u, <1>v
  <2>2. \A i, j \in 1..n : i < j => d[i] < d[j] /\ P[d[i]].stream = P[d[j]].stream
    BY <1>5, <1>9
  <2>3. ASSUME NEW j \in 1..n
        PROVE  /\ a[j] \in Issues(P) /\ P[a[j]].reads = {<<"ha", j>>} /\ P[a[j]].writes = <<"da", j>>
               /\ b[j] \in Issues(P) /\ P[b[j]].reads = {<<"hb", j>>} /\ P[b[j]].writes = <<"db", j>>
    BY <1>a, <1>b
  <2>4. ASSUME NEW j \in 1..n
        PROVE  /\ g[j] \in Issues(P) /\ P[g[j]].reads = {<<"da", j>>, <<"db", j>>}
               /\ P[g[j]].writes = <<"dc", j>>
               /\ d[j] \in Issues(P) /\ P[d[j]].reads = {<<"dc", j>>} /\ P[d[j]].writes = <<"hc", j>>
    BY <1>g, <1>d
  <2> QED BY <1>8, <1>9, <1>c, <2>1, <2>2, <2>3, <2>4 DEF Chain
<1>11. /\ InputsReady(P) /\ NoClobber(P) /\ ResultsInOrder(P, 1..n)
       /\ \A j \in 1..n : Writers(P, <<"hc", j>>) = {d[j]}
  BY <1>0, <1>10, ChainOrder
<1>12. Typed(P)
  <2>1. \A q \in Issues(P) :
          /\ P[q].reads \in SUBSET LocationNames /\ P[q].reads # {}
          /\ P[q].writes \in LocationNames \ AllHostBuffers
          /\ P[q].writes \notin P[q].reads
    BY <1>0, <1>10, ChainTyped
  <2>2. \A p \in Ops(P) : P[p].stream \in StreamNames
    <3> SUFFICES ASSUME NEW p \in Ops(P) PROVE P[p].stream \in StreamNames
      OBVIOUS
    <3> QED BY <1>7, <1>9 DEF StreamNames
  <2>3. ASSUME NEW p \in Ops(P) \ Issues(P) PROVE P[p].event \in EventNames
    <3>1. PICK j \in 1..n : p \in {a[j], b[j], r[j], w[j], g[j], u[j], v[j], d[j], e[j]}
      BY <1>7
    <3>2. p \in {r[j], w[j], u[j], v[j], e[j]}
      BY <3>1, <1>a, <1>b, <1>g, <1>d
    <3>3. P[p].event \in {<<"h2d_done", j>>, <<"kern_done", j>>, <<"done", j>>}
      <4>1. \A i \in 1..n : /\ P[r[i]].event = <<"h2d_done", i>> /\ P[u[i]].event = <<"kern_done", i>>
                            /\ P[e[i]].event = <<"done", i>>
        BY <1>r, <1>u, <1>e
      <4>2. \A i \in 1..n : P[w[i]].event = <<"h2d_done", i>> /\ P[v[i]].event = <<"kern_done", i>>
        BY <1>w, <1>v
      <4> QED BY <4>1, <4>2, <3>2
    <3>4. j \in JobIds
      BY <1>0
    <3> QED BY <3>3, <3>4, Names DEF JobEvents
  <2> QED BY <2>1, <2>2, <2>3 DEF Typed
<1>13. OneStreamPerEvent(P)
  <2>1. ASSUME NEW p \in Ops(P), P[p].do = "record"
        PROVE  \E j \in 1..n : \/ P[p].event = <<"h2d_done", j>> /\ P[p].stream = "h2d"
                               \/ P[p].event = <<"kern_done", j>> /\ P[p].stream = "compute"
                               \/ P[p].event = <<"done", j>> /\ P[p].stream = "d2h"
    <3>1. PICK j \in 1..n : p \in {a[j], b[j], r[j], w[j], g[j], u[j], v[j], d[j], e[j]}
      BY <1>7
    <3>2. p # a[j] /\ p # b[j] /\ p # g[j] /\ p # d[j]
      BY <2>1, <1>a, <1>b, <1>g, <1>d DEF Issues
    <3>3. p # w[j] /\ p # v[j]
      BY <2>1, <1>w, <1>v
    <3>4. p = r[j] \/ p = u[j] \/ p = e[j]
      BY <3>1, <3>2, <3>3
    <3>5. /\ P[r[j]].event = <<"h2d_done", j>> /\ P[r[j]].stream = "h2d"
          /\ P[u[j]].event = <<"kern_done", j>> /\ P[u[j]].stream = "compute"
          /\ P[e[j]].event = <<"done", j>> /\ P[e[j]].stream = "d2h"
      BY <1>r, <1>u, <1>e
    <3> QED BY <3>4, <3>5, Zenon
  <2> QED BY <2>1 DEF OneStreamPerEvent, Records
<1>14. InputsFilled(P)
  <2> SUFFICES ASSUME NEW q \in Issues(P), NEW l \in P[q].reads \cap AllHostBuffers
               PROVE  \E h \in 1..(q - 1) : P[h].do = "fill" /\ l \in HostBuffers(P[h].job)
    BY DEF InputsFilled
  <2>1. PICK j \in 1..n : q \in {a[j], b[j], g[j], d[j]}
    BY <1>8
  <2>2. (q = a[j] /\ l = <<"ha", j>>) \/ (q = b[j] /\ l = <<"hb", j>>)
    <3>1. <<"da", j>> \notin AllHostBuffers /\ <<"db", j>> \notin AllHostBuffers
          /\ <<"dc", j>> \notin AllHostBuffers
      BY DEF AllHostBuffers, HostBuffers
    <3>2. q # g[j]
      BY <1>g, <3>1
    <3>3. q # d[j]
      BY <1>d, <3>1
    <3>4. q = a[j] => l = <<"ha", j>>
      BY <1>a
    <3>5. q = b[j] => l = <<"hb", j>>
      BY <1>b
    <3> QED BY <2>1, <3>2, <3>3, <3>4, <3>5
  <2>3. l \in HostBuffers(j)
    BY <2>2 DEF HostBuffers
  <2>4. f[j] \in 1..(q - 1)
    BY <1>3, <1>4, <1>i, <2>2
  <2>5. P[f[j]].do = "fill" /\ P[f[j]].job = j
    BY <1>f
  <2> QED BY <2>3, <2>4, <2>5
<1>15. CollectsLate(P)
  <2> SUFFICES ASSUME NEW c \in DOMAIN P, P[c].do = "collect"
               PROVE  /\ Writers(P, <<"hc", P[c].job>>) # {}
                      /\ \A p \in Writers(P, <<"hc", P[c].job>>) : p < c /\ Past(P, p, c)
    BY DEF CollectsLate
  <2>0. PICK j \in 1..n :
          c \in {f[j], a[j], b[j], r[j], w[j], g[j], u[j], v[j], d[j], e[j], x[j], y[j]}
    BY <1>2, <1>6
  <2>a. c \notin Ops(P)
    BY DEF Ops
  <2>b. c # f[j] /\ c # x[j]
    BY <1>f, <1>x
  <2>1. c = y[j]
    BY <2>0, <2>a, <2>b, <1>o
  <2>2. Writers(P, <<"hc", P[c].job>>) = {d[j]}
    <3>1. P[c].job = j
      BY <1>y, <2>1
    <3> QED BY <1>11, <3>1
  <2>3. d[j] < c /\ c \in Int /\ x[j] \in 1..(c - 1) /\ e[j] < x[j] /\ d[j] < e[j]
    BY <1>3, <1>4, <1>i, <2>1
  <2>4. /\ d[j] \in Ops(P) /\ P[x[j]].do = "event_sync" /\ e[j] \in Records(P, P[x[j]].event)
        /\ P[d[j]].stream = P[e[j]].stream
    BY <1>d, <1>e, <1>x
  <2>5. Past(P, d[j], c)
    BY <2>3, <2>4, PastByEvent
  <2> QED BY <2>2, <2>3, <2>5
<1>16. TimersLate(P)
  <2>1. ASSUME NEW h \in DOMAIN P PROVE P[h].do # "elapsed"
    <3>1. PICK j \in 1..n :
            h \in {f[j], a[j], b[j], r[j], w[j], g[j], u[j], v[j], d[j], e[j], x[j], y[j]}
      BY <1>2, <1>6
    <3>2. CASE h \in {f[j], x[j], y[j]}
      BY <3>2, <1>f, <1>x, <1>y
    <3>3. CASE h \in Ops(P)
      BY <3>3 DEF Ops
    <3> QED BY <3>1, <3>2, <3>3, <1>o
  <2> QED BY <2>1 DEF TimersLate
<1>17. EndsQuiet(P)
  <2> SUFFICES ASSUME NEW p \in Ops(P) PROVE Past(P, p, Len(P) + 1)
    BY DEF EndsQuiet
  <2>1. PICK j \in 1..n : p \in {a[j], b[j], r[j], w[j], g[j], u[j], v[j], d[j], e[j]}
    BY <1>7
  <2> DEFINE h == Len(P) + 1  z == e[n]  k == x[n]
  <2>2. h \in Int /\ k \in 1..(h - 1) /\ z < k
    BY <1>0, <1>3, <1>4, <1>i, <1>6
  <2>3. P[k].do = "event_sync" /\ z \in Records(P, P[k].event) /\ P[z].stream = "d2h"
    BY <1>0, <1>e, <1>x
  <2>4. \A i \in 1..n : v[i] < z /\ P[v[i]].stream = P[z].stream /\ w[i] < u[i]
    BY <1>c, <1>9, <2>3
  <2>5. \/ p = z
        \/ p < z /\ P[p].stream = P[z].stream
        \/ \E i \in 1..n : p = u[i] \/ (p < u[i] /\ P[p].stream = P[u[i]].stream)
        \/ \E i \in 1..n : p = r[i] \/ (p < r[i] /\ P[p].stream = P[r[i]].stream)
    <3>1. CASE p \in {a[j], b[j], r[j]}
      BY <1>c, <1>9, <3>1
    <3>2. CASE p \in {w[j], g[j], u[j]}
      BY <1>c, <1>9, <3>2
    <3>3. CASE p \in {v[j], d[j], e[j]}
      <4>1. p <= z /\ p \in Int /\ z \in Int
        BY <1>0, <1>3, <1>4, <1>i, <3>3
      <4>2. P[p].stream = P[z].stream
        BY <1>9, <2>3, <3>3
      <4> QED BY <4>1, <4>2
    <3> QED BY <2>1, <3>1, <3>2, <3>3
  <2> HIDE DEF h, z, k
  <2>6. Past(P, p, h)
    BY <1>10, <2>2, <2>3, <2>4, <2>5, ChainPast
  <2> QED BY <2>6 DEF h
<1>18. WellOrdered(P, "scheduler", 1..n)
  BY <1>6, <1>11, <1>12, <1>13, <1>14, <1>15, <1>16, <1>17 DEF WellOrdered, Control
<1> QED BY <1>18 DEF P

-----------------------------------------------------------------------------
(***************************************************************************)
(* The programs of bench_overlap.cpp.                                      *)
(***************************************************************************)
TimerEvents(n) ==
  ({"c0", "c1", "k0", "k1", "d0", "d1"} \X (1..n)) \cup {<<"start", 0>>, <<"end", 0>>}

\* The n turns of m calls, between the start event and the end event at z.
Bench(P, n, m, calls, s, t, z, N) ==
  /\ IsList(P, N) /\ N \in Nat /\ z = 2 + n * m + 1 /\ z + 1 < N
  /\ P[1] = Sync(StreamNames) /\ P[2] = Mark(<<"start", 0>>, s)
  /\ \A j \in 1..n : \A k \in 1..m : P[2 + (m * (j - 1) + k)] = calls[j][k]
  /\ P[z] = Mark(<<"end", 0>>, t) /\ P[z + 1] = EventSync(<<"end", 0>>)
  /\ \A p \in (z + 2)..N : \E e, f \in TimerEvents(n) : P[p] = ElapsedMs(e, f)
  /\ \A p \in 1..N :
       p \in {1, 2, z, z + 1} \/ p >= z + 2
         \/ \E j \in 1..n, k \in 1..m : p = 2 + (m * (j - 1) + k)

\* The timers read at the end are those recorded by the loop.
LEMMA TimerCalls ==
  ASSUME NEW n \in Nat \ {0}
  PROVE  /\ IsList(Timers(n), n * 3 + 1)
         /\ \A i \in 1..(n * 3 + 1) : \E e, f \in TimerEvents(n) : Timers(n)[i] = ElapsedMs(e, f)
<1> DEFINE calls == [j \in 1..n |->
             <<ElapsedMs(<<"c0", j>>, <<"c1", j>>), ElapsedMs(<<"k0", j>>, <<"k1", j>>),
               ElapsedMs(<<"d0", j>>, <<"d1", j>>)>>]
           last == <<ElapsedMs(<<"start", 0>>, <<"end", 0>>)>>
           l == ForJobs(calls)
           u == Timers(n)
           a == n * 3
<1>1. IsList(calls, n) /\ Len(calls[1]) = 3 /\ 3 \in Nat \ {0} /\ IsList(last, 1)
  <2>1. 1 \in 1..n
    OBVIOUS
  <2> QED BY <2>1 DEF IsList
<1>2. \A j \in 1..n : \A k \in 1..3 : \E e, f \in TimerEvents(n) : calls[j][k] = ElapsedMs(e, f)
  <2> SUFFICES ASSUME NEW j \in 1..n, NEW k \in 1..3
               PROVE  \E e, f \in TimerEvents(n) : calls[j][k] = ElapsedMs(e, f)
    OBVIOUS
  <2>1. \A x \in {"c0", "c1", "k0", "k1", "d0", "d1"} : <<x, j>> \in TimerEvents(n)
    BY DEF TimerEvents
  <2>2. calls[j][1] = ElapsedMs(<<"c0", j>>, <<"c1", j>>)
        /\ calls[j][2] = ElapsedMs(<<"k0", j>>, <<"k1", j>>)
        /\ calls[j][3] = ElapsedMs(<<"d0", j>>, <<"d1", j>>)
    OBVIOUS
  <2>3. k = 1 \/ k = 2 \/ k = 3
    OBVIOUS
  <2> HIDE DEF calls
  <2> QED BY <2>1, <2>2, <2>3
<1>3. last[1] = ElapsedMs(<<"start", 0>>, <<"end", 0>>)
  OBVIOUS
<1>4. Joined(u, l, last)
  BY DEF Timers, Joined
<1> HIDE DEF calls, last, l, u
<1>5. /\ IsList(l, a)
      /\ \A j \in 1..n, k \in 1..3 : l[3 * (j - 1) + k] = calls[j][k]
      /\ \A i \in 1..a : \E j \in 1..n, k \in 1..3 : i = 3 * (j - 1) + k
  BY <1>1, ListLoop DEF l
<1>6. a \in Nat
  OBVIOUS
<1>h. u = Timers(n)
  BY DEF u
<1> HIDE DEF a
<1>7. IsList(u, a + 1) /\ (\A i \in 1..a : u[i] = l[i]) /\ \A i \in 1..1 : u[a + i] = last[i]
  BY <1>1, <1>4, <1>5, ListConcat
<1>8. ASSUME NEW i \in 1..(a + 1) PROVE \E e, f \in TimerEvents(n) : u[i] = ElapsedMs(e, f)
  <2>1. CASE i \in 1..a
    <3>1. u[i] = l[i]
      BY <1>7, <2>1
    <3>2. PICK j \in 1..n, k \in 1..3 : i = 3 * (j - 1) + k
      BY <1>5, <2>1
    <3>3. l[i] = calls[j][k]
      BY <1>5, <3>2
    <3> QED BY <1>2, <3>1, <3>3
  <2>2. CASE i = a + 1
    <3>1. u[i] = ElapsedMs(<<"start", 0>>, <<"end", 0>>)
      BY <1>3, <1>7, <2>2
    <3>2. <<"start", 0>> \in TimerEvents(n) /\ <<"end", 0>> \in TimerEvents(n)
      BY DEF TimerEvents
    <3> QED BY <3>1, <3>2
  <2> QED BY <1>6, <2>1, <2>2
<1> QED BY <1>7, <1>8, <1>h DEF a

\* The calls of a configuration: start, the turns of the loop, end, the timers.
LEMMA BenchCalls ==
  ASSUME NEW n \in Nat \ {0}, NEW m \in Nat \ {0}, NEW calls, IsList(calls, n), Len(calls[1]) = m,
         NEW s, NEW t, NEW Q, Joined(Q, Start(s), ForJobs(calls)), NEW P, Joined(P, Q, Finish(t, n))
  PROVE  Bench(P, n, m, calls, s, t, 2 + n * m + 1, 2 + n * m + (n * 3 + 3))
<1> DEFINE pre == Start(s)
           two == <<Mark(<<"end", 0>>, t), EventSync(<<"end", 0>>)>>
           tail == Timers(n)
           fin == Finish(t, n)
           b == 2 + n * m
           c == n * 3 + 1
<1>1. IsList(pre, 2) /\ pre[1] = Sync(StreamNames) /\ pre[2] = Mark(<<"start", 0>>, s)
  BY DEF Start, IsList
<1>2. IsList(two, 2) /\ two[1] = Mark(<<"end", 0>>, t) /\ two[2] = EventSync(<<"end", 0>>)
  BY DEF IsList
<1>3. Joined(Q, pre, ForJobs(calls)) /\ Joined(fin, two, tail) /\ Joined(P, Q, fin)
  BY DEF Joined, Finish
<1>4. IsList(tail, c) /\ \A i \in 1..c : \E e, f \in TimerEvents(n) : tail[i] = ElapsedMs(e, f)
  BY TimerCalls
<1>5. b \in Nat /\ c \in Nat /\ n * m \in Nat
  OBVIOUS
<1> HIDE DEF pre, two, tail, fin
<1>6. LoopFollows(Q, pre, 2, calls, n, m)
  BY <1>1, <1>3, LoopAfter
<1> HIDE DEF c
<1>7. /\ IsList(fin, 2 + c) /\ (\A i \in 1..2 : fin[i] = two[i])
      /\ \A i \in 1..c : fin[2 + i] = tail[i]
  BY <1>2, <1>3, <1>4, ListConcat
<1>8. /\ IsList(Q, b) /\ Q[1] = pre[1] /\ Q[2] = pre[2]
      /\ \A j \in 1..n : \A k \in 1..m : Q[2 + (m * (j - 1) + k)] = calls[j][k]
      /\ \A p \in 1..b : p \in 1..2 \/ \E j \in 1..n, k \in 1..m : p = 2 + (m * (j - 1) + k)
  BY <1>6 DEF LoopFollows
<1>9. \A j \in 1..n : \A k \in 1..m : 2 + (m * (j - 1) + k) \in 1..b
  <2> TAKE j \in 1..n
  <2> TAKE k \in 1..m
  <2>1. m * (j - 1) + k \in 1..(n * m)
    BY DivMod
  <2> QED BY <2>1, <1>5
<1>h. b >= 2
  BY <1>5
<1>i. b = 2 + n * m
  OBVIOUS
<1> HIDE DEF b
<1>10. /\ IsList(P, b + (2 + c)) /\ (\A i \in 1..b : P[i] = Q[i])
       /\ \A i \in 1..(2 + c) : P[b + i] = fin[i]
  <2> DEFINE d == 2 + c
  <2>1. IsList(fin, d) /\ IsList(Q, b) /\ Joined(P, Q, fin)
    BY <1>3, <1>7, <1>8
  <2> HIDE DEF d
  <2>2. IsList(P, b + d) /\ (\A i \in 1..b : P[i] = Q[i]) /\ \A i \in 1..d : P[b + i] = fin[i]
    BY <2>1, ListConcat
  <2> QED BY <2>2 DEF d
<1>11. P[1] = Sync(StreamNames) /\ P[2] = Mark(<<"start", 0>>, s)
  <2>1. 1 \in 1..b /\ 2 \in 1..b
    BY <1>5, <1>h
  <2> QED BY <2>1, <1>1, <1>8, <1>10
<1>12. \A j \in 1..n : \A k \in 1..m : P[2 + (m * (j - 1) + k)] = calls[j][k]
  BY <1>8, <1>9, <1>10
<1>13. P[b + 1] = Mark(<<"end", 0>>, t) /\ P[b + 2] = EventSync(<<"end", 0>>)
  <2>1. 1 \in 1..(2 + c) /\ 2 \in 1..(2 + c) /\ 1 \in 1..2 /\ 2 \in 1..2
    BY <1>5
  <2>2. P[b + 1] = fin[1] /\ P[b + 2] = fin[2] /\ fin[1] = two[1] /\ fin[2] = two[2]
    BY <2>1, <1>7, <1>10
  <2> QED BY <2>2, <1>2
<1>14. \A p \in (b + 3)..(b + (2 + c)) : \E e, f \in TimerEvents(n) : P[p] = ElapsedMs(e, f)
  <2> TAKE p \in (b + 3)..(b + (2 + c))
  <2>1. p - b - 2 \in 1..c /\ p - b \in 1..(2 + c) /\ b + (p - b) = p /\ 2 + (p - b - 2) = p - b
    BY <1>5
  <2>2. P[p] = tail[p - b - 2]
    BY <2>1, <1>7, <1>10
  <2> QED BY <1>4, <2>1, <2>2
<1>15. \A p \in 1..(b + (2 + c)) :
         p \in {1, 2, b + 1, b + 2} \/ p >= b + 3
           \/ \E j \in 1..n, k \in 1..m : p = 2 + (m * (j - 1) + k)
  <2> TAKE p \in 1..(b + (2 + c))
  <2>1. p \in 1..b \/ p = b + 1 \/ p = b + 2 \/ p >= b + 3
    BY <1>5
  <2>2. \A q \in 1..2 : q = 1 \/ q = 2
    OBVIOUS
  <2> QED BY <1>8, <2>1, <2>2
<1>16. c = n * 3 + 1 /\ c > 1
  BY DEF c
<1> DEFINE z == b + 1  N == b + (2 + c)
<1>17. Bench(P, n, m, calls, s, t, z, N)
  <2>1. z + 1 = b + 2 /\ z + 2 = b + 3 /\ N \in Nat /\ z + 1 < N /\ z = 2 + n * m + 1
    BY <1>5, <1>i, <1>16
  <2>2. IsList(P, N)
    BY <1>10
  <2>3. /\ P[z] = Mark(<<"end", 0>>, t) /\ P[z + 1] = EventSync(<<"end", 0>>)
        /\ \A p \in (z + 2)..N : \E e, f \in TimerEvents(n) : P[p] = ElapsedMs(e, f)
        /\ \A p \in 1..N :
             p \in {1, 2, z, z + 1} \/ p >= z + 2
               \/ \E j \in 1..n, k \in 1..m : p = 2 + (m * (j - 1) + k)
    BY <2>1, <1>13, <1>14, <1>15
  <2> HIDE DEF z, N
  <2> QED BY <2>1, <2>2, <2>3, <1>11, <1>12 DEF Bench
<1>18. z = 2 + n * m + 1 /\ N = 2 + n * m + (n * 3 + 3)
  BY <1>5, <1>i, <1>16
<1> QED BY <1>17, <1>18

\* What a turn is made of, with every timed event recorded in it.
Turns(calls, n, m) ==
  /\ \A j \in 1..n : \A k \in 1..m :
       /\ calls[j][k].do \in {"issue", "record", "wait"} /\ calls[j][k].stream \in StreamNames
       /\ calls[j][k].do # "issue" => calls[j][k].event \in EventNames
  /\ \A j \in 1..n : \A x \in {"c0", "c1", "k0", "k1", "d0", "d1"} :
       \E k \in 1..m : calls[j][k].do = "record" /\ calls[j][k].event = <<x, j>>

BenchShape(P, n, m, s, t, z, N) ==
  /\ z \in Nat /\ N \in Nat /\ 2 < z /\ z + 1 < N
  /\ DOMAIN P = 1..N /\ Len(P) = N /\ IsList(P, Len(P))
  /\ 2 \in Records(P, <<"start", 0>>) /\ P[2].stream = s /\ 2 \in Ops(P) /\ 2 \notin Issues(P)
  /\ z \in Records(P, <<"end", 0>>) /\ P[z].stream = t /\ z \in Ops(P) /\ z \notin Issues(P)
  /\ P[z + 1].do = "event_sync" /\ P[z + 1].event = <<"end", 0>>
  /\ \A j \in 1..n : \A k \in 1..m :
       /\ 2 + (m * (j - 1) + k) \in Ops(P) /\ 2 < 2 + (m * (j - 1) + k)
       /\ 2 + (m * (j - 1) + k) < z
  /\ \A p \in Ops(P) :
       p = 2 \/ p = z \/ \E j \in 1..n, k \in 1..m : p = 2 + (m * (j - 1) + k)
  /\ \A p \in DOMAIN P \ Ops(P) : P[p].do # "collect"
  /\ \A p \in DOMAIN P : P[p].do = "elapsed" => p > z + 1 /\ P[p].events \subseteq TimerEvents(n)

\* What each of these calls is to the order.
LEMMA BenchOps ==
  ASSUME NEW P, NEW n \in JobIds, NEW m \in Nat \ {0}, NEW calls, NEW s \in StreamNames,
         NEW t \in StreamNames, NEW z, NEW N,
         Bench(P, n, m, calls, s, t, z, N), Turns(calls, n, m)
  PROVE  BenchShape(P, n, m, s, t, z, N)
<1>0. n \in Nat \ {0}
  BY JobRange
<1>1. z \in Nat /\ N \in Nat /\ 2 < z /\ z + 1 < N /\ z = 2 + n * m + 1
  <2>1. n * m \in Nat
    BY <1>0
  <2> DEFINE b == n * m
  <2>2. z = 2 + b + 1 /\ N \in Nat /\ z + 1 < N /\ b \in Nat
    BY <2>1 DEF Bench
  <2> HIDE DEF b
  <2>3. z \in Nat /\ 2 < z
    BY <2>2
  <2> QED BY <2>2, <2>3 DEF b
<1>2. DOMAIN P = 1..N /\ Len(P) = N /\ IsList(P, Len(P))
  BY ListLen DEF Bench
<1>3. 1 \in DOMAIN P /\ 2 \in DOMAIN P /\ z \in DOMAIN P /\ z + 1 \in DOMAIN P
  BY <1>1, <1>2
<1>4. 2 \in Records(P, <<"start", 0>>) /\ P[2].stream = s /\ 2 \in Ops(P) /\ 2 \notin Issues(P)
  BY <1>3, MarkCall DEF Bench
<1>5. z \in Records(P, <<"end", 0>>) /\ P[z].stream = t /\ z \in Ops(P) /\ z \notin Issues(P)
  BY <1>3, MarkCall DEF Bench
<1>6. /\ P[z + 1].do = "event_sync" /\ P[z + 1].event = <<"end", 0>> /\ z + 1 \notin Ops(P)
      /\ P[1].do = "sync" /\ 1 \notin Ops(P)
  <2>1. P[z + 1] = EventSync(<<"end", 0>>) /\ P[1] = Sync(StreamNames)
    BY DEF Bench
  <2> QED BY <1>3, <2>1, HostCall
<1>7. \A p \in (z + 2)..N :
        p \notin Ops(P) /\ P[p].do = "elapsed" /\ P[p].events \subseteq TimerEvents(n)
  <2> SUFFICES ASSUME NEW p \in (z + 2)..N
               PROVE  p \notin Ops(P) /\ P[p].do = "elapsed" /\ P[p].events \subseteq TimerEvents(n)
    OBVIOUS
  <2>1. PICK e \in TimerEvents(n), f \in TimerEvents(n) : P[p] = ElapsedMs(e, f)
    BY DEF Bench
  <2>2. p \in DOMAIN P
    BY <1>1, <1>2
  <2>3. p \notin Ops(P) /\ P[p].do = "elapsed" /\ P[p].events = {e, f}
    BY <2>1, <2>2, HostCall
  <2> QED BY <2>3
<1>8. ASSUME NEW j \in 1..n, NEW k \in 1..m
      PROVE  /\ 2 + (m * (j - 1) + k) \in Ops(P) /\ 2 < 2 + (m * (j - 1) + k)
             /\ 2 + (m * (j - 1) + k) < z
  <2> DEFINE p == 2 + (m * (j - 1) + k)
  <2>1. m * (j - 1) + k \in 1..(n * m)
    BY <1>0, DivMod
  <2>2. p \in Int /\ 2 < p /\ p < z
    <3> DEFINE i == m * (j - 1) + k  b == n * m
    <3>1. i \in 1..b /\ b \in Nat /\ z = 2 + b + 1 /\ p = 2 + i
      BY <1>0, <1>1, <2>1
    <3> HIDE DEF i, b, p
    <3> QED BY <3>1
  <2>3. P[p].do \in {"issue", "record", "wait"}
    <3>1. P[p] = calls[j][k]
      BY DEF Bench
    <3>2. calls[j][k].do \in {"issue", "record", "wait"}
      BY DEF Turns
    <3> QED BY <3>1, <3>2
  <2> HIDE DEF p
  <2>4. p \in DOMAIN P
    BY <1>1, <1>2, <2>2
  <2>5. p \in Ops(P)
    BY <2>3, <2>4 DEF Ops
  <2> QED BY <2>2, <2>5 DEF p
<1>9. ASSUME NEW p \in DOMAIN P
      PROVE  \/ p \in {1, 2, z, z + 1} \/ p \in (z + 2)..N
             \/ \E j \in 1..n, k \in 1..m : p = 2 + (m * (j - 1) + k)
  <2>1. p \in 1..N
    BY <1>2
  <2>2. \/ p \in {1, 2, z, z + 1} \/ p >= z + 2
        \/ \E j \in 1..n, k \in 1..m : p = 2 + (m * (j - 1) + k)
    BY <2>1 DEF Bench
  <2>3. p >= z + 2 => p \in (z + 2)..N
    BY <2>1, <1>1
  <2> QED BY <2>2, <2>3
<1>10. \A p \in Ops(P) :
         p = 2 \/ p = z \/ \E j \in 1..n, k \in 1..m : p = 2 + (m * (j - 1) + k)
  BY <1>6, <1>7, <1>9 DEF Ops
<1>11. \A p \in DOMAIN P \ Ops(P) : P[p].do # "collect"
  <2> SUFFICES ASSUME NEW p \in DOMAIN P, p \notin Ops(P) PROVE P[p].do # "collect"
    OBVIOUS
  <2>0. p # 2 /\ p # z
    BY <1>4, <1>5
  <2>2. ASSUME NEW j \in 1..n, NEW k \in 1..m PROVE p # 2 + (m * (j - 1) + k)
    BY <1>8
  <2>1. p = 1 \/ p = z + 1 \/ p \in (z + 2)..N
    BY <1>9, <2>0, <2>2
  <2> QED BY <1>6, <1>7, <2>1
<1>12. ASSUME NEW p \in DOMAIN P, P[p].do = "elapsed"
       PROVE  p > z + 1 /\ P[p].events \subseteq TimerEvents(n)
  <2>1. p \notin Ops(P)
    BY <1>12 DEF Ops
  <2>2. p \in (z + 2)..N
    <3>1. p # 2 /\ p # z
      BY <1>4, <1>5, <2>1
    <3>2. p # 1 /\ p # z + 1
      BY <1>6, <1>12
    <3>3. ~ \E j \in 1..n, k \in 1..m : p = 2 + (m * (j - 1) + k)
      BY <1>8, <2>1
    <3> QED BY <1>9, <3>1, <3>2, <3>3
  <2> QED BY <1>1, <1>7, <2>2
<1> QED BY <1>1, <1>2, <1>4, <1>5, <1>6, <1>8, <1>10, <1>11, <1>12 DEF BenchShape

\* The end event is waited for, and then every timer is read.
LEMMA BenchTimers ==
  ASSUME NEW P, NEW n \in JobIds, NEW m \in Nat \ {0}, NEW calls, NEW s \in StreamNames,
         NEW t \in StreamNames, NEW z, NEW N,
         Bench(P, n, m, calls, s, t, z, N), Turns(calls, n, m),
         \A p \in Ops(P), h \in Int : z + 1 < h => Past(P, p, h)
  PROVE  CollectsLate(P) /\ TimersLate(P) /\ EndsQuiet(P)
<1>0. BenchShape(P, n, m, s, t, z, N)
  BY BenchOps
<1>1. /\ z \in Nat /\ N \in Nat /\ 2 < z /\ z + 1 < N /\ DOMAIN P = 1..N /\ Len(P) = N
      /\ 2 \in Records(P, <<"start", 0>>) /\ z \in Records(P, <<"end", 0>>)
  BY <1>0 DEF BenchShape
<1>2. /\ \A p \in DOMAIN P \ Ops(P) : P[p].do # "collect"
      /\ \A p \in DOMAIN P : P[p].do = "elapsed" =>
           p > z + 1 /\ P[p].events \subseteq TimerEvents(n)
  BY <1>0 DEF BenchShape
<1>3. \A j \in 1..n : \A k \in 1..m :
        2 + (m * (j - 1) + k) \in Ops(P) /\ 2 + (m * (j - 1) + k) < z
  BY <1>0 DEF BenchShape
<1>4. CollectsLate(P)
  BY <1>2 DEF CollectsLate, Ops
<1>5. EndsQuiet(P)
  BY <1>1 DEF EndsQuiet
<1>6. ASSUME NEW e \in TimerEvents(n) PROVE e \in EventNames /\ \E r \in Records(P, e) : r <= z
  <2>1. CASE e = <<"start", 0>> \/ e = <<"end", 0>>
    <3>1. e \in EventNames
      BY <2>1 DEF EventNames
    <3> QED BY <1>1, <2>1, <3>1
  <2>2. ASSUME NEW x \in {"c0", "c1", "k0", "k1", "d0", "d1"}, NEW j \in 1..n, e = <<x, j>>
        PROVE  e \in EventNames /\ \E r \in Records(P, e) : r <= z
    <3>1. j \in JobIds
      BY JobRange
    <3>2. e \in EventNames
      BY <2>2, <3>1, Names DEF JobEvents
    <3>3. PICK k \in 1..m : calls[j][k].do = "record" /\ calls[j][k].event = <<x, j>>
      BY DEF Turns
    <3> DEFINE r == 2 + (m * (j - 1) + k)
    <3>4. P[r] = calls[j][k]
      BY DEF Bench
    <3>5. r \in Ops(P) /\ r < z
      BY <1>3
    <3> HIDE DEF r
    <3>6. r \in Records(P, e)
      BY <2>2, <3>3, <3>4, <3>5 DEF Records
    <3>7. r <= z
      BY <1>1, <3>5 DEF Ops
    <3> QED BY <3>2, <3>6, <3>7
  <2> QED BY <2>1, <2>2 DEF TimerEvents
<1>7. TimersLate(P)
  <2> SUFFICES ASSUME NEW h \in DOMAIN P, P[h].do = "elapsed"
               PROVE  /\ \A p \in Ops(P) : p < h => Past(P, p, h)
                      /\ \A e \in P[h].events : e \in EventNames /\ \E r \in Records(P, e) : r < h
    BY DEF TimersLate
  <2>1. h \in Int /\ h > z + 1 /\ P[h].events \subseteq TimerEvents(n)
    BY <1>1, <1>2
  <2>3. ASSUME NEW e \in P[h].events PROVE e \in EventNames /\ \E r \in Records(P, e) : r < h
    <3>1. PICK r \in Records(P, e) : r <= z
      BY <1>6, <2>1
    <3>2. r \in Int
      BY <1>1 DEF Records, Ops
    <3>3. r < h
      BY <1>1, <2>1, <3>1, <3>2
    <3> QED BY <1>6, <2>1, <3>3
  <2> QED BY <2>1, <2>3
<1> QED BY <1>4, <1>5, <1>7

\* The kinds of calls are typed.
LEMMA BenchTyped ==
  ASSUME NEW P, NEW n \in JobIds, NEW m \in Nat \ {0}, NEW calls, NEW s \in StreamNames,
         NEW t \in StreamNames, NEW z, NEW N,
         Bench(P, n, m, calls, s, t, z, N), Turns(calls, n, m),
         \A q \in Issues(P) :
           /\ P[q].reads \in SUBSET LocationNames /\ P[q].reads # {}
           /\ P[q].writes \in LocationNames \ AllHostBuffers
           /\ P[q].writes \notin P[q].reads
  PROVE  Typed(P)
<1>0. BenchShape(P, n, m, s, t, z, N)
  BY BenchOps
<1>1. ASSUME NEW p \in Ops(P)
      PROVE  P[p].stream \in StreamNames /\ (p \notin Issues(P) => P[p].event \in EventNames)
  <2>1. CASE p = 2
    <3>1. 2 \in Records(P, <<"start", 0>>) /\ P[2].stream = s
      BY <1>0 DEF BenchShape
    <3>2. <<"start", 0>> \in EventNames
      BY DEF EventNames
    <3> QED BY <2>1, <3>1, <3>2 DEF Records
  <2>2. CASE p = z
    <3>1. z \in Records(P, <<"end", 0>>) /\ P[z].stream = t
      BY <1>0 DEF BenchShape
    <3>2. <<"end", 0>> \in EventNames
      BY DEF EventNames
    <3> QED BY <2>2, <3>1, <3>2 DEF Records
  <2>3. ASSUME NEW j \in 1..n, NEW k \in 1..m, p = 2 + (m * (j - 1) + k)
        PROVE  P[p].stream \in StreamNames /\ (p \notin Issues(P) => P[p].event \in EventNames)
    <3>1. P[p] = calls[j][k]
      BY <2>3 DEF Bench
    <3>2. P[p].stream \in StreamNames /\ (P[p].do # "issue" => P[p].event \in EventNames)
      BY <3>1 DEF Turns
    <3> QED BY <3>2 DEF Issues
  <2>4. p = 2 \/ p = z \/ \E j \in 1..n, k \in 1..m : p = 2 + (m * (j - 1) + k)
    BY <1>0 DEF BenchShape
  <2> QED BY <2>1, <2>2, <2>3, <2>4
<1> QED BY <1>1 DEF Typed

\* A turn over three streams: uploads at A and B, the kernel at G and the
\* download at D, ordered by the event of R and W and by that of U and V.
Overlap(calls, n, m, A, B, R, W, G, U, V, D, up, run, down, E, F) ==
  /\ A \in 1..m /\ B \in 1..m /\ R \in 1..m /\ W \in 1..m
  /\ G \in 1..m /\ U \in 1..m /\ V \in 1..m /\ D \in 1..m
  /\ A < R /\ B < R /\ R < W /\ W < G /\ G < U /\ U < V /\ V < D
  /\ \A j \in 1..n :
       /\ calls[j][A] = UploadA(up, j) /\ calls[j][B] = UploadB(up, j)
       /\ calls[j][R] = Mark(E[j], up) /\ calls[j][W] = Await(run, E[j])
       /\ calls[j][G] = Gemm(run, j)
       /\ calls[j][U] = Mark(F[j], run) /\ calls[j][V] = Await(down, F[j])
       /\ calls[j][D] = Download(down, j)
  /\ \A j \in 1..n : \A k \in 1..m :
       /\ calls[j][k].do = "issue" => k \in {A, B, G, D}
       /\ \/ calls[j][k].stream = up /\ k <= R
          \/ calls[j][k].stream = run /\ k <= U
          \/ calls[j][k].stream = down

At(n, m, k) == [j \in 1..n |-> 2 + (m * (j - 1) + k)]

\* The order of the calls within a turn, and of the turns.
LEMMA AtOrder ==
  ASSUME NEW n \in Nat \ {0}, NEW m \in Nat \ {0}
  PROVE  /\ \A k, l \in 1..m : \A j \in 1..n : k < l => At(n, m, k)[j] < At(n, m, l)[j]
         /\ \A k, l \in 1..m : \A j \in 1..n : k <= l => At(n, m, k)[j] <= At(n, m, l)[j]
         /\ \A k \in 1..m : \A i, j \in 1..n : i < j => At(n, m, k)[i] < At(n, m, k)[j]
         /\ \A k \in 1..m : \A j \in 1..n : At(n, m, k)[j] \in Int
<1>1. ASSUME NEW k \in 1..m, NEW l \in 1..m, NEW j \in 1..n
      PROVE  /\ k < l => At(n, m, k)[j] < At(n, m, l)[j]
             /\ k <= l => At(n, m, k)[j] <= At(n, m, l)[j]
             /\ At(n, m, k)[j] \in Int
  <2> DEFINE b == m * (j - 1)
  <2>1. b \in Int
    OBVIOUS
  <2>2. At(n, m, k)[j] = 2 + (b + k) /\ At(n, m, l)[j] = 2 + (b + l)
    BY DEF At
  <2> HIDE DEF b
  <2> QED BY <2>1, <2>2
<1>2. ASSUME NEW k \in 1..m, NEW i \in 1..n, NEW j \in 1..n, i < j
      PROVE  At(n, m, k)[i] < At(n, m, k)[j]
  <2> DEFINE b == m * (i - 1)  c == m * (j - 1)
  <2>1. b \in Int /\ c \in Int /\ b < c
    BY <1>2
  <2>2. At(n, m, k)[i] = 2 + (b + k) /\ At(n, m, k)[j] = 2 + (c + k)
    BY DEF At
  <2> HIDE DEF b, c
  <2> QED BY <2>1, <2>2
<1> QED BY <1>1, <1>2

\* The calls of an overlapped program are a chain, and its end event comes
\* after all of it.
LEMMA OverlapChain ==
  ASSUME NEW P, NEW n \in JobIds, NEW m \in Nat \ {0}, NEW calls, NEW s \in StreamNames,
         NEW z, NEW N, NEW A, NEW B, NEW R, NEW W, NEW G, NEW U, NEW V, NEW D,
         NEW up, NEW run, NEW down \in StreamNames, NEW E, NEW F,
         Overlap(calls, n, m, A, B, R, W, G, U, V, D, up, run, down, E, F),
         Bench(P, n, m, calls, s, down, z, N), Turns(calls, n, m), s = up \/ s = down
  PROVE  /\ Chain(P, n, At(n, m, A), At(n, m, B), At(n, m, R), At(n, m, W),
                  At(n, m, G), At(n, m, U), At(n, m, V), At(n, m, D))
         /\ \A p \in Ops(P), h \in Int : z + 1 < h => Past(P, p, h)
<1> DEFINE a == At(n, m, A)
           b == At(n, m, B)
           r == At(n, m, R)
           w == At(n, m, W)
           g == At(n, m, G)
           u == At(n, m, U)
           v == At(n, m, V)
           d == At(n, m, D)
<1>0. BenchShape(P, n, m, s, down, z, N)
  BY BenchOps
<1>1. /\ A \in 1..m /\ B \in 1..m /\ R \in 1..m /\ W \in 1..m
      /\ G \in 1..m /\ U \in 1..m /\ V \in 1..m /\ D \in 1..m
      /\ A < R /\ B < R /\ R < W /\ W < G /\ G < U /\ U < V /\ V < D
      /\ A < G /\ B < G /\ G < D /\ W < U
  BY DEF Overlap
<1>2. \A k \in 1..m : \A j \in 1..n :
        /\ P[At(n, m, k)[j]] = calls[j][k]
        /\ At(n, m, k)[j] \in Ops(P) /\ At(n, m, k)[j] \in DOMAIN P
        /\ 2 < At(n, m, k)[j] /\ At(n, m, k)[j] < z
  BY <1>0 DEF At, Bench, BenchShape, Ops
<1>3. ASSUME NEW p \in Ops(P), p # 2, p # z
      PROVE  \E j \in 1..n, k \in 1..m : p = At(n, m, k)[j] /\ P[p] = calls[j][k]
  BY <1>0, <1>2, <1>3, SMTT(30) DEF At, BenchShape
<1>4. n \in Nat \ {0} /\ 1 \in 1..n
  BY JobRange
<1>5. ASSUME NEW j \in 1..n
      PROVE  /\ a[j] < r[j] /\ b[j] < r[j] /\ r[j] < w[j] /\ w[j] < g[j] /\ w[j] < u[j]
             /\ g[j] < u[j] /\ u[j] < v[j] /\ v[j] < d[j]
             /\ a[j] < g[j] /\ b[j] < g[j] /\ g[j] < d[j] /\ v[j] < z
  BY <1>1, <1>2, <1>4, AtOrder
<1>6. \A i, j \in 1..n : i < j => d[i] < d[j]
  BY <1>1, <1>4, AtOrder
<1>7. \A q \in Issues(P) : \E j \in 1..n : q \in {a[j], b[j], g[j], d[j]}
  <2> SUFFICES ASSUME NEW q \in Issues(P) PROVE \E j \in 1..n : q \in {a[j], b[j], g[j], d[j]}
    OBVIOUS
  <2>1. q \in Ops(P) /\ P[q].do = "issue" /\ q # 2 /\ q # z
    BY <1>0 DEF BenchShape, Issues
  <2>2. PICK j \in 1..n, k \in 1..m : q = At(n, m, k)[j] /\ P[q] = calls[j][k]
    BY <1>3, <2>1
  <2>3. k \in {A, B, G, D}
    BY <2>1, <2>2 DEF Overlap
  <2> QED BY <2>2, <2>3
<1>a. ASSUME NEW j \in 1..n
      PROVE  /\ a[j] \in Issues(P) /\ P[a[j]].stream = up
             /\ P[a[j]].reads = {<<"ha", j>>} /\ P[a[j]].writes = <<"da", j>>
  <2>1. P[a[j]] = UploadA(up, j) /\ a[j] \in DOMAIN P
    BY <1>1, <1>2 DEF Overlap
  <2> HIDE DEF a
  <2> QED BY <2>1, JobIssue
<1>b. ASSUME NEW j \in 1..n
      PROVE  /\ b[j] \in Issues(P) /\ P[b[j]].stream = up
             /\ P[b[j]].reads = {<<"hb", j>>} /\ P[b[j]].writes = <<"db", j>>
  <2>1. P[b[j]] = UploadB(up, j) /\ b[j] \in DOMAIN P
    BY <1>1, <1>2 DEF Overlap
  <2> HIDE DEF b
  <2> QED BY <2>1, JobIssue
<1>g. ASSUME NEW j \in 1..n
      PROVE  /\ g[j] \in Issues(P) /\ P[g[j]].stream = run
             /\ P[g[j]].reads = {<<"da", j>>, <<"db", j>>} /\ P[g[j]].writes = <<"dc", j>>
  <2>1. P[g[j]] = Gemm(run, j) /\ g[j] \in DOMAIN P
    BY <1>1, <1>2 DEF Overlap
  <2> HIDE DEF g
  <2> QED BY <2>1, JobIssue
<1>d. ASSUME NEW j \in 1..n
      PROVE  /\ d[j] \in Issues(P) /\ P[d[j]].stream = down
             /\ P[d[j]].reads = {<<"dc", j>>} /\ P[d[j]].writes = <<"hc", j>>
  <2>1. P[d[j]] = Download(down, j) /\ d[j] \in DOMAIN P
    BY <1>1, <1>2 DEF Overlap
  <2> HIDE DEF d
  <2> QED BY <2>1, JobIssue
<1>r. ASSUME NEW j \in 1..n
      PROVE  /\ r[j] \in Records(P, P[w[j]].event) /\ w[j] \in Waits(P)
             /\ P[r[j]].stream = up /\ P[w[j]].stream = run
  <2>1. P[r[j]] = Mark(E[j], up) /\ r[j] \in DOMAIN P /\ P[w[j]] = Await(run, E[j]) /\ w[j] \in DOMAIN P
    BY <1>1, <1>2 DEF Overlap
  <2> HIDE DEF r, w
  <2>2. r[j] \in Records(P, E[j]) /\ P[r[j]].stream = up
    BY <2>1, MarkCall
  <2>3. w[j] \in Waits(P) /\ P[w[j]].event = E[j] /\ P[w[j]].stream = run
    BY <2>1, AwaitCall
  <2> QED BY <2>2, <2>3
<1>u. ASSUME NEW j \in 1..n
      PROVE  /\ u[j] \in Records(P, P[v[j]].event) /\ v[j] \in Waits(P)
             /\ P[u[j]].stream = run /\ P[v[j]].stream = down
  <2>1. P[u[j]] = Mark(F[j], run) /\ u[j] \in DOMAIN P /\ P[v[j]] = Await(down, F[j]) /\ v[j] \in DOMAIN P
    BY <1>1, <1>2 DEF Overlap
  <2> HIDE DEF u, v
  <2>2. u[j] \in Records(P, F[j]) /\ P[u[j]].stream = run
    BY <2>1, MarkCall
  <2>3. v[j] \in Waits(P) /\ P[v[j]].event = F[j] /\ P[v[j]].stream = down
    BY <2>1, AwaitCall
  <2> QED BY <2>2, <2>3
<1>8. \A j \in 1..n : \A k \in 1..m :
        /\ k <= R => At(n, m, k)[j] <= r[j]
        /\ k <= U => At(n, m, k)[j] <= u[j]
        /\ At(n, m, k)[j] \in Int
  BY <1>1, <1>4, AtOrder
<1>9. \A j \in 1..n : \A k \in 1..m :
        \/ calls[j][k].stream = up /\ k <= R
        \/ calls[j][k].stream = run /\ k <= U
        \/ calls[j][k].stream = down
  BY DEF Overlap
<1>10. Chain(P, n, a, b, r, w, g, u, v, d)
  <2> HIDE DEF a, b, r, w, g, u, v, d
  <2>1. \A i, j \in 1..n : i < j => d[i] < d[j] /\ P[d[i]].stream = P[d[j]].stream
    BY <1>6, <1>d
  <2>2. ASSUME NEW j \in 1..n
        PROVE  /\ a[j] \in Issues(P) /\ P[a[j]].reads = {<<"ha", j>>} /\ P[a[j]].writes = <<"da", j>>
               /\ b[j] \in Issues(P) /\ P[b[j]].reads = {<<"hb", j>>} /\ P[b[j]].writes = <<"db", j>>
    BY <1>a, <1>b
  <2>3. ASSUME NEW j \in 1..n
        PROVE  /\ g[j] \in Issues(P) /\ P[g[j]].reads = {<<"da", j>>, <<"db", j>>}
               /\ P[g[j]].writes = <<"dc", j>>
               /\ d[j] \in Issues(P) /\ P[d[j]].reads = {<<"dc", j>>} /\ P[d[j]].writes = <<"hc", j>>
    BY <1>g, <1>d
  <2>4. ASSUME NEW j \in 1..n
        PROVE  P[a[j]].stream = up /\ P[b[j]].stream = up /\ P[g[j]].stream = run /\ P[d[j]].stream = down
    BY <1>a, <1>b, <1>g, <1>d
  <2>5. ASSUME NEW j \in 1..n
        PROVE  /\ P[a[j]].stream = P[r[j]].stream /\ P[b[j]].stream = P[r[j]].stream
               /\ P[w[j]].stream = P[g[j]].stream /\ P[g[j]].stream = P[u[j]].stream
               /\ P[v[j]].stream = P[d[j]].stream
    BY <1>r, <1>u, <2>4
  <2>6. ASSUME NEW j \in 1..n
        PROVE  /\ w[j] \in Waits(P) /\ r[j] \in Records(P, P[w[j]].event)
               /\ v[j] \in Waits(P) /\ u[j] \in Records(P, P[v[j]].event)
    BY <1>r, <1>u
  <2> QED BY <1>5, <1>7, <2>1, <2>2, <2>3, <2>5, <2>6, Zenon DEF Chain
<1>11. ASSUME NEW p \in Ops(P), NEW h \in Int, z + 1 < h PROVE Past(P, p, h)
  <2>1. /\ z \in Records(P, <<"end", 0>>) /\ P[z].stream = down /\ z \in Ops(P)
        /\ z + 1 \in 1..(h - 1) /\ P[z + 1].do = "event_sync" /\ P[z + 1].event = <<"end", 0>>
        /\ z < z + 1 /\ z \in Int /\ 2 < z /\ P[2].stream = s
    BY <1>0, <1>11 DEF BenchShape
  <2>2. \/ p = z
        \/ p < z /\ P[p].stream = P[z].stream
        \/ \E i \in 1..n : p = u[i] \/ (p < u[i] /\ P[p].stream = P[u[i]].stream)
        \/ \E i \in 1..n : p = r[i] \/ (p < r[i] /\ P[p].stream = P[r[i]].stream)
    <3>1. CASE p = 2
      <4>1. CASE s = down
        BY <2>1, <3>1, <4>1
      <4>2. CASE s = up
        <5>1. 2 < r[1] /\ P[r[1]].stream = up
          BY <1>1, <1>2, <1>4, <1>r
        <5> QED BY <1>4, <2>1, <3>1, <4>2, <5>1
      <4> QED BY <4>1, <4>2
    <3>2. CASE p # 2 /\ p # z
      <4>1. PICK j \in 1..n, k \in 1..m : p = At(n, m, k)[j] /\ P[p] = calls[j][k]
        BY <1>3, <3>2
      <4>2. p < z /\ p \in Int
        BY <1>2, <1>8, <4>1
      <4>3. CASE calls[j][k].stream = up /\ k <= R
        <5>1. p <= r[j] /\ P[p].stream = P[r[j]].stream
          BY <1>8, <1>r, <4>1, <4>3
        <5>2. r[j] \in Int
          BY <1>1, <1>4, AtOrder
        <5> HIDE DEF r
        <5> QED BY <4>2, <5>1, <5>2
      <4>4. CASE calls[j][k].stream = run /\ k <= U
        <5>1. p <= u[j] /\ P[p].stream = P[u[j]].stream
          BY <1>8, <1>u, <4>1, <4>4
        <5>2. u[j] \in Int
          BY <1>1, <1>4, AtOrder
        <5> HIDE DEF u
        <5> QED BY <4>2, <5>1, <5>2
      <4>5. CASE calls[j][k].stream = down
        BY <2>1, <4>1, <4>2, <4>5
      <4> QED BY <1>9, <4>3, <4>4, <4>5
    <3> QED BY <3>1, <3>2
  <2>3. \A j \in 1..n : v[j] < z /\ P[v[j]].stream = P[z].stream /\ w[j] < u[j]
    BY <1>5, <1>u, <2>1
  <2> HIDE DEF a, b, r, w, g, u, v, d
  <2> DEFINE k == z + 1
  <2>4. /\ k \in 1..(h - 1) /\ P[k].do = "event_sync" /\ z \in Records(P, P[k].event) /\ z < k
    BY <2>1
  <2> HIDE DEF k
  <2> QED BY <1>10, <2>2, <2>3, <2>4, ChainPast
<1> QED BY <1>10, <1>11

\* What such a configuration orders.
LEMMA OverlapOrdered ==
  ASSUME NEW P, NEW n \in JobIds, NEW m \in Nat \ {0}, NEW calls, NEW s \in StreamNames,
         NEW z, NEW N, NEW A, NEW B, NEW R, NEW W, NEW G, NEW U, NEW V, NEW D,
         NEW up, NEW run, NEW down \in StreamNames, NEW E, NEW F,
         Overlap(calls, n, m, A, B, R, W, G, U, V, D, up, run, down, E, F),
         Bench(P, n, m, calls, s, down, z, N), Turns(calls, n, m), s = up \/ s = down
  PROVE  /\ IsList(P, Len(P)) /\ Typed(P) /\ InputsReady(P) /\ NoClobber(P) /\ CollectsLate(P)
         /\ TimersLate(P) /\ EndsQuiet(P) /\ ResultsInOrder(P, 1..n)
<1> DEFINE a == At(n, m, A)
           b == At(n, m, B)
           r == At(n, m, R)
           w == At(n, m, W)
           g == At(n, m, G)
           u == At(n, m, U)
           v == At(n, m, V)
           d == At(n, m, D)
<1>1. /\ Chain(P, n, a, b, r, w, g, u, v, d)
      /\ \A p \in Ops(P), h \in Int : z + 1 < h => Past(P, p, h)
  BY OverlapChain
<1>2. IsList(P, Len(P))
  BY BenchOps DEF BenchShape
<1>3. 1..n \subseteq JobIds
  BY JobRange
<1> HIDE DEF a, b, r, w, g, u, v, d
<1>4. InputsReady(P) /\ NoClobber(P) /\ ResultsInOrder(P, 1..n)
  BY <1>1, <1>3, ChainOrder
<1>5. \A q \in Issues(P) :
        /\ P[q].reads \in SUBSET LocationNames /\ P[q].reads # {}
        /\ P[q].writes \in LocationNames \ AllHostBuffers
        /\ P[q].writes \notin P[q].reads
  BY <1>1, <1>3, ChainTyped
<1>6. Typed(P)
  BY <1>5, BenchTyped
<1>7. CollectsLate(P) /\ TimersLate(P) /\ EndsQuiet(P)
  BY <1>1, BenchTimers
<1> QED BY <1>2, <1>4, <1>6, <1>7

\* Each event is recorded in one stream, told by its name.
LEMMA EventStreams ==
  ASSUME NEW P, NEW S,
         \A p \in Ops(P) : P[p].do = "record" =>
           \E x, j : P[p].event = <<x, j>> /\ P[p].stream = S[x]
  PROVE  OneStreamPerEvent(P)
BY DEF OneStreamPerEvent, Records

-----------------------------------------------------------------------------
\* The calls of a turn of run_double_buffer.
LEMMA DoubleBufferCalls ==
  ASSUME NEW j
  PROVE  /\ Len(DoubleBuffer(j)) = 12
         /\ DoubleBuffer(j)[1] = Mark(<<"c0", j>>, "h2d")
         /\ DoubleBuffer(j)[2] = UploadA("h2d", j)
         /\ DoubleBuffer(j)[3] = UploadB("h2d", j)
         /\ DoubleBuffer(j)[4] = Mark(<<"c1", j>>, "h2d")
         /\ DoubleBuffer(j)[5] = Await("compute", <<"c1", j>>)
         /\ DoubleBuffer(j)[6] = Mark(<<"k0", j>>, "compute")
         /\ DoubleBuffer(j)[7] = Gemm("compute", j)
         /\ DoubleBuffer(j)[8] = Mark(<<"k1", j>>, "compute")
         /\ DoubleBuffer(j)[9] = Await("d2h", <<"k1", j>>)
         /\ DoubleBuffer(j)[10] = Mark(<<"d0", j>>, "d2h")
         /\ DoubleBuffer(j)[11] = Download("d2h", j)
         /\ DoubleBuffer(j)[12] = Mark(<<"d1", j>>, "d2h")
BY DEF DoubleBuffer, TimedUpload, TimedGemm, TimedDownload

\* The fields of a call that the order of a program depends on.
LEMMA CallFields ==
  /\ \A s, j : /\ UploadA(s, j).do = "issue" /\ UploadA(s, j).stream = s
               /\ UploadB(s, j).do = "issue" /\ UploadB(s, j).stream = s
               /\ Gemm(s, j).do = "issue" /\ Gemm(s, j).stream = s
               /\ Download(s, j).do = "issue" /\ Download(s, j).stream = s
  /\ \A s, e : /\ Mark(e, s).do = "record" /\ Mark(e, s).stream = s /\ Mark(e, s).event = e
               /\ Await(s, e).do = "wait" /\ Await(s, e).stream = s /\ Await(s, e).event = e
BY DEF UploadA, UploadB, Gemm, Download, Issue, Mark, Await

\* Each timer of job j is recorded in the stream of its step.
TimerStream(c, j) ==
  \/ \E x \in {"c0", "c1"} : c.event = <<x, j>> /\ c.stream = "h2d"
  \/ \E x \in {"k0", "k1"} : c.event = <<x, j>> /\ c.stream = "compute"
  \/ \E x \in {"d0", "d1"} : c.event = <<x, j>> /\ c.stream = "d2h"

\* The kinds, streams and events of a turn of run_double_buffer.
LEMMA DoubleBufferFields ==
  ASSUME NEW n \in JobIds, NEW j \in 1..n, NEW k \in 1..12, NEW c, c = DoubleBuffer(j)[k]
  PROVE  /\ c.do \in {"issue", "record", "wait"} /\ c.stream \in StreamNames
         /\ c.do # "issue" => c.event \in EventNames
         /\ c.do = "issue" => k \in {2, 3, 7, 11}
         /\ \/ c.stream = "h2d" /\ k <= 4
            \/ c.stream = "compute" /\ k <= 8
            \/ c.stream = "d2h"
         /\ c.do = "record" => TimerStream(c, j)
<1>1. j \in JobIds
  BY JobRange
<1>2. {"h2d", "compute", "d2h"} \subseteq StreamNames
      /\ \A x \in {"c0", "c1", "k0", "k1", "d0", "d1"} : <<x, j>> \in EventNames
  BY <1>1, Names DEF JobEvents, StreamNames
<1>3. CASE k \in {2, 3, 7, 11}
  <2>1. k = 2 \/ k = 3 \/ k = 7 \/ k = 11
    BY <1>3
  <2>2. /\ k = 2 => c = UploadA("h2d", j)
        /\ k = 3 => c = UploadB("h2d", j)
        /\ k = 7 => c = Gemm("compute", j)
        /\ k = 11 => c = Download("d2h", j)
    BY DoubleBufferCalls
  <2>3. /\ c.do = "issue" /\ k \in {2, 3, 7, 11}
        /\ \/ c.stream = "h2d" /\ k <= 4
           \/ c.stream = "compute" /\ k <= 8
           \/ c.stream = "d2h"
    BY <2>1, <2>2, CallFields
  <2> QED BY <1>2, <2>3
<1>4. CASE k \in {5, 9}
  <2>1. \/ k = 5 /\ c = Await("compute", <<"c1", j>>)
        \/ k = 9 /\ c = Await("d2h", <<"k1", j>>)
    BY <1>4, DoubleBufferCalls
  <2>2. /\ c.do = "wait" /\ c.event \in {<<"c1", j>>, <<"k1", j>>}
        /\ \/ c.stream = "compute" /\ k <= 8
           \/ c.stream = "d2h"
    BY <2>1, CallFields
  <2> QED BY <1>2, <2>2
<1>5. CASE k \in {1, 4, 6, 8, 10, 12}
  <2>1. \/ k \in {1, 4} /\ \E x \in {"c0", "c1"} : c = Mark(<<x, j>>, "h2d")
        \/ k \in {6, 8} /\ \E x \in {"k0", "k1"} : c = Mark(<<x, j>>, "compute")
        \/ k \in {10, 12} /\ \E x \in {"d0", "d1"} : c = Mark(<<x, j>>, "d2h")
    BY <1>5, DoubleBufferCalls
  <2>2. CASE k \in {1, 4} /\ \E x \in {"c0", "c1"} : c = Mark(<<x, j>>, "h2d")
    <3>1. PICK x \in {"c0", "c1"} : c = Mark(<<x, j>>, "h2d")
      BY <2>2
    <3>2. c.do = "record" /\ c.stream = "h2d" /\ c.event = <<x, j>> /\ k <= 4
      BY <2>2, <3>1, CallFields
    <3>3. TimerStream(c, j)
      BY <3>2 DEF TimerStream
    <3> QED BY <1>2, <3>2, <3>3
  <2>3. CASE k \in {6, 8} /\ \E x \in {"k0", "k1"} : c = Mark(<<x, j>>, "compute")
    <3>1. PICK x \in {"k0", "k1"} : c = Mark(<<x, j>>, "compute")
      BY <2>3
    <3>2. c.do = "record" /\ c.stream = "compute" /\ c.event = <<x, j>> /\ k <= 8
      BY <2>3, <3>1, CallFields
    <3>3. TimerStream(c, j)
      BY <3>2 DEF TimerStream
    <3> QED BY <1>2, <3>2, <3>3
  <2>4. CASE k \in {10, 12} /\ \E x \in {"d0", "d1"} : c = Mark(<<x, j>>, "d2h")
    <3>1. PICK x \in {"d0", "d1"} : c = Mark(<<x, j>>, "d2h")
      BY <2>4
    <3>2. c.do = "record" /\ c.stream = "d2h" /\ c.event = <<x, j>>
      BY <3>1, CallFields
    <3>3. TimerStream(c, j)
      BY <3>2 DEF TimerStream
    <3> QED BY <1>2, <3>2, <3>3
  <2> QED BY <2>1, <2>2, <2>3, <2>4
<1> QED BY <1>3, <1>4, <1>5

\* run_double_buffer: c1 and k1 order its three streams.
LEMMA DoubleBufferOrdered ==
  ASSUME NEW n \in JobIds
  PROVE  WellOrdered(RunDoubleBuffer(n), "double_buffer", 1..n)
<1> DEFINE P == RunDoubleBuffer(n)
           calls == [j \in 1..n |-> DoubleBuffer(j)]
           Q == Start("h2d") \o ForJobs(calls)
           z == 2 + n * 12 + 1
           N == 2 + n * 12 + (n * 3 + 3)
           E == [j \in 1..n |-> <<"c1", j>>]
           F == [j \in 1..n |-> <<"k1", j>>]
<1>1. n \in Nat \ {0} /\ 1 \in 1..n /\ 12 \in Nat \ {0} /\ "h2d" \in StreamNames /\ "d2h" \in StreamNames
  BY JobRange DEF StreamNames
<1>2. Joined(Q, Start("h2d"), ForJobs(calls)) /\ Joined(P, Q, Finish("d2h", n))
  BY DEF RunDoubleBuffer, Joined
<1> HIDE DEF P, Q
<1>3. IsList(calls, n) /\ Len(calls[1]) = 12
  BY <1>1, DoubleBufferCalls DEF IsList
<1>4. \A j \in 1..n : calls[j] = DoubleBuffer(j) /\ E[j] = <<"c1", j>> /\ F[j] = <<"k1", j>>
  OBVIOUS
<1> HIDE DEF calls, E, F
<1>5. Bench(P, n, 12, calls, "h2d", "d2h", z, N)
  BY <1>1, <1>2, <1>3, BenchCalls
<1> HIDE DEF z, N
<1>6. Overlap(calls, n, 12, 2, 3, 4, 5, 7, 8, 9, 11, "h2d", "compute", "d2h", E, F)
  <2>1. ASSUME NEW j \in 1..n
        PROVE  /\ calls[j][2] = UploadA("h2d", j) /\ calls[j][3] = UploadB("h2d", j)
               /\ calls[j][4] = Mark(E[j], "h2d") /\ calls[j][5] = Await("compute", E[j])
               /\ calls[j][7] = Gemm("compute", j)
               /\ calls[j][8] = Mark(F[j], "compute") /\ calls[j][9] = Await("d2h", F[j])
               /\ calls[j][11] = Download("d2h", j)
    BY <1>4, DoubleBufferCalls
  <2>2. ASSUME NEW j \in 1..n, NEW k \in 1..12
        PROVE  /\ calls[j][k].do = "issue" => k \in {2, 3, 7, 11}
               /\ \/ calls[j][k].stream = "h2d" /\ k <= 4
                  \/ calls[j][k].stream = "compute" /\ k <= 8
                  \/ calls[j][k].stream = "d2h"
    BY <1>4, DoubleBufferFields
  <2> QED BY <2>1, <2>2 DEF Overlap
<1>7. Turns(calls, n, 12)
  <2>1. ASSUME NEW j \in 1..n, NEW k \in 1..12
        PROVE  /\ calls[j][k].do \in {"issue", "record", "wait"} /\ calls[j][k].stream \in StreamNames
               /\ calls[j][k].do # "issue" => calls[j][k].event \in EventNames
    BY <1>4, DoubleBufferFields
  <2>2. ASSUME NEW j \in 1..n, NEW x \in {"c0", "c1", "k0", "k1", "d0", "d1"}
        PROVE  \E k \in 1..12 : calls[j][k].do = "record" /\ calls[j][k].event = <<x, j>>
    <3>1. /\ calls[j][1] = Mark(<<"c0", j>>, "h2d") /\ calls[j][4] = Mark(<<"c1", j>>, "h2d")
          /\ calls[j][6] = Mark(<<"k0", j>>, "compute") /\ calls[j][8] = Mark(<<"k1", j>>, "compute")
          /\ calls[j][10] = Mark(<<"d0", j>>, "d2h") /\ calls[j][12] = Mark(<<"d1", j>>, "d2h")
      BY <1>4, DoubleBufferCalls
    <3>2. /\ calls[j][1].do = "record" /\ calls[j][1].event = <<"c0", j>>
          /\ calls[j][4].do = "record" /\ calls[j][4].event = <<"c1", j>>
          /\ calls[j][6].do = "record" /\ calls[j][6].event = <<"k0", j>>
          /\ calls[j][8].do = "record" /\ calls[j][8].event = <<"k1", j>>
          /\ calls[j][10].do = "record" /\ calls[j][10].event = <<"d0", j>>
          /\ calls[j][12].do = "record" /\ calls[j][12].event = <<"d1", j>>
      BY <3>1, CallFields
    <3> QED BY <3>2
  <2> QED BY <2>1, <2>2 DEF Turns
<1>8. /\ IsList(P, Len(P)) /\ Typed(P) /\ InputsReady(P) /\ NoClobber(P) /\ CollectsLate(P)
      /\ TimersLate(P) /\ EndsQuiet(P) /\ ResultsInOrder(P, 1..n)
  BY <1>1, <1>5, <1>6, <1>7, OverlapOrdered
<1>9. OneStreamPerEvent(P)
  <2> DEFINE S == [x \in {"c0", "c1", "k0", "k1", "d0", "d1", "start", "end"} |->
                     IF x \in {"c0", "c1", "start"} THEN "h2d"
                     ELSE IF x \in {"k0", "k1"} THEN "compute" ELSE "d2h"]
  <2>0. BenchShape(P, n, 12, "h2d", "d2h", z, N)
    BY <1>1, <1>5, <1>7, BenchOps
  <2>t. ASSUME NEW j \in 1..n, NEW k \in 1..12, NEW c, c = DoubleBuffer(j)[k], c.do = "record"
        PROVE  TimerStream(c, j)
    BY <2>t, DoubleBufferFields
  <2>s. /\ \A x \in {"c0", "c1", "start"} : S[x] = "h2d"
        /\ \A x \in {"k0", "k1"} : S[x] = "compute"
        /\ \A x \in {"d0", "d1", "end"} : S[x] = "d2h"
    OBVIOUS
  <2> HIDE DEF S
  <2> SUFFICES ASSUME NEW p \in Ops(P), P[p].do = "record"
               PROVE  \E x, j : P[p].event = <<x, j>> /\ P[p].stream = S[x]
    BY EventStreams
  <2>1. CASE p = 2
    BY <2>0, <2>1, <2>s DEF BenchShape, Records
  <2>2. CASE p = z
    BY <2>0, <2>2, <2>s DEF BenchShape, Records
  <2>3. ASSUME NEW j \in 1..n, NEW k \in 1..12, p = 2 + (12 * (j - 1) + k)
        PROVE  \E x, i : P[p].event = <<x, i>> /\ P[p].stream = S[x]
    <3>1. P[p] = DoubleBuffer(j)[k]
      BY <1>4, <1>5, <2>3 DEF Bench
    <3>2. TimerStream(P[p], j)
      BY <2>t, <3>1
    <3> QED BY <3>2, <2>s, SMTT(30) DEF TimerStream
  <2> QED BY <2>0, <2>1, <2>2, <2>3 DEF BenchShape
<1>10. WellOrdered(P, "double_buffer", 1..n)
  BY <1>8, <1>9 DEF WellOrdered, Control
<1> QED BY <1>10 DEF P

-----------------------------------------------------------------------------
\* The calls of a turn of run_pinned_overlap.
LEMMA PinnedOverlapCalls ==
  ASSUME NEW j
  PROVE  /\ Len(PinnedOverlap(j)) = 14
         /\ PinnedOverlap(j)[1] = Mark(<<"c0", j>>, "copy")
         /\ PinnedOverlap(j)[2] = UploadA("copy", j)
         /\ PinnedOverlap(j)[3] = UploadB("copy", j)
         /\ PinnedOverlap(j)[4] = Mark(<<"c1", j>>, "copy")
         /\ PinnedOverlap(j)[5] = Mark(<<"ev_h2d", 0>>, "copy")
         /\ PinnedOverlap(j)[6] = Await("compute", <<"ev_h2d", 0>>)
         /\ PinnedOverlap(j)[7] = Mark(<<"k0", j>>, "compute")
         /\ PinnedOverlap(j)[8] = Gemm("compute", j)
         /\ PinnedOverlap(j)[9] = Mark(<<"k1", j>>, "compute")
         /\ PinnedOverlap(j)[10] = Mark(<<"ev_kern", 0>>, "compute")
         /\ PinnedOverlap(j)[11] = Await("copy", <<"ev_kern", 0>>)
         /\ PinnedOverlap(j)[12] = Mark(<<"d0", j>>, "copy")
         /\ PinnedOverlap(j)[13] = Download("copy", j)
         /\ PinnedOverlap(j)[14] = Mark(<<"d1", j>>, "copy")
BY DEF PinnedOverlap, TimedUpload, TimedGemm, TimedDownload

\* The kinds, streams and events of a turn of run_pinned_overlap.
LEMMA PinnedOverlapFields ==
  ASSUME NEW n \in JobIds, NEW j \in 1..n, NEW k \in 1..14, NEW c, c = PinnedOverlap(j)[k]
  PROVE  /\ c.do \in {"issue", "record", "wait"} /\ c.stream \in StreamNames
         /\ c.do # "issue" => c.event \in EventNames
         /\ c.do = "issue" => k \in {2, 3, 8, 13}
         /\ \/ c.stream = "copy" /\ k <= 5
            \/ c.stream = "compute" /\ k <= 10
            \/ c.stream = "copy"
         /\ c.do = "record" =>
              \/ \E x \in {"c0", "c1", "d0", "d1"} : c.event = <<x, j>> /\ c.stream = "copy"
              \/ \E x \in {"k0", "k1"} : c.event = <<x, j>> /\ c.stream = "compute"
              \/ c.event = <<"ev_h2d", 0>> /\ c.stream = "copy"
              \/ c.event = <<"ev_kern", 0>> /\ c.stream = "compute"
<1>1. j \in JobIds
  BY JobRange
<1>2. {"copy", "compute"} \subseteq StreamNames
      /\ (\A x \in {"c0", "c1", "k0", "k1", "d0", "d1"} : <<x, j>> \in EventNames)
      /\ <<"ev_h2d", 0>> \in EventNames /\ <<"ev_kern", 0>> \in EventNames
  BY <1>1, Names DEF JobEvents, StreamNames
<1>3. CASE k \in {2, 3, 8, 13}
  <2>1. k = 2 \/ k = 3 \/ k = 8 \/ k = 13
    BY <1>3
  <2>2. /\ k = 2 => c = UploadA("copy", j)
        /\ k = 3 => c = UploadB("copy", j)
        /\ k = 8 => c = Gemm("compute", j)
        /\ k = 13 => c = Download("copy", j)
    BY PinnedOverlapCalls
  <2>3. /\ c.do = "issue" /\ k \in {2, 3, 8, 13}
        /\ \/ c.stream = "compute" /\ k <= 10
           \/ c.stream = "copy"
    BY <2>1, <2>2, CallFields
  <2> QED BY <1>2, <2>3
<1>4. CASE k \in {6, 11}
  <2>1. \/ k = 6 /\ c = Await("compute", <<"ev_h2d", 0>>)
        \/ k = 11 /\ c = Await("copy", <<"ev_kern", 0>>)
    BY <1>4, PinnedOverlapCalls
  <2>2. /\ c.do = "wait" /\ c.event \in {<<"ev_h2d", 0>>, <<"ev_kern", 0>>}
        /\ \/ c.stream = "compute" /\ k <= 10
           \/ c.stream = "copy"
    BY <2>1, CallFields
  <2> QED BY <1>2, <2>2
<1>5. CASE k \in {1, 4, 7, 9, 12, 14}
  <2>1. \/ \E x \in {"c0", "c1", "d0", "d1"} : c = Mark(<<x, j>>, "copy")
        \/ k \in {7, 9} /\ \E x \in {"k0", "k1"} : c = Mark(<<x, j>>, "compute")
    BY <1>5, PinnedOverlapCalls
  <2>2. CASE \E x \in {"c0", "c1", "d0", "d1"} : c = Mark(<<x, j>>, "copy")
    <3>1. PICK x \in {"c0", "c1", "d0", "d1"} : c = Mark(<<x, j>>, "copy")
      BY <2>2
    <3>2. c.do = "record" /\ c.stream = "copy" /\ c.event = <<x, j>>
      BY <3>1, CallFields
    <3> QED BY <1>2, <3>2
  <2>3. CASE k \in {7, 9} /\ \E x \in {"k0", "k1"} : c = Mark(<<x, j>>, "compute")
    <3>1. PICK x \in {"k0", "k1"} : c = Mark(<<x, j>>, "compute")
      BY <2>3
    <3>2. c.do = "record" /\ c.stream = "compute" /\ c.event = <<x, j>> /\ k <= 10
      BY <2>3, <3>1, CallFields
    <3> QED BY <1>2, <3>2
  <2> QED BY <2>1, <2>2, <2>3
<1>6. CASE k = 5
  <2>0. c = Mark(<<"ev_h2d", 0>>, "copy")
    BY <1>6, PinnedOverlapCalls
  <2>1. c.do = "record" /\ c.stream = "copy" /\ c.event = <<"ev_h2d", 0>>
    BY <2>0, CallFields
  <2> QED BY <1>2, <2>1
<1>7. CASE k = 10
  <2>0. c = Mark(<<"ev_kern", 0>>, "compute")
    BY <1>7, PinnedOverlapCalls
  <2>1. c.do = "record" /\ c.stream = "compute" /\ c.event = <<"ev_kern", 0>> /\ k <= 10
    BY <1>7, <2>0, CallFields
  <2> QED BY <1>2, <2>1
<1> QED BY <1>3, <1>4, <1>5, <1>6, <1>7

\* An upload or a download that overtook a kernel would pass its wait.
OneCopyStream(P, n, a, b, r, w, g, u, v, d, up, run) ==
  /\ \A j \in 1..n :
       /\ P[a[j]].stream = up /\ P[b[j]].stream = up /\ P[d[j]].stream = up
       /\ P[r[j]].stream = up /\ P[v[j]].stream = up
       /\ P[g[j]].stream = run /\ P[w[j]].stream = run /\ P[u[j]].stream = run
  /\ \A i, j \in 1..n : \A p \in {a[i], b[i], d[i]} :
       (p < g[j] => p < r[j]) /\ (g[j] < p => v[j] < p)

\* Then nothing overlaps: the upload of a job is behind the download of the one
\* before, which waits for its kernel.
LEMMA OneCopyStreamSerial ==
  ASSUME NEW P, NEW n, NEW a, NEW b, NEW r, NEW w, NEW g, NEW u, NEW v, NEW d, NEW up, NEW run,
         Chain(P, n, a, b, r, w, g, u, v, d),
         OneCopyStream(P, n, a, b, r, w, g, u, v, d, up, run)
  PROVE  Serial(P)
<1> SUFFICES ASSUME NEW p \in Issues(P), NEW q \in Issues(P), p < q, P[p].stream # P[q].stream
             PROVE  Before(P, p, q)
  BY DEF Serial
<1>1. PICK i \in 1..n : p \in {a[i], b[i], g[i], d[i]}
  BY DEF Chain
<1>2. PICK j \in 1..n : q \in {a[j], b[j], g[j], d[j]}
  BY DEF Chain
<1>3. CASE q = g[j] /\ p \in {a[i], b[i], d[i]}
  <2>1. p < r[j] /\ P[p].stream = P[r[j]].stream /\ p \in Ops(P)
    BY <1>3 DEF Issues, OneCopyStream
  <2>2. /\ r[j] < w[j] /\ w[j] < q /\ w[j] \in Waits(P) /\ r[j] \in Records(P, P[w[j]].event)
        /\ P[w[j]].stream = P[q].stream
    BY <1>3 DEF Chain
  <2> QED BY <2>1, <2>2, BeforeByEvent
<1>4. CASE p = g[i] /\ q \in {a[j], b[j], d[j]}
  <2>1. v[i] < q /\ P[v[i]].stream = P[q].stream /\ p \in Ops(P)
    BY <1>4 DEF Issues, OneCopyStream
  <2>2. /\ p < u[i] /\ u[i] < v[i] /\ v[i] \in Waits(P) /\ u[i] \in Records(P, P[v[i]].event)
        /\ P[p].stream = P[u[i]].stream
    BY <1>4 DEF Chain
  <2> QED BY <2>1, <2>2, BeforeByEvent
<1>5. ~(p = g[i] /\ q = g[j]) /\ ~(p \in {a[i], b[i], d[i]} /\ q \in {a[j], b[j], d[j]})
  BY DEF OneCopyStream
<1> QED BY <1>1, <1>2, <1>3, <1>4, <1>5

\* A copy that precedes a kernel precedes the record the kernel waits for, and
\* one that follows a kernel follows the wait for it.
LEMMA AtGaps ==
  ASSUME NEW n \in Nat, NEW i \in 1..n, NEW j \in 1..n
  PROVE  \A k \in {2, 3, 13} :
           /\ At(n, 14, k)[i] < At(n, 14, 8)[j] => At(n, 14, k)[i] < At(n, 14, 5)[j]
           /\ At(n, 14, 8)[j] < At(n, 14, k)[i] => At(n, 14, 11)[j] < At(n, 14, k)[i]
<1> TAKE k \in {2, 3, 13}
<1>1. /\ At(n, 14, k)[i] = 2 + (14 * (i - 1) + k) /\ At(n, 14, 8)[j] = 2 + (14 * (j - 1) + 8)
      /\ At(n, 14, 5)[j] = 2 + (14 * (j - 1) + 5) /\ At(n, 14, 11)[j] = 2 + (14 * (j - 1) + 11)
  BY DEF At
<1> QED BY <1>1

\* run_pinned_overlap: ev_h2d and ev_kern, recorded again for every job, order
\* its two streams.
LEMMA PinnedOverlapOrdered ==
  ASSUME NEW n \in JobIds
  PROVE  WellOrdered(RunPinnedOverlap(n), "copy_compute", 1..n)
<1> DEFINE P == RunPinnedOverlap(n)
           calls == [j \in 1..n |-> PinnedOverlap(j)]
           Q == Start("copy") \o ForJobs(calls)
           z == 2 + n * 14 + 1
           N == 2 + n * 14 + (n * 3 + 3)
           E == [j \in 1..n |-> <<"ev_h2d", 0>>]
           F == [j \in 1..n |-> <<"ev_kern", 0>>]
<1>1. n \in Nat \ {0} /\ 1 \in 1..n /\ 14 \in Nat \ {0} /\ "copy" \in StreamNames
  BY JobRange DEF StreamNames
<1>2. Joined(Q, Start("copy"), ForJobs(calls)) /\ Joined(P, Q, Finish("copy", n))
  BY DEF RunPinnedOverlap, Joined
<1> HIDE DEF P, Q
<1>3. IsList(calls, n) /\ Len(calls[1]) = 14
  BY <1>1, PinnedOverlapCalls DEF IsList
<1>4. \A j \in 1..n : calls[j] = PinnedOverlap(j) /\ E[j] = <<"ev_h2d", 0>> /\ F[j] = <<"ev_kern", 0>>
  OBVIOUS
<1> HIDE DEF calls, E, F
<1>5. Bench(P, n, 14, calls, "copy", "copy", z, N)
  BY <1>1, <1>2, <1>3, BenchCalls
<1> HIDE DEF z, N
<1>6. Overlap(calls, n, 14, 2, 3, 5, 6, 8, 10, 11, 13, "copy", "compute", "copy", E, F)
  <2>1. ASSUME NEW j \in 1..n
        PROVE  /\ calls[j][2] = UploadA("copy", j) /\ calls[j][3] = UploadB("copy", j)
               /\ calls[j][5] = Mark(E[j], "copy") /\ calls[j][6] = Await("compute", E[j])
               /\ calls[j][8] = Gemm("compute", j)
               /\ calls[j][10] = Mark(F[j], "compute") /\ calls[j][11] = Await("copy", F[j])
               /\ calls[j][13] = Download("copy", j)
    <3>1. calls[j] = PinnedOverlap(j) /\ E[j] = <<"ev_h2d", 0>> /\ F[j] = <<"ev_kern", 0>>
      BY <1>4
    <3> QED BY <3>1, PinnedOverlapCalls
  <2>2. ASSUME NEW j \in 1..n, NEW k \in 1..14
        PROVE  /\ calls[j][k].do = "issue" => k \in {2, 3, 8, 13}
               /\ \/ calls[j][k].stream = "copy" /\ k <= 5
                  \/ calls[j][k].stream = "compute" /\ k <= 10
                  \/ calls[j][k].stream = "copy"
    BY <1>4, PinnedOverlapFields
  <2> QED BY <2>1, <2>2 DEF Overlap
<1>7. Turns(calls, n, 14)
  <2>1. ASSUME NEW j \in 1..n, NEW k \in 1..14
        PROVE  /\ calls[j][k].do \in {"issue", "record", "wait"} /\ calls[j][k].stream \in StreamNames
               /\ calls[j][k].do # "issue" => calls[j][k].event \in EventNames
    BY <1>4, PinnedOverlapFields
  <2>2. ASSUME NEW j \in 1..n, NEW x \in {"c0", "c1", "k0", "k1", "d0", "d1"}
        PROVE  \E k \in 1..14 : calls[j][k].do = "record" /\ calls[j][k].event = <<x, j>>
    <3>1. /\ calls[j][1] = Mark(<<"c0", j>>, "copy") /\ calls[j][4] = Mark(<<"c1", j>>, "copy")
          /\ calls[j][7] = Mark(<<"k0", j>>, "compute") /\ calls[j][9] = Mark(<<"k1", j>>, "compute")
          /\ calls[j][12] = Mark(<<"d0", j>>, "copy") /\ calls[j][14] = Mark(<<"d1", j>>, "copy")
      BY <1>4, PinnedOverlapCalls
    <3>2. /\ calls[j][1].do = "record" /\ calls[j][1].event = <<"c0", j>>
          /\ calls[j][4].do = "record" /\ calls[j][4].event = <<"c1", j>>
          /\ calls[j][7].do = "record" /\ calls[j][7].event = <<"k0", j>>
          /\ calls[j][9].do = "record" /\ calls[j][9].event = <<"k1", j>>
          /\ calls[j][12].do = "record" /\ calls[j][12].event = <<"d0", j>>
          /\ calls[j][14].do = "record" /\ calls[j][14].event = <<"d1", j>>
      BY <3>1, CallFields
    <3> QED BY <3>2
  <2> QED BY <2>1, <2>2 DEF Turns
<1>8. /\ IsList(P, Len(P)) /\ Typed(P) /\ InputsReady(P) /\ NoClobber(P) /\ CollectsLate(P)
      /\ TimersLate(P) /\ EndsQuiet(P) /\ ResultsInOrder(P, 1..n)
  BY <1>1, <1>5, <1>6, <1>7, OverlapOrdered
<1>9. OneStreamPerEvent(P)
  <2> DEFINE S == [x \in {"c0", "c1", "k0", "k1", "d0", "d1", "start", "end", "ev_h2d", "ev_kern"} |->
                     IF x \in {"k0", "k1", "ev_kern"} THEN "compute" ELSE "copy"]
  <2>0. BenchShape(P, n, 14, "copy", "copy", z, N)
    BY <1>1, <1>5, <1>7, BenchOps
  <2>s. /\ \A x \in {"c0", "c1", "d0", "d1", "start", "end", "ev_h2d"} : S[x] = "copy"
        /\ \A x \in {"k0", "k1", "ev_kern"} : S[x] = "compute"
    OBVIOUS
  <2> HIDE DEF S
  <2> SUFFICES ASSUME NEW p \in Ops(P), P[p].do = "record"
               PROVE  \E x, j : P[p].event = <<x, j>> /\ P[p].stream = S[x]
    BY EventStreams
  <2>1. CASE p = 2
    BY <2>0, <2>1, <2>s DEF BenchShape, Records
  <2>2. CASE p = z
    BY <2>0, <2>2, <2>s DEF BenchShape, Records
  <2>3. ASSUME NEW j \in 1..n, NEW k \in 1..14, p = 2 + (14 * (j - 1) + k)
        PROVE  \E x, i : P[p].event = <<x, i>> /\ P[p].stream = S[x]
    <3>1. P[p] = PinnedOverlap(j)[k]
      BY <1>4, <1>5, <2>3 DEF Bench
    <3>2. \/ \E x \in {"c0", "c1", "d0", "d1"} : P[p].event = <<x, j>> /\ P[p].stream = "copy"
          \/ \E x \in {"k0", "k1"} : P[p].event = <<x, j>> /\ P[p].stream = "compute"
          \/ P[p].event = <<"ev_h2d", 0>> /\ P[p].stream = "copy"
          \/ P[p].event = <<"ev_kern", 0>> /\ P[p].stream = "compute"
      BY <3>1, PinnedOverlapFields
    <3> QED BY <3>2, <2>s
  <2> QED BY <2>0, <2>1, <2>2, <2>3 DEF BenchShape
<1>10. Serial(P)
  <2> DEFINE a == At(n, 14, 2)
             b == At(n, 14, 3)
             r == At(n, 14, 5)
             w == At(n, 14, 6)
             g == At(n, 14, 8)
             u == At(n, 14, 10)
             v == At(n, 14, 11)
             d == At(n, 14, 13)
  <2>1. Chain(P, n, a, b, r, w, g, u, v, d)
    BY <1>1, <1>5, <1>6, <1>7, OverlapChain
  <2>2. ASSUME NEW j \in 1..n
        PROVE  /\ P[a[j]].stream = "copy" /\ P[b[j]].stream = "copy" /\ P[d[j]].stream = "copy"
               /\ P[r[j]].stream = "copy" /\ P[v[j]].stream = "copy"
               /\ P[g[j]].stream = "compute" /\ P[w[j]].stream = "compute" /\ P[u[j]].stream = "compute"
    <3>1. /\ calls[j][2] = UploadA("copy", j) /\ calls[j][3] = UploadB("copy", j)
          /\ calls[j][5] = Mark(E[j], "copy") /\ calls[j][6] = Await("compute", E[j])
          /\ calls[j][8] = Gemm("compute", j)
          /\ calls[j][10] = Mark(F[j], "compute") /\ calls[j][11] = Await("copy", F[j])
          /\ calls[j][13] = Download("copy", j)
      BY <1>6 DEF Overlap
    <3>2. \A k \in 1..14 : P[At(n, 14, k)[j]] = calls[j][k]
      BY <1>5 DEF Bench, At
    <3>3. /\ P[a[j]] = UploadA("copy", j) /\ P[b[j]] = UploadB("copy", j)
          /\ P[r[j]] = Mark(E[j], "copy") /\ P[w[j]] = Await("compute", E[j])
          /\ P[g[j]] = Gemm("compute", j)
          /\ P[u[j]] = Mark(F[j], "compute") /\ P[v[j]] = Await("copy", F[j])
          /\ P[d[j]] = Download("copy", j)
      BY <3>1, <3>2
    <3> HIDE DEF a, b, r, w, g, u, v, d
    <3> QED BY <3>3, CallFields
  <2>3. \A i, j \in 1..n : \A p \in {a[i], b[i], d[i]} :
          (p < g[j] => p < r[j]) /\ (g[j] < p => v[j] < p)
    BY <1>1, AtGaps
  <2> HIDE DEF a, b, r, w, g, u, v, d
  <2>4. OneCopyStream(P, n, a, b, r, w, g, u, v, d, "copy", "compute")
    BY <2>2, <2>3 DEF OneCopyStream
  <2> QED BY <2>1, <2>4, OneCopyStreamSerial
<1>11. WellOrdered(P, "copy_compute", 1..n)
  BY <1>8, <1>9, <1>10 DEF WellOrdered, Control
<1> QED BY <1>11 DEF P

-----------------------------------------------------------------------------
(***************************************************************************)
(* The programs that use one stream.                                       *)
(***************************************************************************)
\* What q reads was written before it, for a job of the program.
InTurn(P, q) ==
  \E j \in JobIds :
    \/ P[q].reads = {<<"ha", j>>} /\ P[q].writes = <<"da", j>>
    \/ P[q].reads = {<<"hb", j>>} /\ P[q].writes = <<"db", j>>
    \/ /\ P[q].reads = {<<"da", j>>, <<"db", j>>} /\ P[q].writes = <<"dc", j>>
       /\ \E p \in Writers(P, <<"da", j>>) : p < q
       /\ \E p \in Writers(P, <<"db", j>>) : p < q
    \/ /\ P[q].reads = {<<"dc", j>>} /\ P[q].writes = <<"hc", j>>
       /\ \E p \in Writers(P, <<"dc", j>>) : p < q

\* A program in one stream whose items are in turn is ordered.
LEMMA OneStreamProgram ==
  ASSUME NEW P, NEW s \in StreamNames, \A p \in Ops(P) : P[p].stream = s,
         \A q \in Issues(P) : InTurn(P, q),
         \A p \in Ops(P) \ Issues(P) : P[p].event \in EventNames
  PROVE  Typed(P) /\ OneStreamPerEvent(P) /\ InputsReady(P) /\ NoClobber(P) /\ Serial(P)
<1>1. OneStreamPerEvent(P) /\ NoClobber(P) /\ Serial(P)
  BY OneStreamOrder
<1>2. ASSUME NEW j \in JobIds
      PROVE  /\ \A x \in {"ha", "hb", "hc", "da", "db", "dc"} : <<x, j>> \in LocationNames
             /\ \A x \in {"hc", "da", "db", "dc"} : <<x, j>> \notin AllHostBuffers
             /\ \A x \in {"ha", "hb"} : <<x, j>> \in AllHostBuffers
  BY DEF LocationNames, AllHostBuffers, HostBuffers
<1>3. ASSUME NEW q \in Issues(P)
      PROVE  /\ P[q].reads \in SUBSET LocationNames /\ P[q].reads # {}
             /\ P[q].writes \in LocationNames \ AllHostBuffers
             /\ P[q].writes \notin P[q].reads
             /\ \A l \in P[q].reads \ AllHostBuffers : \E p \in Writers(P, l) : p < q
  <2>1. PICK j \in JobIds :
          \/ P[q].reads = {<<"ha", j>>} /\ P[q].writes = <<"da", j>>
          \/ P[q].reads = {<<"hb", j>>} /\ P[q].writes = <<"db", j>>
          \/ /\ P[q].reads = {<<"da", j>>, <<"db", j>>} /\ P[q].writes = <<"dc", j>>
             /\ \E p \in Writers(P, <<"da", j>>) : p < q
             /\ \E p \in Writers(P, <<"db", j>>) : p < q
          \/ /\ P[q].reads = {<<"dc", j>>} /\ P[q].writes = <<"hc", j>>
             /\ \E p \in Writers(P, <<"dc", j>>) : p < q
    BY DEF InTurn
  <2>2. \A l \in P[q].reads \ AllHostBuffers : \E p \in Writers(P, l) : p < q
    BY <1>2, <2>1
  <2>3. /\ P[q].reads \in SUBSET LocationNames /\ P[q].reads # {}
        /\ P[q].writes \in LocationNames \ AllHostBuffers
        /\ P[q].writes \notin P[q].reads
    <3>1. \/ P[q].reads = {<<"ha", j>>} /\ P[q].writes = <<"da", j>>
          \/ P[q].reads = {<<"hb", j>>} /\ P[q].writes = <<"db", j>>
          \/ P[q].reads = {<<"da", j>>, <<"db", j>>} /\ P[q].writes = <<"dc", j>>
          \/ P[q].reads = {<<"dc", j>>} /\ P[q].writes = <<"hc", j>>
      BY <2>1
    <3>2. \A x \in {"ha", "hb", "hc", "da", "db", "dc"} : <<x, j>> \in LocationNames
      BY <1>2
    <3>3. \A x \in {"hc", "da", "db", "dc"} : <<x, j>> \notin AllHostBuffers
      BY <1>2
    <3> QED BY <3>1, <3>2, <3>3
  <2> QED BY <2>2, <2>3
<1>4. InputsReady(P)
  BY <1>3, OneStreamInputs
<1>5. \A p \in Ops(P) : P[p].stream \in StreamNames
  OBVIOUS
<1>6. Typed(P)
  BY <1>3, <1>5 DEF Typed
<1> QED BY <1>1, <1>4, <1>6

\* Job j's uploads are at a[j] and b[j], its kernel at g[j], its download at d[j].
JobByJob(P, n, a, b, g, d) ==
  /\ \A q \in Issues(P) : \E j \in 1..n : q \in {a[j], b[j], g[j], d[j]}
  /\ \A j \in 1..n :
       /\ a[j] \in DOMAIN P /\ b[j] \in DOMAIN P /\ g[j] \in DOMAIN P /\ d[j] \in DOMAIN P
       /\ P[a[j]] = UploadA("null", j) /\ P[b[j]] = UploadB("null", j)
       /\ P[g[j]] = Gemm("null", j) /\ P[d[j]] = Download("null", j)
       /\ a[j] < g[j] /\ b[j] < g[j] /\ g[j] < d[j]
  /\ \A i, j \in 1..n : i < j => d[i] < d[j]

\* Job by job, every item is in turn and the results arrive in order.
LEMMA JobByJobOrder ==
  ASSUME NEW P, NEW n, NEW a, NEW b, NEW g, NEW d, JobByJob(P, n, a, b, g, d), 1..n \subseteq JobIds
  PROVE  ResultsInOrder(P, 1..n) /\ \A q \in Issues(P) : InTurn(P, q)
<1>a. ASSUME NEW j \in 1..n
      PROVE  /\ a[j] \in Issues(P) /\ P[a[j]].reads = {<<"ha", j>>} /\ P[a[j]].writes = <<"da", j>>
             /\ b[j] \in Issues(P) /\ P[b[j]].reads = {<<"hb", j>>} /\ P[b[j]].writes = <<"db", j>>
  <2>1. P[a[j]] = UploadA("null", j) /\ a[j] \in DOMAIN P /\ P[b[j]] = UploadB("null", j) /\ b[j] \in DOMAIN P
    BY DEF JobByJob
  <2>2. a[j] \in Issues(P) /\ P[a[j]].reads = {<<"ha", j>>} /\ P[a[j]].writes = <<"da", j>>
    BY <2>1, JobIssue
  <2>3. b[j] \in Issues(P) /\ P[b[j]].reads = {<<"hb", j>>} /\ P[b[j]].writes = <<"db", j>>
    BY <2>1, JobIssue
  <2> QED BY <2>2, <2>3
<1>g. ASSUME NEW j \in 1..n
      PROVE  /\ g[j] \in Issues(P) /\ P[g[j]].reads = {<<"da", j>>, <<"db", j>>}
             /\ P[g[j]].writes = <<"dc", j>>
             /\ d[j] \in Issues(P) /\ P[d[j]].reads = {<<"dc", j>>} /\ P[d[j]].writes = <<"hc", j>>
             /\ P[d[j]].stream = "null"
  <2>1. P[g[j]] = Gemm("null", j) /\ g[j] \in DOMAIN P /\ P[d[j]] = Download("null", j) /\ d[j] \in DOMAIN P
    BY DEF JobByJob
  <2>2. /\ g[j] \in Issues(P) /\ P[g[j]].reads = {<<"da", j>>, <<"db", j>>}
        /\ P[g[j]].writes = <<"dc", j>>
    BY <2>1, JobIssue
  <2>3. /\ d[j] \in Issues(P) /\ P[d[j]].reads = {<<"dc", j>>} /\ P[d[j]].writes = <<"hc", j>>
        /\ P[d[j]].stream = "null"
    BY <2>1, JobIssue
  <2> QED BY <2>2, <2>3
<1>1. ASSUME NEW q \in Issues(P) PROVE InTurn(P, q)
  <2>1. PICK j \in 1..n : q \in {a[j], b[j], g[j], d[j]}
    BY DEF JobByJob
  <2>2. j \in JobIds
    OBVIOUS
  <2>3. CASE q = a[j] \/ q = b[j]
    BY <1>a, <2>2, <2>3 DEF InTurn
  <2>4. CASE q = g[j]
    <3>1. a[j] \in Writers(P, <<"da", j>>) /\ b[j] \in Writers(P, <<"db", j>>)
      BY <1>a DEF Writers
    <3>2. a[j] < q /\ b[j] < q
      BY <2>4 DEF JobByJob
    <3> QED BY <1>g, <2>2, <2>4, <3>1, <3>2 DEF InTurn
  <2>5. CASE q = d[j]
    <3>1. g[j] \in Writers(P, <<"dc", j>>)
      BY <1>g DEF Writers
    <3>2. g[j] < q
      BY <2>5 DEF JobByJob
    <3> QED BY <1>g, <2>2, <2>5, <3>1, <3>2 DEF InTurn
  <2> QED BY <2>1, <2>3, <2>4, <2>5
<1>2. ASSUME NEW j \in 1..n PROVE Writers(P, <<"hc", j>>) = {d[j]}
  <2>1. d[j] \in Writers(P, <<"hc", j>>)
    BY <1>g DEF Writers
  <2>2. ASSUME NEW q \in Writers(P, <<"hc", j>>) PROVE q = d[j]
    <3>1. q \in Issues(P) /\ P[q].writes = <<"hc", j>>
      BY DEF Writers
    <3>2. PICK i \in 1..n : q \in {a[i], b[i], g[i], d[i]}
      BY <3>1 DEF JobByJob
    <3>3. q # a[i] /\ q # b[i]
      BY <1>a, <3>1
    <3>4. q # g[i] /\ (q = d[i] => i = j)
      BY <1>g, <3>1
    <3> QED BY <3>2, <3>3, <3>4
  <2> QED BY <2>1, <2>2
<1>3. ResultsInOrder(P, 1..n)
  <2>1. \A i, j \in 1..n : i < j => d[i] < d[j] /\ P[d[i]].stream = P[d[j]].stream
    BY <1>g DEF JobByJob
  <2>2. \A j \in 1..n : Writers(P, <<"hc", j>>) # {}
    BY <1>2
  <2>3. ASSUME NEW i \in 1..n, NEW j \in 1..n, i < j,
               NEW p \in Writers(P, <<"hc", i>>), NEW q \in Writers(P, <<"hc", j>>)
        PROVE  p < q /\ P[p].stream = P[q].stream
    <3>1. p = d[i] /\ q = d[j]
      BY <1>2
    <3> QED BY <3>1, <2>1, <2>3
  <2> QED BY <2>2, <2>3 DEF ResultsInOrder
<1> QED BY <1>1, <1>3

-----------------------------------------------------------------------------
\* The calls of a turn of run_pinned_single.
LEMMA PinnedSingleCalls ==
  ASSUME NEW j
  PROVE  /\ Len(PinnedSingle(j)) = 10
         /\ PinnedSingle(j)[1] = Mark(<<"c0", j>>, "null")
         /\ PinnedSingle(j)[2] = UploadA("null", j)
         /\ PinnedSingle(j)[3] = UploadB("null", j)
         /\ PinnedSingle(j)[4] = Mark(<<"c1", j>>, "null")
         /\ PinnedSingle(j)[5] = Mark(<<"k0", j>>, "null")
         /\ PinnedSingle(j)[6] = Gemm("null", j)
         /\ PinnedSingle(j)[7] = Mark(<<"k1", j>>, "null")
         /\ PinnedSingle(j)[8] = Mark(<<"d0", j>>, "null")
         /\ PinnedSingle(j)[9] = Download("null", j)
         /\ PinnedSingle(j)[10] = Mark(<<"d1", j>>, "null")
BY DEF PinnedSingle, TimedUpload, TimedGemm, TimedDownload

\* The kinds and events of a turn of run_pinned_single.
LEMMA PinnedSingleFields ==
  ASSUME NEW n \in JobIds, NEW j \in 1..n, NEW k \in 1..10, NEW c, c = PinnedSingle(j)[k]
  PROVE  /\ c.do \in {"issue", "record", "wait"} /\ c.stream = "null"
         /\ c.do # "issue" => c.event \in EventNames
         /\ c.do = "issue" => k \in {2, 3, 6, 9}
<1>1. j \in JobIds
  BY JobRange
<1>2. \A x \in {"c0", "c1", "k0", "k1", "d0", "d1"} : <<x, j>> \in EventNames
  BY <1>1, Names DEF JobEvents
<1>3. CASE k \in {2, 3, 6, 9}
  <2>1. c \in {UploadA("null", j), UploadB("null", j), Gemm("null", j), Download("null", j)}
    BY <1>3, PinnedSingleCalls
  <2>2. c.do = "issue" /\ c.stream = "null"
    BY <2>1, CallFields
  <2> QED BY <1>3, <2>2
<1>4. CASE k \in {1, 4, 5, 7, 8, 10}
  <2>1. \E x \in {"c0", "c1", "k0", "k1", "d0", "d1"} : c = Mark(<<x, j>>, "null")
    BY <1>4, PinnedSingleCalls
  <2>2. PICK x \in {"c0", "c1", "k0", "k1", "d0", "d1"} : c = Mark(<<x, j>>, "null")
    BY <2>1
  <2>3. c.do = "record" /\ c.stream = "null" /\ c.event = <<x, j>>
    BY <2>2, CallFields
  <2> QED BY <1>2, <2>3
<1> QED BY <1>3, <1>4

\* run_pinned_single: one stream.
LEMMA PinnedSingleOrdered ==
  ASSUME NEW n \in JobIds
  PROVE  WellOrdered(RunPinnedSingle(n), "single", 1..n)
<1> DEFINE P == RunPinnedSingle(n)
           calls == [j \in 1..n |-> PinnedSingle(j)]
           Q == Start("null") \o ForJobs(calls)
           z == 2 + n * 10 + 1
           N == 2 + n * 10 + (n * 3 + 3)
           a == At(n, 10, 2)
           b == At(n, 10, 3)
           g == At(n, 10, 6)
           d == At(n, 10, 9)
<1>1. n \in Nat \ {0} /\ 1 \in 1..n /\ 10 \in Nat \ {0} /\ "null" \in StreamNames /\ 1..n \subseteq JobIds
  BY JobRange DEF StreamNames
<1>2. Joined(Q, Start("null"), ForJobs(calls)) /\ Joined(P, Q, Finish("null", n))
  BY DEF RunPinnedSingle, Joined
<1> HIDE DEF P, Q
<1>3. IsList(calls, n) /\ Len(calls[1]) = 10
  BY <1>1, PinnedSingleCalls DEF IsList
<1>4. \A j \in 1..n : calls[j] = PinnedSingle(j)
  OBVIOUS
<1> HIDE DEF calls
<1>5. Bench(P, n, 10, calls, "null", "null", z, N)
  BY <1>1, <1>2, <1>3, BenchCalls
<1> HIDE DEF z, N
<1>6. \A j \in 1..n : \A k \in 1..10 :
        /\ calls[j][k].do \in {"issue", "record", "wait"} /\ calls[j][k].stream = "null"
        /\ calls[j][k].do # "issue" => calls[j][k].event \in EventNames
        /\ calls[j][k].do = "issue" => k \in {2, 3, 6, 9}
  BY <1>4, PinnedSingleFields
<1>7. Turns(calls, n, 10)
  <2>1. ASSUME NEW j \in 1..n, NEW x \in {"c0", "c1", "k0", "k1", "d0", "d1"}
        PROVE  \E k \in 1..10 : calls[j][k].do = "record" /\ calls[j][k].event = <<x, j>>
    <3>1. /\ calls[j][1] = Mark(<<"c0", j>>, "null") /\ calls[j][4] = Mark(<<"c1", j>>, "null")
          /\ calls[j][5] = Mark(<<"k0", j>>, "null") /\ calls[j][7] = Mark(<<"k1", j>>, "null")
          /\ calls[j][8] = Mark(<<"d0", j>>, "null") /\ calls[j][10] = Mark(<<"d1", j>>, "null")
      BY <1>4, PinnedSingleCalls
    <3>2. /\ calls[j][1].do = "record" /\ calls[j][1].event = <<"c0", j>>
          /\ calls[j][4].do = "record" /\ calls[j][4].event = <<"c1", j>>
          /\ calls[j][5].do = "record" /\ calls[j][5].event = <<"k0", j>>
          /\ calls[j][7].do = "record" /\ calls[j][7].event = <<"k1", j>>
          /\ calls[j][8].do = "record" /\ calls[j][8].event = <<"d0", j>>
          /\ calls[j][10].do = "record" /\ calls[j][10].event = <<"d1", j>>
      BY <3>1, CallFields
    <3>3. /\ x = "c0" => calls[j][1].do = "record" /\ calls[j][1].event = <<x, j>>
          /\ x = "c1" => calls[j][4].do = "record" /\ calls[j][4].event = <<x, j>>
          /\ x = "k0" => calls[j][5].do = "record" /\ calls[j][5].event = <<x, j>>
          /\ x = "k1" => calls[j][7].do = "record" /\ calls[j][7].event = <<x, j>>
          /\ x = "d0" => calls[j][8].do = "record" /\ calls[j][8].event = <<x, j>>
          /\ x = "d1" => calls[j][10].do = "record" /\ calls[j][10].event = <<x, j>>
      BY <3>2, Zenon
    <3>4. \A k \in {1, 4, 5, 7, 8, 10} : k \in 1..10
      OBVIOUS
    <3> QED BY <3>3, <3>4, Zenon
  <2>2. \A j \in 1..n : \A k \in 1..10 :
          /\ calls[j][k].do \in {"issue", "record", "wait"} /\ calls[j][k].stream \in StreamNames
          /\ calls[j][k].do # "issue" => calls[j][k].event \in EventNames
    BY <1>1, <1>6
  <2> QED BY <2>1, <2>2, Zenon DEF Turns
<1>8. BenchShape(P, n, 10, "null", "null", z, N)
  BY <1>1, <1>5, <1>7, BenchOps
<1>9. \A p \in Ops(P) : P[p].stream = "null"
  <2> SUFFICES ASSUME NEW p \in Ops(P) PROVE P[p].stream = "null"
    OBVIOUS
  <2>1. ASSUME NEW j \in 1..n, NEW k \in 1..10, p = 2 + (10 * (j - 1) + k)
        PROVE  P[p].stream = "null"
    <3>1. P[p] = calls[j][k]
      BY <1>5, <2>1 DEF Bench
    <3> QED BY <1>6, <3>1
  <2> QED BY <1>8, <2>1 DEF BenchShape
<1>10. ASSUME NEW q \in Issues(P) PROVE \E j \in 1..n : q \in {a[j], b[j], g[j], d[j]}
  <2>1. q \in Ops(P) /\ P[q].do = "issue" /\ q # 2 /\ q # z
    BY <1>8 DEF BenchShape, Issues
  <2>2. PICK j \in 1..n, k \in 1..10 : q = 2 + (10 * (j - 1) + k)
    BY <1>8, <2>1 DEF BenchShape
  <2>3. P[q] = calls[j][k]
    BY <1>5, <2>2 DEF Bench
  <2>4. k \in {2, 3, 6, 9} /\ q = At(n, 10, k)[j]
    BY <1>6, <2>1, <2>2, <2>3 DEF At
  <2> QED BY <2>4
<1>11. JobByJob(P, n, a, b, g, d)
  <2>1. \A k \in 1..10 : \A j \in 1..n :
          P[At(n, 10, k)[j]] = PinnedSingle(j)[k] /\ At(n, 10, k)[j] \in DOMAIN P
    <3> TAKE k \in 1..10
    <3> TAKE j \in 1..n
    <3>1. At(n, 10, k)[j] = 2 + (10 * (j - 1) + k)
      BY DEF At
    <3> DEFINE p == 2 + (10 * (j - 1) + k)
    <3>2. P[p] = calls[j][k]
      BY <1>5 DEF Bench
    <3>3. p \in DOMAIN P
      BY <1>8 DEF BenchShape, Ops
    <3> HIDE DEF p
    <3>4. P[p] = PinnedSingle(j)[k]
      BY <1>4, <3>2
    <3> QED BY <3>1, <3>3, <3>4 DEF p
  <2>2. ASSUME NEW j \in 1..n
        PROVE  /\ a[j] \in DOMAIN P /\ b[j] \in DOMAIN P /\ g[j] \in DOMAIN P /\ d[j] \in DOMAIN P
               /\ P[a[j]] = UploadA("null", j) /\ P[b[j]] = UploadB("null", j)
               /\ P[g[j]] = Gemm("null", j) /\ P[d[j]] = Download("null", j)
    <3>1. /\ P[a[j]] = PinnedSingle(j)[2] /\ P[b[j]] = PinnedSingle(j)[3]
          /\ P[g[j]] = PinnedSingle(j)[6] /\ P[d[j]] = PinnedSingle(j)[9]
          /\ a[j] \in DOMAIN P /\ b[j] \in DOMAIN P /\ g[j] \in DOMAIN P /\ d[j] \in DOMAIN P
      BY <2>1
    <3> HIDE DEF a, b, g, d
    <3> QED BY <3>1, PinnedSingleCalls
  <2>3. \A j \in 1..n : a[j] < g[j] /\ b[j] < g[j] /\ g[j] < d[j]
    BY <1>1, AtOrder
  <2>4. \A i, j \in 1..n : i < j => d[i] < d[j]
    BY <1>1, AtOrder
  <2> HIDE DEF a, b, g, d
  <2> QED BY <1>10, <2>2, <2>3, <2>4 DEF JobByJob
<1> HIDE DEF a, b, g, d
<1>12. ResultsInOrder(P, 1..n) /\ \A q \in Issues(P) : InTurn(P, q)
  BY <1>1, <1>11, JobByJobOrder
<1>13. ASSUME NEW p \in Ops(P), p \notin Issues(P) PROVE P[p].event \in EventNames
  <2>1. CASE p = 2
    <3>1. P[p].event = <<"start", 0>>
      BY <1>8, <2>1 DEF BenchShape, Records
    <3> QED BY <3>1 DEF EventNames
  <2>2. CASE p = z
    <3>1. P[p].event = <<"end", 0>>
      BY <1>8, <2>2 DEF BenchShape, Records
    <3> QED BY <3>1 DEF EventNames
  <2>3. ASSUME NEW j \in 1..n, NEW k \in 1..10, p = 2 + (10 * (j - 1) + k)
        PROVE  P[p].event \in EventNames
    <3>1. P[p] = calls[j][k]
      BY <1>5, <2>3 DEF Bench
    <3> QED BY <1>6, <1>13, <3>1 DEF Issues
  <2> QED BY <1>8, <2>1, <2>2, <2>3 DEF BenchShape
<1>14. Typed(P) /\ OneStreamPerEvent(P) /\ InputsReady(P) /\ NoClobber(P) /\ Serial(P)
  BY <1>1, <1>9, <1>12, <1>13, OneStreamProgram
<1>15. \A p \in Ops(P), h \in Int : z + 1 < h => Past(P, p, h)
  <2> SUFFICES ASSUME NEW p \in Ops(P), NEW h \in Int, z + 1 < h PROVE Past(P, p, h)
    OBVIOUS
  <2> DEFINE k == z + 1
  <2>1. p = z \/ (p < z /\ P[p].stream = P[z].stream)
    BY <1>8, <1>9 DEF BenchShape
  <2>2. /\ k \in 1..(h - 1) /\ P[k].do = "event_sync" /\ z \in Records(P, P[k].event) /\ z < k
    BY <1>8 DEF BenchShape
  <2> HIDE DEF k
  <2> QED BY <2>1, <2>2, PastByEvent
<1>16. CollectsLate(P) /\ TimersLate(P) /\ EndsQuiet(P)
  BY <1>1, <1>5, <1>7, <1>15, BenchTimers
<1>17. WellOrdered(P, "single", 1..n)
  BY <1>8, <1>12, <1>14, <1>16 DEF WellOrdered, BenchShape
<1> QED BY <1>17 DEF P

-----------------------------------------------------------------------------
\* The turn of the pageable configuration.
PageableCalls(j) ==
  <<UploadA("null", j), UploadB("null", j), Sync({"null"}),
    Mark(<<"k0", j>>, "null"), Gemm("null", j), Mark(<<"k1", j>>, "null"),
    EventSync(<<"k1", j>>), ElapsedMs(<<"k0", j>>, <<"k1", j>>),
    Download("null", j), Sync({"null"})>>

\* What call k of job j's turn is, at position p.
PageableAt(P, p, j, k) ==
  /\ p \in Ops(P) <=> k \in {1, 2, 4, 5, 6, 9}
  /\ p \in Issues(P) <=> k \in {1, 2, 5, 9}
  /\ p \in Ops(P) => P[p].stream = "null"
  /\ k = 4 => p \in Records(P, <<"k0", j>>)
  /\ k = 6 => p \in Records(P, <<"k1", j>>)
  /\ k = 7 => P[p].do = "event_sync" /\ P[p].event = <<"k1", j>>
  /\ k = 10 => P[p].do = "sync" /\ P[p].streams = {"null"}
  /\ P[p].do # "collect"
  /\ P[p].do = "elapsed" => k = 8
  /\ k = 8 => P[p].events = {<<"k0", j>>, <<"k1", j>>}
  /\ p \in Ops(P) /\ p \notin Issues(P) => P[p].event \in EventNames

\* What each call of a turn is.
LEMMA PageableFields ==
  ASSUME NEW P, NEW p \in DOMAIN P, NEW j \in JobIds, NEW k \in 1..10, P[p] = PageableCalls(j)[k]
  PROVE  PageableAt(P, p, j, k)
<1>1. <<"k0", j>> \in EventNames /\ <<"k1", j>> \in EventNames
  BY Names DEF JobEvents
<1>2. /\ k = 1 => P[p] = UploadA("null", j)
      /\ k = 2 => P[p] = UploadB("null", j)
      /\ k = 3 => P[p] = Sync({"null"})
      /\ k = 4 => P[p] = Mark(<<"k0", j>>, "null")
      /\ k = 5 => P[p] = Gemm("null", j)
      /\ k = 6 => P[p] = Mark(<<"k1", j>>, "null")
      /\ k = 7 => P[p] = EventSync(<<"k1", j>>)
      /\ k = 8 => P[p] = ElapsedMs(<<"k0", j>>, <<"k1", j>>)
      /\ k = 9 => P[p] = Download("null", j)
      /\ k = 10 => P[p] = Sync({"null"})
  BY DEF PageableCalls
<1>3. CASE k \in {1, 2, 5, 9}
  <2>1. P[p] \in {UploadA("null", j), UploadB("null", j), Gemm("null", j), Download("null", j)}
    BY <1>2, <1>3
  <2>2. p \in Issues(P) /\ p \in Ops(P) /\ P[p].stream = "null" /\ P[p].do = "issue"
    BY <2>1, AnyCall
  <2> QED BY <1>3, <2>2 DEF PageableAt
<1>4. CASE k = 4
  <2>1. /\ p \in Records(P, <<"k0", j>>) /\ p \in Ops(P) /\ p \notin Issues(P)
        /\ P[p].stream = "null" /\ P[p].do = "record" /\ P[p].event = <<"k0", j>>
    BY <1>2, <1>4, MarkCall
  <2> QED BY <1>1, <1>4, <2>1 DEF PageableAt
<1>5. CASE k = 6
  <2>1. /\ p \in Records(P, <<"k1", j>>) /\ p \in Ops(P) /\ p \notin Issues(P)
        /\ P[p].stream = "null" /\ P[p].do = "record" /\ P[p].event = <<"k1", j>>
    BY <1>2, <1>5, MarkCall
  <2> QED BY <1>1, <1>5, <2>1 DEF PageableAt
<1>6. CASE k = 3 \/ k = 10
  <2>1. P[p] = Sync({"null"})
    BY <1>2, <1>6
  <2>2. p \notin Ops(P) /\ P[p].do = "sync" /\ P[p].streams = {"null"}
    BY <2>1, HostCall
  <2> QED BY <1>6, <2>2 DEF Issues, PageableAt
<1>7. CASE k = 7
  <2>1. P[p] = EventSync(<<"k1", j>>)
    BY <1>2, <1>7
  <2>2. p \notin Ops(P) /\ P[p].do = "event_sync" /\ P[p].event = <<"k1", j>>
    BY <2>1, HostCall
  <2> QED BY <1>7, <2>2 DEF Issues, PageableAt
<1>8. CASE k = 8
  <2>1. P[p] = ElapsedMs(<<"k0", j>>, <<"k1", j>>)
    BY <1>2, <1>8
  <2>2. p \notin Ops(P) /\ P[p].do = "elapsed" /\ P[p].events = {<<"k0", j>>, <<"k1", j>>}
    BY <2>1, HostCall
  <2> QED BY <1>8, <2>2 DEF Issues, PageableAt
<1> QED BY <1>3, <1>4, <1>5, <1>6, <1>7, <1>8

\* run_pageable: one stream, and the host waits after every copy.
LEMMA PageableOrdered ==
  ASSUME NEW n \in JobIds
  PROVE  WellOrdered(RunPageable(n), "pageable", 1..n)
<1> DEFINE P == RunPageable(n)
           calls == [j \in 1..n |-> PageableCalls(j)]
           pre == <<Sync(StreamNames)>>
           at(j, k) == 1 + (10 * (j - 1) + k)
           N == 1 + n * 10
           a == [j \in 1..n |-> at(j, 1)]
           b == [j \in 1..n |-> at(j, 2)]
           g == [j \in 1..n |-> at(j, 5)]
           d == [j \in 1..n |-> at(j, 9)]
<1>1. /\ n \in Nat \ {0} /\ 1 \in 1..n /\ n \in 1..n /\ 10 \in Nat \ {0}
      /\ "null" \in StreamNames /\ 1..n \subseteq JobIds
  BY JobRange DEF StreamNames
<1>2. Joined(P, pre, ForJobs(calls))
  BY DEF RunPageable, Joined, PageableCalls
<1> HIDE DEF P
<1>3. IsList(calls, n) /\ Len(calls[1]) = 10 /\ IsList(pre, 1) /\ pre[1] = Sync(StreamNames)
  BY <1>1 DEF IsList, PageableCalls
<1>4. \A j \in 1..n : calls[j] = PageableCalls(j)
  OBVIOUS
<1> HIDE DEF calls, pre
<1>5. LoopFollows(P, pre, 1, calls, n, 10)
  BY <1>1, <1>2, <1>3, LoopAfter
<1>6. IsList(P, N) /\ P[1] = Sync(StreamNames)
      /\ (\A j \in 1..n : \A k \in 1..10 : P[at(j, k)] = PageableCalls(j)[k])
      /\ \A p \in 1..N : p = 1 \/ \E j \in 1..n, k \in 1..10 : p = at(j, k)
  <2>1. 1 \in 1..1 /\ \A p \in 1..1 : p = 1
    OBVIOUS
  <2> QED BY <1>3, <1>4, <1>5, <2>1 DEF LoopFollows
<1>7. \A j \in 1..n : \A k \in 1..10 : at(j, k) \in 1..N /\ at(j, k) > 1 /\ at(j, k) <= at(n, 10)
  BY <1>1
<1>n. at(n, 10) = N /\ N \in Nat
  BY <1>1
<1>8. DOMAIN P = 1..N /\ Len(P) = N /\ IsList(P, Len(P))
  <2> HIDE DEF N
  <2> QED BY <1>6, ListLen
<1>9. 1 \notin Ops(P) /\ P[1].do = "sync" /\ 1 \in DOMAIN P
  <2>1. 1 \in DOMAIN P
    BY <1>n, <1>7, <1>8, <1>1
  <2> QED BY <2>1, <1>6, HostCall
<1>10. ASSUME NEW j \in 1..n, NEW k \in 1..10
       PROVE  /\ at(j, k) \in DOMAIN P /\ P[at(j, k)] = PageableCalls(j)[k]
              /\ PageableAt(P, at(j, k), j, k)
  <2> DEFINE p == at(j, k)
  <2>1. p \in DOMAIN P /\ P[p] = PageableCalls(j)[k] /\ j \in JobIds
    BY <1>1, <1>6, <1>7, <1>8
  <2> HIDE DEF p
  <2>2. PageableAt(P, p, j, k)
    BY <2>1, PageableFields
  <2> QED BY <2>1, <2>2 DEF p
<1>11. ASSUME NEW p \in DOMAIN P, p # 1
       PROVE  \E j \in 1..n, k \in 1..10 : p = at(j, k) /\ PageableAt(P, p, j, k)
  <2>1. PICK j \in 1..n, k \in 1..10 : p = at(j, k)
    BY <1>6, <1>8, <1>11
  <2>2. PageableAt(P, at(j, k), j, k)
    BY <1>10
  <2> QED BY <2>1, <2>2
<1>12. \A p \in Ops(P) : P[p].stream = "null"
  <2> SUFFICES ASSUME NEW p \in Ops(P) PROVE P[p].stream = "null"
    OBVIOUS
  <2>1. p \in DOMAIN P /\ p # 1
    BY <1>9 DEF Ops
  <2>2. PICK j \in 1..n, k \in 1..10 : PageableAt(P, p, j, k)
    BY <1>11, <2>1
  <2> QED BY <2>1, <2>2 DEF PageableAt
<1>13. \A p \in Ops(P) \ Issues(P) : P[p].event \in EventNames
  <2> SUFFICES ASSUME NEW p \in Ops(P), p \notin Issues(P) PROVE P[p].event \in EventNames
    OBVIOUS
  <2>1. p \in DOMAIN P /\ p # 1
    BY <1>9 DEF Ops
  <2>2. PICK j \in 1..n, k \in 1..10 : PageableAt(P, p, j, k)
    BY <1>11, <2>1
  <2> QED BY <2>1, <2>2 DEF PageableAt
<1>14. JobByJob(P, n, a, b, g, d)
  <2>1. ASSUME NEW q \in Issues(P) PROVE \E j \in 1..n : q \in {a[j], b[j], g[j], d[j]}
    <3>1. q \in DOMAIN P /\ q # 1
      BY <1>9 DEF Ops, Issues
    <3>2. PICK j \in 1..n, k \in 1..10 : q = at(j, k) /\ PageableAt(P, q, j, k)
      BY <1>11, <3>1
    <3>3. k \in {1, 2, 5, 9}
      BY <3>1, <3>2 DEF PageableAt
    <3> QED BY <3>2, <3>3
  <2>2. ASSUME NEW j \in 1..n
        PROVE  /\ a[j] \in DOMAIN P /\ b[j] \in DOMAIN P /\ g[j] \in DOMAIN P /\ d[j] \in DOMAIN P
               /\ P[a[j]] = UploadA("null", j) /\ P[b[j]] = UploadB("null", j)
               /\ P[g[j]] = Gemm("null", j) /\ P[d[j]] = Download("null", j)
    <3>1. /\ P[a[j]] = PageableCalls(j)[1] /\ P[b[j]] = PageableCalls(j)[2]
          /\ P[g[j]] = PageableCalls(j)[5] /\ P[d[j]] = PageableCalls(j)[9]
          /\ a[j] \in DOMAIN P /\ b[j] \in DOMAIN P /\ g[j] \in DOMAIN P /\ d[j] \in DOMAIN P
      BY <1>10
    <3> HIDE DEF a, b, g, d
    <3> QED BY <3>1 DEF PageableCalls
  <2>3. \A j \in 1..n : a[j] < g[j] /\ b[j] < g[j] /\ g[j] < d[j]
    BY <1>1
  <2>4. \A i, j \in 1..n : i < j => d[i] < d[j]
    BY <1>1
  <2> HIDE DEF a, b, g, d
  <2> QED BY <2>1, <2>2, <2>3, <2>4 DEF JobByJob
<1> HIDE DEF a, b, g, d
<1>15. ResultsInOrder(P, 1..n) /\ \A q \in Issues(P) : InTurn(P, q)
  BY <1>1, <1>14, JobByJobOrder
<1>16. Typed(P) /\ OneStreamPerEvent(P) /\ InputsReady(P) /\ NoClobber(P) /\ Serial(P)
  BY <1>1, <1>12, <1>13, <1>15, OneStreamProgram
<1>17. \A p \in DOMAIN P : P[p].do # "collect"
  <2> SUFFICES ASSUME NEW p \in DOMAIN P PROVE P[p].do # "collect"
    OBVIOUS
  <2>1. CASE p # 1
    <3>1. PICK j \in 1..n, k \in 1..10 : PageableAt(P, p, j, k)
      BY <1>11, <2>1
    <3> QED BY <3>1 DEF PageableAt
  <2> QED BY <1>9, <2>1
<1>18. CollectsLate(P)
  BY <1>17 DEF CollectsLate
<1>19. TimersLate(P)
  <2> SUFFICES ASSUME NEW h \in DOMAIN P, P[h].do = "elapsed"
               PROVE  /\ \A p \in Ops(P) : p < h => Past(P, p, h)
                      /\ \A e \in P[h].events : e \in EventNames /\ \E r \in Records(P, e) : r < h
    BY DEF TimersLate
  <2>1. h # 1
    BY <1>9
  <2>2. PICK j \in 1..n, k \in 1..10 : h = at(j, k) /\ PageableAt(P, h, j, k)
    BY <1>11, <2>1
  <2>3. k = 8 /\ P[h].events = {<<"k0", j>>, <<"k1", j>>}
    BY <2>2 DEF PageableAt
  <2> DEFINE r0 == at(j, 4)  r == at(j, 6)  s == at(j, 7)
  <2>4. h = s + 1 /\ s = r + 1 /\ r0 < r /\ r \in Int /\ r0 \in Int /\ s \in Int /\ s \in 1..(h - 1)
    BY <1>1, <2>2, <2>3
  <2>5. PageableAt(P, r0, j, 4) /\ PageableAt(P, r, j, 6) /\ PageableAt(P, s, j, 7)
    BY <1>10
  <2> HIDE DEF r0, r, s
  <2>6. r0 \in Records(P, <<"k0", j>>)
    BY <2>5 DEF PageableAt
  <2>7. r \in Records(P, <<"k1", j>>) /\ r \in Ops(P) /\ P[r].stream = "null"
    BY <2>5 DEF PageableAt
  <2>8. P[s].do = "event_sync" /\ P[s].event = <<"k1", j>> /\ s \notin Ops(P)
    BY <2>5 DEF PageableAt
  <2>9. ASSUME NEW p \in Ops(P), p < h PROVE Past(P, p, h)
    <3>1. p \in Int /\ p # s
      BY <1>8, <2>8 DEF Ops
    <3>2. p = r \/ (p < r /\ P[p].stream = P[r].stream)
      BY <1>12, <2>4, <2>7, <2>9, <3>1
    <3>3. h \in Int /\ r \in Records(P, P[s].event) /\ r < s
      BY <2>4, <2>7, <2>8
    <3> QED BY <2>4, <2>8, <3>2, <3>3, PastByEvent
  <2>10. <<"k0", j>> \in EventNames /\ <<"k1", j>> \in EventNames
    BY <1>1, Names DEF JobEvents
  <2>11. r0 < h /\ r < h
    BY <2>4
  <2> QED BY <2>3, <2>6, <2>7, <2>9, <2>10, <2>11
<1>20. EndsQuiet(P)
  <2> SUFFICES ASSUME NEW p \in Ops(P) PROVE Past(P, p, Len(P) + 1)
    BY DEF EndsQuiet
  <2> DEFINE k == at(n, 10)  h == Len(P) + 1
  <2>1. PageableAt(P, k, n, 10)
    BY <1>1, <1>10
  <2>2. h \in Int /\ k \in 1..(h - 1) /\ k = N
    BY <1>n, <1>8, <1>1
  <2> HIDE DEF k, h
  <2>3. P[k].do = "sync" /\ P[k].streams = {"null"} /\ k \notin Ops(P)
    BY <2>1 DEF PageableAt
  <2>4. p < k
    <3>1. p \in 1..N /\ p # k
      BY <1>8, <2>3 DEF Ops
    <3> HIDE DEF N
    <3> QED BY <1>n, <2>2, <3>1
  <2>5. P[p].stream \in P[k].streams
    BY <1>12, <2>3
  <2>6. Past(P, p, h)
    BY <2>2, <2>3, <2>4, <2>5, PastBySync
  <2> QED BY <2>6 DEF h
<1>21. WellOrdered(P, "pageable", 1..n)
  BY <1>8, <1>15, <1>16, <1>18, <1>19, <1>20 DEF WellOrdered
<1> QED BY <1>21 DEF P

-----------------------------------------------------------------------------
\* The calls of run_benchmark: n warmup calls, n timed iterations, the check.
LEMMA BenchmarkCalls ==
  ASSUME NEW n \in Nat \ {0}, NEW P, P = RunBenchmark(n)
  PROVE  /\ IsList(P, n * 18 + 2)
         /\ \A i \in 1..n : \A k \in 1..4 : P[4 * (i - 1) + k] = RunOnce[k]
         /\ P[n * 4 + 1] = Sync(StreamNames)
         /\ \A i \in 1..n : \A k \in 1..14 : P[n * 4 + 1 + (14 * (i - 1) + k)] = TimedRun[k]
         /\ P[n * 18 + 2] = Collect(1)
         /\ \A p \in 1..(n * 18 + 2) :
              \/ p = n * 4 + 1 \/ p = n * 18 + 2
              \/ \E i \in 1..n, k \in 1..4 : p = 4 * (i - 1) + k
              \/ \E i \in 1..n, k \in 1..14 : p = n * 4 + 1 + (14 * (i - 1) + k)
<1> DEFINE once == [i \in 1..n |-> RunOnce]
           timed == [i \in 1..n |-> TimedRun]
           l == ForJobs(once)
           sync == <<Sync(StreamNames)>>
           Q == l \o sync
           T == Q \o ForJobs(timed)
           last == <<Collect(1)>>
<1>1. /\ IsList(once, n) /\ Len(once[1]) = 4 /\ IsList(timed, n) /\ Len(timed[1]) = 14
      /\ 4 \in Nat \ {0} /\ 14 \in Nat \ {0}
  <2>1. 1 \in 1..n
    OBVIOUS
  <2>2. Len(RunOnce) = 4
    BY DEF RunOnce
  <2>3. Len(TimedRun) = 14
    BY DEF TimedRun, TimedUpload, TimedGemm
  <2> QED BY <2>1, <2>2, <2>3 DEF IsList
<1>2. /\ \A i \in 1..n : once[i] = RunOnce /\ timed[i] = TimedRun
      /\ IsList(sync, 1) /\ sync[1] = Sync(StreamNames) /\ IsList(last, 1) /\ last[1] = Collect(1)
  BY DEF IsList
<1>3. Joined(Q, l, sync) /\ Joined(T, Q, ForJobs(timed)) /\ Joined(P, T, last)
  BY DEF RunBenchmark, Joined
<1> HIDE DEF once, timed, l, sync, Q, T, last
<1>4. /\ IsList(l, n * 4)
      /\ \A i \in 1..n, k \in 1..4 : l[4 * (i - 1) + k] = once[i][k]
      /\ \A p \in 1..(n * 4) : \E i \in 1..n, k \in 1..4 : p = 4 * (i - 1) + k
  BY <1>1, ListLoop DEF l
<1> DEFINE a == n * 4
<1>5. /\ IsList(Q, a + 1) /\ \A i \in 1..a : Q[i] = l[i]
      /\ Q[a + 1] = Sync(StreamNames)
  <2>1. IsList(l, a)
    BY <1>4
  <2> HIDE DEF a
  <2>2. IsList(Q, a + 1) /\ (\A i \in 1..a : Q[i] = l[i]) /\ \A i \in 1..1 : Q[a + i] = sync[i]
    BY <2>1, <1>2, <1>3, ListConcat
  <2> QED BY <2>2, <1>2
<1> HIDE DEF a
<1> DEFINE b == a + 1
<1>6. /\ IsList(Q, b) /\ Q[b] = Sync(StreamNames)
  BY <1>5
<1> HIDE DEF b
<1>7. LoopFollows(T, Q, b, timed, n, 14)
  BY <1>1, <1>3, <1>6, LoopAfter
<1> DEFINE c == b + n * 14
<1>8. /\ IsList(T, c) /\ b \in Nat
      /\ \A i \in 1..b : T[i] = Q[i]
      /\ \A i \in 1..n : \A k \in 1..14 : T[b + (14 * (i - 1) + k)] = timed[i][k]
      /\ \A p \in 1..c : p \in 1..b \/ \E i \in 1..n, k \in 1..14 : p = b + (14 * (i - 1) + k)
  BY <1>7 DEF LoopFollows
<1>9. a = n * 4 /\ b = a + 1 /\ c = b + n * 14 /\ a \in Nat /\ b \in Nat /\ c \in Nat
      /\ c + 1 = n * 18 + 2
  BY <1>8 DEF a, b
<1> HIDE DEF c
<1>10. /\ IsList(P, c + 1) /\ \A i \in 1..c : P[i] = T[i]
       /\ P[c + 1] = Collect(1)
  <2>1. IsList(P, c + 1) /\ (\A i \in 1..c : P[i] = T[i]) /\ \A i \in 1..1 : P[c + i] = last[i]
    BY <1>8, <1>2, <1>3, ListConcat
  <2> QED BY <2>1, <1>2
<1>11. \A i \in 1..n : \A k \in 1..4 : P[4 * (i - 1) + k] = RunOnce[k]
  <2> TAKE i \in 1..n
  <2> TAKE k \in 1..4
  <2> DEFINE p == 4 * (i - 1) + k
  <2>1. p \in 1..a /\ p \in 1..b /\ p \in 1..c
    BY <1>9
  <2>2. l[p] = RunOnce[k]
    BY <1>2, <1>4
  <2> HIDE DEF p
  <2>3. P[p] = RunOnce[k]
    BY <2>1, <2>2, <1>5, <1>8, <1>10
  <2> QED BY <2>3 DEF p
<1>12. P[b] = Sync(StreamNames)
  <2>1. b \in 1..b /\ b \in 1..c
    BY <1>9
  <2> QED BY <2>1, <1>6, <1>8, <1>10
<1>13. \A i \in 1..n : \A k \in 1..14 : P[b + (14 * (i - 1) + k)] = TimedRun[k]
  <2> TAKE i \in 1..n
  <2> TAKE k \in 1..14
  <2> DEFINE p == b + (14 * (i - 1) + k)
  <2>1. p \in 1..c
    BY <1>9
  <2>2. T[p] = TimedRun[k]
    BY <1>2, <1>8
  <2> HIDE DEF p
  <2>3. P[p] = TimedRun[k]
    BY <2>1, <2>2, <1>10
  <2> QED BY <2>3 DEF p
<1>14. \A p \in 1..(c + 1) :
         \/ p = b \/ p = c + 1
         \/ \E i \in 1..n, k \in 1..4 : p = 4 * (i - 1) + k
         \/ \E i \in 1..n, k \in 1..14 : p = b + (14 * (i - 1) + k)
  <2> TAKE p \in 1..(c + 1)
  <2>1. CASE p \in 1..c
    <3>1. CASE p \in 1..b
      <4>1. p = b \/ p \in 1..a
        BY <1>9, <3>1
      <4>2. p \in 1..(n * 4) => \E i \in 1..n, k \in 1..4 : p = 4 * (i - 1) + k
        BY <1>4
      <4> QED BY <4>1, <4>2 DEF a
    <3> QED BY <1>8, <2>1, <3>1
  <2> QED BY <2>1, <1>9
<1>15. b = n * 4 + 1
  BY <1>9
<1> QED BY <1>9, <1>10, <1>11, <1>12, <1>13, <1>14, <1>15

\* The items of a turn are in turn.
LEMMA OneTurn ==
  ASSUME NEW P, NEW j \in JobIds, NEW s,
         NEW a \in DOMAIN P, NEW b \in DOMAIN P, NEW g \in DOMAIN P, NEW d \in DOMAIN P,
         P[a] = UploadA(s, j), P[b] = UploadB(s, j), P[g] = Gemm(s, j), P[d] = Download(s, j),
         a < g, b < g, g < d
  PROVE  InTurn(P, a) /\ InTurn(P, b) /\ InTurn(P, g) /\ InTurn(P, d) /\ d \in Writers(P, <<"hc", j>>)
<1>1. a \in Writers(P, <<"da", j>>) /\ P[a].reads = {<<"ha", j>>} /\ P[a].writes = <<"da", j>>
  BY JobIssue DEF Writers
<1>2. b \in Writers(P, <<"db", j>>) /\ P[b].reads = {<<"hb", j>>} /\ P[b].writes = <<"db", j>>
  BY JobIssue DEF Writers
<1>3. /\ g \in Writers(P, <<"dc", j>>) /\ P[g].reads = {<<"da", j>>, <<"db", j>>}
      /\ P[g].writes = <<"dc", j>>
  BY JobIssue DEF Writers
<1>4. d \in Writers(P, <<"hc", j>>) /\ P[d].reads = {<<"dc", j>>} /\ P[d].writes = <<"hc", j>>
  BY JobIssue DEF Writers
<1>5. InTurn(P, a)
  BY <1>1 DEF InTurn
<1>6. InTurn(P, b)
  BY <1>2 DEF InTurn
<1>7. InTurn(P, g)
  BY <1>1, <1>2, <1>3 DEF InTurn
<1>8. InTurn(P, d)
  BY <1>3, <1>4 DEF InTurn
<1> QED BY <1>4, <1>5, <1>6, <1>7, <1>8

\* A call of a warmup iteration, at position p.
WarmupAt(P, p) ==
  p \in Ops(P) /\ p \in Issues(P) /\ P[p].stream = "null" /\ P[p].do = "issue"

\* What call k of a timed iteration is, at position p.
TimedAt(P, p, k) ==
  /\ p \in Ops(P) <=> k \in 1..9
  /\ p \in Issues(P) <=> k \in {2, 3, 6, 8}
  /\ p \in Ops(P) => P[p].stream = "null"
  /\ k = 1 => p \in Records(P, <<"c0", 1>>)
  /\ k = 4 => p \in Records(P, <<"c1", 1>>)
  /\ k = 5 => p \in Records(P, <<"k0", 1>>)
  /\ k = 7 => p \in Records(P, <<"k1", 1>>)
  /\ k = 9 => p \in Records(P, <<"end", 0>>)
  /\ k = 10 => P[p].do = "event_sync" /\ P[p].event = <<"end", 0>>
  /\ P[p].do # "collect"
  /\ P[p].do = "elapsed" => k \in 11..14
  /\ P[p].do = "elapsed" =>
       P[p].events \subseteq {<<"c0", 1>>, <<"c1", 1>>, <<"k0", 1>>, <<"k1", 1>>, <<"end", 0>>}
  /\ p \in Ops(P) /\ p \notin Issues(P) => P[p].event \in EventNames

\* The events of run_benchmark are events of the model.
LEMMA BenchEventNames ==
  /\ <<"c0", 1>> \in EventNames /\ <<"c1", 1>> \in EventNames /\ <<"k0", 1>> \in EventNames
  /\ <<"k1", 1>> \in EventNames /\ <<"end", 0>> \in EventNames
<1>1. 1 \in JobIds
  BY BoundsAssumption DEF JobIds
<1> QED BY <1>1, Names DEF JobEvents

\* What each call of an iteration is.
LEMMA TimedFields ==
  ASSUME NEW P, NEW p \in DOMAIN P, NEW k \in 1..14, P[p] = TimedRun[k]
  PROVE  TimedAt(P, p, k)
<1>1. /\ k = 1 => P[p] = Mark(<<"c0", 1>>, "null")
      /\ k = 2 => P[p] = UploadA("null", 1)
      /\ k = 3 => P[p] = UploadB("null", 1)
      /\ k = 4 => P[p] = Mark(<<"c1", 1>>, "null")
      /\ k = 5 => P[p] = Mark(<<"k0", 1>>, "null")
      /\ k = 6 => P[p] = Gemm("null", 1)
      /\ k = 7 => P[p] = Mark(<<"k1", 1>>, "null")
      /\ k = 8 => P[p] = Download("null", 1)
      /\ k = 9 => P[p] = Mark(<<"end", 0>>, "null")
      /\ k = 10 => P[p] = EventSync(<<"end", 0>>)
      /\ k = 11 => P[p] = ElapsedMs(<<"c0", 1>>, <<"c1", 1>>)
      /\ k = 12 => P[p] = ElapsedMs(<<"k0", 1>>, <<"k1", 1>>)
      /\ k = 13 => P[p] = ElapsedMs(<<"k1", 1>>, <<"end", 0>>)
      /\ k = 14 => P[p] = ElapsedMs(<<"c0", 1>>, <<"end", 0>>)
  BY DEF TimedRun, TimedUpload, TimedGemm
<1>2. CASE k \in {2, 3, 6, 8}
  <2>1. P[p] \in {UploadA("null", 1), UploadB("null", 1), Gemm("null", 1), Download("null", 1)}
    BY <1>1, <1>2
  <2>2. p \in Issues(P) /\ p \in Ops(P) /\ P[p].stream = "null" /\ P[p].do = "issue"
    BY <2>1, AnyCall
  <2> QED BY <1>2, <2>2 DEF TimedAt
<1>3. CASE k \in {1, 4, 5, 7, 9}
  <2> DEFINE e == CASE k = 1 -> <<"c0", 1>> [] k = 4 -> <<"c1", 1>> [] k = 5 -> <<"k0", 1>>
                    [] k = 7 -> <<"k1", 1>> [] OTHER -> <<"end", 0>>
  <2>1. P[p] = Mark(e, "null")
    BY <1>1, <1>3
  <2>2. e \in EventNames
    BY <1>3, BenchEventNames
  <2>3. /\ k = 1 => e = <<"c0", 1>>
        /\ k = 4 => e = <<"c1", 1>>
        /\ k = 5 => e = <<"k0", 1>>
        /\ k = 7 => e = <<"k1", 1>>
        /\ k = 9 => e = <<"end", 0>>
    OBVIOUS
  <2> HIDE DEF e
  <2>4. /\ p \in Records(P, e) /\ p \in Ops(P) /\ p \notin Issues(P)
        /\ P[p].stream = "null" /\ P[p].do = "record" /\ P[p].event = e
    BY <2>1, MarkCall
  <2> QED BY <1>3, <2>2, <2>3, <2>4 DEF TimedAt
<1>4. CASE k = 10
  <2>1. P[p] = EventSync(<<"end", 0>>)
    BY <1>1, <1>4
  <2>2. p \notin Ops(P) /\ P[p].do = "event_sync" /\ P[p].event = <<"end", 0>>
    BY <2>1, HostCall
  <2> QED BY <1>4, <2>2 DEF Issues, TimedAt
<1>5. CASE k \in 11..14
  <2> DEFINE E == {<<"c0", 1>>, <<"c1", 1>>, <<"k0", 1>>, <<"k1", 1>>, <<"end", 0>>}
  <2>1. \E e, f \in E : P[p] = ElapsedMs(e, f)
    BY <1>1, <1>5
  <2> HIDE DEF E
  <2>2. PICK e \in E, f \in E : P[p] = ElapsedMs(e, f)
    BY <2>1
  <2>3. p \notin Ops(P) /\ P[p].do = "elapsed" /\ P[p].events = {e, f}
    BY <2>2, HostCall
  <2>4. P[p].events \subseteq E
    BY <2>3
  <2> QED BY <1>5, <2>3, <2>4 DEF E, Issues, TimedAt
<1>6. k \in {2, 3, 6, 8} \/ k \in {1, 4, 5, 7, 9} \/ k = 10 \/ k \in 11..14
  OBVIOUS
<1> QED BY <1>2, <1>3, <1>4, <1>5, <1>6

\* run_benchmark: one stream, and the five events recorded again for every
\* iteration are reached before they are read.
LEMMA BenchmarkOrdered ==
  ASSUME NEW n \in JobIds
  PROVE  WellOrdered(RunBenchmark(n), "gemm", {1})
<1> DEFINE P == RunBenchmark(n)
           u(i, k) == 4 * (i - 1) + k
           v(i, k) == n * 4 + 1 + (14 * (i - 1) + k)
           N == n * 18 + 2
<1>1. n \in Nat \ {0} /\ 1 \in 1..n /\ n \in 1..n /\ 1 \in JobIds /\ "null" \in StreamNames
  BY JobRange, BoundsAssumption DEF StreamNames, JobIds
<1>2. /\ IsList(P, N)
      /\ \A i \in 1..n : \A k \in 1..4 : P[u(i, k)] = RunOnce[k]
      /\ P[n * 4 + 1] = Sync(StreamNames)
      /\ \A i \in 1..n : \A k \in 1..14 : P[v(i, k)] = TimedRun[k]
      /\ P[N] = Collect(1)
      /\ \A p \in 1..N :
           \/ p = n * 4 + 1 \/ p = N
           \/ \E i \in 1..n, k \in 1..4 : p = u(i, k)
           \/ \E i \in 1..n, k \in 1..14 : p = v(i, k)
  BY <1>1, BenchmarkCalls
<1> HIDE DEF P
<1>3. /\ \A i \in 1..n : \A k \in 1..4 : u(i, k) \in 1..N /\ u(i, k) < n * 4 + 1
      /\ \A i \in 1..n : \A k \in 1..14 : v(i, k) \in 1..N /\ n * 4 + 1 < v(i, k) /\ v(i, k) < N
      /\ n * 4 + 1 \in 1..N /\ N \in 1..N /\ N \in Nat
  BY <1>1
<1>4. DOMAIN P = 1..N /\ Len(P) = N /\ IsList(P, Len(P))
  <2> HIDE DEF N
  <2> QED BY <1>2, ListLen
<1>5. ASSUME NEW p \in {n * 4 + 1, N} PROVE p \notin Ops(P) /\ P[p].do # "elapsed"
  <2>1. p \in DOMAIN P /\ (P[p] = Sync(StreamNames) \/ P[p] = Collect(1))
    BY <1>2, <1>3, <1>4
  <2> QED BY <2>1, HostCall
<1>6. ASSUME NEW i \in 1..n, NEW k \in 1..4
      PROVE  WarmupAt(P, u(i, k)) /\ u(i, k) \in DOMAIN P /\ P[u(i, k)] = RunOnce[k]
  <2> DEFINE p == u(i, k)
  <2>1. p \in DOMAIN P /\ P[p] = RunOnce[k]
    BY <1>2, <1>3, <1>4
  <2> HIDE DEF p
  <2>2. P[p] \in {UploadA("null", 1), UploadB("null", 1), Gemm("null", 1), Download("null", 1)}
    BY <2>1 DEF RunOnce
  <2>3. WarmupAt(P, p)
    BY <2>1, <2>2, AnyCall DEF WarmupAt
  <2> QED BY <2>1, <2>3 DEF p
<1>7. ASSUME NEW i \in 1..n, NEW k \in 1..14
      PROVE  TimedAt(P, v(i, k), k) /\ v(i, k) \in DOMAIN P /\ P[v(i, k)] = TimedRun[k]
  <2> DEFINE p == v(i, k)
  <2>1. p \in DOMAIN P /\ P[p] = TimedRun[k]
    BY <1>2, <1>3, <1>4
  <2> HIDE DEF p
  <2>2. TimedAt(P, p, k)
    BY <2>1, TimedFields
  <2> QED BY <2>1, <2>2 DEF p
<1>8. ASSUME NEW p \in Ops(P)
      PROVE  \/ \E i \in 1..n, k \in 1..4 : p = u(i, k) /\ WarmupAt(P, p)
             \/ \E i \in 1..n, k \in 1..9 : p = v(i, k) /\ TimedAt(P, p, k)
  <2>1. p \in 1..N /\ p # n * 4 + 1 /\ p # N
    BY <1>4, <1>5 DEF Ops
  <2>2. CASE \E i \in 1..n, k \in 1..4 : p = u(i, k)
    <3>1. PICK i \in 1..n, k \in 1..4 : p = u(i, k)
      BY <2>2
    <3>2. WarmupAt(P, u(i, k))
      BY <1>6
    <3> QED BY <3>1, <3>2
  <2>3. CASE \E i \in 1..n, k \in 1..14 : p = v(i, k)
    <3>1. PICK i \in 1..n, k \in 1..14 : p = v(i, k)
      BY <2>3
    <3>2. TimedAt(P, v(i, k), k)
      BY <1>7
    <3>3. k \in 1..9
      BY <3>1, <3>2 DEF TimedAt
    <3> QED BY <3>1, <3>2, <3>3
  <2> QED BY <1>2, <2>1, <2>2, <2>3
<1>9. \A p \in Ops(P) : P[p].stream = "null"
  BY <1>8 DEF WarmupAt, TimedAt
<1>10. \A p \in Ops(P) \ Issues(P) : P[p].event \in EventNames
  BY <1>8 DEF WarmupAt, TimedAt
<1>11. ASSUME NEW i \in 1..n
       PROVE  /\ \A k \in 1..4 : InTurn(P, u(i, k))
              /\ u(i, 4) \in Writers(P, <<"hc", 1>>)
  <2> DEFINE a == u(i, 1)  b == u(i, 2)  g == u(i, 3)  d == u(i, 4)
  <2>1. /\ a \in DOMAIN P /\ b \in DOMAIN P /\ g \in DOMAIN P /\ d \in DOMAIN P
        /\ P[a] = RunOnce[1] /\ P[b] = RunOnce[2] /\ P[g] = RunOnce[3] /\ P[d] = RunOnce[4]
    BY <1>6
  <2>2. a < g /\ b < g /\ g < d
    BY <1>1
  <2>3. \A k \in 1..4 : u(i, k) \in {a, b, g, d}
    OBVIOUS
  <2> HIDE DEF a, b, g, d, u
  <2>4. /\ P[a] = UploadA("null", 1) /\ P[b] = UploadB("null", 1)
        /\ P[g] = Gemm("null", 1) /\ P[d] = Download("null", 1)
    BY <2>1 DEF RunOnce
  <2>5. InTurn(P, a) /\ InTurn(P, b) /\ InTurn(P, g) /\ InTurn(P, d) /\ d \in Writers(P, <<"hc", 1>>)
    BY <1>1, <2>1, <2>2, <2>4, OneTurn
  <2> QED BY <2>3, <2>5 DEF d
<1>12. ASSUME NEW i \in 1..n, NEW k \in {2, 3, 6, 8} PROVE InTurn(P, v(i, k))
  <2> DEFINE a == v(i, 2)  b == v(i, 3)  g == v(i, 6)  d == v(i, 8)
  <2>1. /\ a \in DOMAIN P /\ b \in DOMAIN P /\ g \in DOMAIN P /\ d \in DOMAIN P
        /\ P[a] = TimedRun[2] /\ P[b] = TimedRun[3] /\ P[g] = TimedRun[6] /\ P[d] = TimedRun[8]
    BY <1>7
  <2>2. a < g /\ b < g /\ g < d
    BY <1>1
  <2>3. v(i, k) \in {a, b, g, d}
    OBVIOUS
  <2> HIDE DEF a, b, g, d, v
  <2>4. /\ P[a] = UploadA("null", 1) /\ P[b] = UploadB("null", 1)
        /\ P[g] = Gemm("null", 1) /\ P[d] = Download("null", 1)
    BY <2>1 DEF TimedRun, TimedUpload, TimedGemm
  <2>5. InTurn(P, a) /\ InTurn(P, b) /\ InTurn(P, g) /\ InTurn(P, d)
    BY <1>1, <2>1, <2>2, <2>4, OneTurn
  <2> QED BY <2>3, <2>5
<1>13. ASSUME NEW q \in Issues(P) PROVE InTurn(P, q)
  <2>1. q \in Ops(P)
    BY DEF Issues
  <2>2. CASE \E i \in 1..n, k \in 1..4 : q = u(i, k)
    BY <1>11, <2>2
  <2>3. CASE \E i \in 1..n, k \in 1..9 : q = v(i, k) /\ TimedAt(P, q, k)
    <3>1. PICK i \in 1..n, k \in 1..9 : q = v(i, k) /\ TimedAt(P, q, k)
      BY <2>3
    <3>2. k \in {2, 3, 6, 8}
      BY <3>1 DEF TimedAt
    <3> QED BY <1>12, <3>1, <3>2
  <2> QED BY <1>8, <2>1, <2>2, <2>3
<1>14. Typed(P) /\ OneStreamPerEvent(P) /\ InputsReady(P) /\ NoClobber(P) /\ Serial(P)
  BY <1>1, <1>9, <1>10, <1>13, OneStreamProgram
<1>15. u(1, 4) \in Writers(P, <<"hc", 1>>)
  BY <1>1, <1>11
<1>16. ResultsInOrder(P, {1})
  BY <1>15 DEF ResultsInOrder
\* After the last wait of an iteration all that was issued up to it is done.
<1>17. ASSUME NEW i \in 1..n, NEW h \in 1..(N + 1), v(i, 10) < h,
              NEW p \in Ops(P), p <= v(i, 9)
       PROVE  Past(P, p, h)
  <2> DEFINE r == v(i, 9)  k == v(i, 10)
  <2>1. TimedAt(P, r, 9) /\ TimedAt(P, k, 10)
    BY <1>7
  <2>2. r < k /\ k \in 1..(h - 1) /\ h \in Int /\ r \in Int
    BY <1>1, <1>3, <1>17
  <2>3. p <= r /\ p \in Int
    BY <1>4, <1>17 DEF Ops
  <2> HIDE DEF r, k, u, v, N
  <2>4. r \in Records(P, <<"end", 0>>) /\ r \in Ops(P)
    BY <2>1 DEF TimedAt
  <2>5. P[k].do = "event_sync" /\ P[k].event = <<"end", 0>>
    BY <2>1 DEF TimedAt
  <2>6. P[p].stream = P[r].stream
    BY <1>9, <2>4
  <2>7. p = r \/ (p < r /\ P[p].stream = P[r].stream)
    BY <2>2, <2>3, <2>6
  <2> QED BY <2>2, <2>4, <2>5, <2>7, PastByEvent
<1>18. ASSUME NEW p \in Ops(P), NEW i \in 1..n, NEW k \in 10..14, p < v(i, k)
       PROVE  p <= v(i, 9)
  <2>1. CASE \E m \in 1..n, l \in 1..4 : p = u(m, l)
    BY <1>1, <1>3, <2>1
  <2>2. CASE \E m \in 1..n, l \in 1..9 : p = v(m, l)
    <3>1. PICK m \in 1..n, l \in 1..9 : p = v(m, l)
      BY <2>2
    <3>2. m <= i
      BY <1>1, <1>18, <3>1
    <3> QED BY <1>1, <3>1, <3>2
  <2> QED BY <1>8, <2>1, <2>2
<1>19. ASSUME NEW p \in Ops(P) PROVE p < N /\ p <= v(n, 9)
  <2>1. CASE \E m \in 1..n, l \in 1..4 : p = u(m, l)
    BY <1>1, <1>3, <2>1
  <2>2. CASE \E m \in 1..n, l \in 1..9 : p = v(m, l)
    BY <1>1, <1>3, <2>2
  <2> QED BY <1>8, <2>1, <2>2
<1>20. v(n, 10) < N /\ N \in 1..(N + 1) /\ N + 1 \in 1..(N + 1) /\ v(n, 10) < N + 1
  BY <1>1, <1>3
<1>21. CollectsLate(P)
  <2> SUFFICES ASSUME NEW c \in DOMAIN P, P[c].do = "collect"
               PROVE  /\ Writers(P, <<"hc", P[c].job>>) # {}
                      /\ \A p \in Writers(P, <<"hc", P[c].job>>) : p < c /\ Past(P, p, c)
    BY DEF CollectsLate
  <2>1. c = N
    <3>1. c # n * 4 + 1
      <4>1. ASSUME c = n * 4 + 1 PROVE FALSE
        <5>1. P[c] = Sync(StreamNames)
          BY <1>2, <4>1
        <5> QED BY <5>1, HostCall
      <4> QED BY <4>1
    <3>2. ~ \E i \in 1..n, k \in 1..4 : c = u(i, k)
      BY <1>6 DEF WarmupAt
    <3>3. ~ \E i \in 1..n, k \in 1..14 : c = v(i, k)
      BY <1>7 DEF TimedAt
    <3>4. c \in 1..N
      BY <1>4
    <3> HIDE DEF u, v, N
    <3> QED BY <1>2, <3>1, <3>2, <3>3, <3>4
  <2>2. P[c] = Collect(1)
    BY <1>2, <2>1
  <2>3. P[c].job = 1
    BY <2>2, HostCall
  <2>4. ASSUME NEW p \in Ops(P) PROVE p < c /\ Past(P, p, c)
    BY <1>1, <1>17, <1>19, <1>20, <2>1
  <2> QED BY <1>15, <2>3, <2>4 DEF Writers, Issues
<1>22. EndsQuiet(P)
  BY <1>1, <1>4, <1>17, <1>19, <1>20 DEF EndsQuiet
<1>23. TimersLate(P)
  <2> SUFFICES ASSUME NEW h \in DOMAIN P, P[h].do = "elapsed"
               PROVE  /\ \A p \in Ops(P) : p < h => Past(P, p, h)
                      /\ \A e \in P[h].events : e \in EventNames /\ \E r \in Records(P, e) : r < h
    BY DEF TimersLate
  <2>1. h # n * 4 + 1 /\ h # N
    BY <1>5
  <2>2. ~ \E i \in 1..n, k \in 1..4 : h = u(i, k)
    BY <1>6 DEF WarmupAt
  <2>3. PICK i \in 1..n, k \in 1..14 : h = v(i, k)
    BY <1>2, <1>4, <2>1, <2>2
  <2>4. TimedAt(P, h, k)
    BY <1>7, <2>3
  <2>5. k \in 11..14
    BY <2>4 DEF TimedAt
  <2>6. \A e \in P[h].events :
          e \in {<<"c0", 1>>, <<"c1", 1>>, <<"k0", 1>>, <<"k1", 1>>, <<"end", 0>>}
    BY <2>4 DEF TimedAt
  <2>7. ASSUME NEW p \in Ops(P), p < h PROVE Past(P, p, h)
    <3>1. p <= v(i, 9)
      BY <1>18, <2>3, <2>5, <2>7
    <3>2. v(i, 10) < h /\ h \in 1..(N + 1)
      BY <1>1, <1>3, <2>3, <2>5
    <3> QED BY <1>17, <3>1, <3>2
  <2>8. \A l \in 1..9 : v(i, l) < h
    BY <1>1, <2>3, <2>5
  <2>9. /\ v(i, 1) \in Records(P, <<"c0", 1>>)
        /\ v(i, 4) \in Records(P, <<"c1", 1>>)
        /\ v(i, 5) \in Records(P, <<"k0", 1>>)
        /\ v(i, 7) \in Records(P, <<"k1", 1>>)
        /\ v(i, 9) \in Records(P, <<"end", 0>>)
    <3>1. /\ TimedAt(P, v(i, 1), 1) /\ TimedAt(P, v(i, 4), 4) /\ TimedAt(P, v(i, 5), 5)
          /\ TimedAt(P, v(i, 7), 7) /\ TimedAt(P, v(i, 9), 9)
      BY <1>7
    <3> HIDE DEF v
    <3> QED BY <3>1 DEF TimedAt
  <2> HIDE DEF v
  <2> QED BY <2>6, <2>7, <2>8, <2>9, BenchEventNames
<1>24. WellOrdered(P, "gemm", {1})
  BY <1>4, <1>14, <1>16, <1>21, <1>22, <1>23 DEF WellOrdered
<1> QED BY <1>24 DEF P

-----------------------------------------------------------------------------
\* Each of the six host programs orders what it issues, for any number of
\* jobs: execute_batch, the four configurations of bench_overlap.cpp and
\* run_benchmark.
LEMMA ProgramsOrdered ==
  \A c \in Configs, n \in JobIds :
    WellOrdered(Programs[c][n], c, IF c = "gemm" THEN {1} ELSE 1..n)
<1> TAKE c \in Configs, n \in JobIds
<1> DEFINE jobs == IF c = "gemm" THEN {1} ELSE 1..n
<1>1. Programs[c][n] = ProgramOf(c, n)
  BY DEF Programs
<1>2. c \in ConfigNames
  BY NamesAssumption
<1>3. WellOrdered(ProgramOf(c, n), c, jobs)
  <2>1. CASE c = "scheduler"
    BY <2>1, SchedulerOrdered DEF ProgramOf
  <2>2. CASE c = "pageable"
    BY <2>2, PageableOrdered DEF ProgramOf
  <2>3. CASE c = "single"
    BY <2>3, PinnedSingleOrdered DEF ProgramOf
  <2>4. CASE c = "copy_compute"
    BY <2>4, PinnedOverlapOrdered DEF ProgramOf
  <2>5. CASE c = "double_buffer"
    BY <2>5, DoubleBufferOrdered DEF ProgramOf
  <2>6. CASE c = "gemm"
    BY <2>6, BenchmarkOrdered DEF ProgramOf
  <2> QED BY <1>2, <2>1, <2>2, <2>3, <2>4, <2>5, <2>6 DEF ConfigNames
<1> HIDE DEF jobs
<1>4. WellOrdered(Programs[c][n], c, jobs)
  BY <1>1, <1>3, Zenon
<1> QED BY <1>4 DEF jobs

-----------------------------------------------------------------------------
(***************************************************************************)
(* The inductive invariant.  An item knows the call that issued it, so     *)
(* what is finished can be read off the queues.                            *)
(***************************************************************************)
Items == [kind : {"work"}, reads : SUBSET LocationNames, writes : LocationNames, at : Nat]
           \cup [kind : {"record", "wait"}, event : EventNames, nth : Nat, at : Nat]

Queued(s) == {pending[s][i] : i \in 1..Len(pending[s])}
Pending == UNION {Queued(s) : s \in Streams}
Done == {p \in Ops(Program) : p < pc /\ \A x \in Pending : x.at # p}

HostTyped ==
  /\ config \in Configs /\ size \in JobIds /\ round \in Nat
  /\ pc \in 1..(Len(Program) + 1)
  /\ status \in {"running", "draining", "returned"} /\ failed \in BOOLEAN
  /\ round = 0 => status = "returned"
  /\ status = "draining" => failed
  /\ status = "returned" /\ ~failed /\ round > 0 => pc = Len(Program) + 1

DeviceTyped ==
  /\ pending \in [Streams -> Seq(Items)]
  /\ running \in [Streams -> BOOLEAN]
  /\ recorded \in [Events -> Nat] /\ fired \in [Events -> Nat]
  /\ holds \in [Locations -> Nat]

\* Every item is what its call issued, and a queue is in the program's order.
Matches(x, c) ==
  \/ c.do = "issue" /\ x.kind = "work" /\ x.reads = c.reads /\ x.writes = c.writes
  \/ c.do \in {"record", "wait"} /\ x.kind = c.do /\ x.event = c.event

QueuesMatch ==
  \A s \in Streams : \A x \in Queued(s) :
    /\ x.at \in Ops(Program) /\ x.at < pc
    /\ Program[x.at].stream = s /\ Matches(x, Program[x.at])

QueuesOrdered ==
  \A s \in Streams : \A i, j \in 1..Len(pending[s]) :
    i < j => pending[s][i].at < pending[s][j].at

RunningIsWork == \A s \in Streams : running[s] => HasOldest(s, "work")

\* The records of an event are numbered in the program's order, and a wait
\* asks for none later than those before it.
RecordsNumbered ==
  \A x \in Pending : x.kind = "record" =>
    /\ fired[x.event] < x.nth /\ x.nth <= recorded[x.event]
    /\ \A y \in Pending : y.kind = "record" /\ y.event = x.event /\ x.at < y.at => x.nth < y.nth
    /\ \A w \in Pending : w.kind = "wait" /\ w.event = x.event /\ x.at < w.at => x.nth <= w.nth

LastRecord ==
  \A e \in EventNames :
    /\ fired[e] = recorded[e]
         \/ \E x \in Pending : x.kind = "record" /\ x.event = e /\ x.nth = recorded[e]
    /\ \A r \in Records(Program, e) : r < pc => recorded[e] > 0

DoneClosed == Closed(Program, Done, pc)

OrderInv ==
  /\ HostTyped /\ DeviceTyped /\ QueuesMatch /\ QueuesOrdered /\ RunningIsWork
  /\ RecordsNumbered /\ LastRecord /\ DoneClosed /\ QuietWhenFreed

\* The data: inputs are this round's once they are filled, and so is whatever
\* a finished item wrote, unless it is being overwritten.
InputsHold ==
  \A l \in AllHostBuffers :
    \/ config # "scheduler"
    \/ \E f \in 1..(pc - 1) : Program[f].do = "fill" /\ l \in HostBuffers(Program[f].job)
    => holds[l] = round

ResultsHold ==
  \A l \in LocationNames \ AllHostBuffers :
    /\ Writers(Program, l) \cap Done # {}
    /\ \A s \in InFlight : Oldest(s).writes # l
    => holds[l] = round

DataInv == InputsHold /\ ResultsHold /\ \A c \in collected : c[2] = round

PipelineInv == OrderInv /\ DataInv

-----------------------------------------------------------------------------
(***************************************************************************)
(* Queues, and the set of finished items.                                  *)
(***************************************************************************)
LEMMA ClosedNext ==
  ASSUME NEW P, NEW D, NEW h \in Nat, Closed(P, D, h),
         P[h].do = "event_sync" => \A r \in Records(P, P[h].event) : r < h => r \in D,
         P[h].do = "sync" => \A p \in Ops(P) : p < h /\ P[p].stream \in P[h].streams => p \in D
  PROVE  Closed(P, D, h + 1)
<1>1. \A k \in 1..((h + 1) - 1) : k \in 1..(h - 1) \/ k = h
  OBVIOUS
<1> QED BY <1>1 DEF Closed

\* An item with all that it waits for finished can be added to the finished set.
LEMMA ClosedFinish ==
  ASSUME NEW P, NEW D, NEW h, Closed(P, D, h), NEW q \in Ops(P),
         \A p \in Ops(P) : p < q /\ P[p].stream = P[q].stream => p \in D,
         P[q].do = "wait" => \A r \in Records(P, P[q].event) : r < q => r \in D
  PROVE  Closed(P, D \cup {q}, h)
BY DEF Closed, Waits

\* What is closed at a call is closed at the calls before it.
LEMMA ClosedEarlier ==
  ASSUME NEW P, NEW D, NEW h \in Nat, NEW q \in Nat, q <= h, Closed(P, D, h)
  PROVE  Closed(P, D, q)
BY DEF Closed

\* An item more in a queue.
LEMMA AppendQueue ==
  ASSUME NEW s \in Streams, NEW x \in Items, pending \in [Streams -> Seq(Items)],
         pending' = [pending EXCEPT ![s] = Append(@, x)]
  PROVE  /\ pending' \in [Streams -> Seq(Items)]
         /\ Queued(s)' = Queued(s) \cup {x}
         /\ \A t \in Streams \ {s} : Queued(t)' = Queued(t)
         /\ Pending' = Pending \cup {x}
         /\ QueuesOrdered /\ (\A y \in Queued(s) : y.at < x.at) => QueuesOrdered'
         /\ \A t \in Streams : pending[t] # <<>> =>
              pending'[t] # <<>> /\ Head(pending'[t]) = Head(pending[t])
<1>1. /\ pending[s] \in Seq(Items) /\ pending'[s] = Append(pending[s], x)
      /\ \A t \in Streams \ {s} : pending'[t] = pending[t]
  OBVIOUS
<1>2. Len(pending'[s]) = Len(pending[s]) + 1 /\ Len(pending[s]) \in Nat
  BY <1>1
<1>3. /\ \A i \in 1..Len(pending[s]) : pending'[s][i] = pending[s][i]
      /\ pending'[s][Len(pending[s]) + 1] = x
  BY <1>1
<1>4. pending' \in [Streams -> Seq(Items)]
  BY <1>1
<1>5. Queued(s)' = Queued(s) \cup {x}
  <2>1. \A i \in 1..Len(pending'[s]) : i \in 1..Len(pending[s]) \/ i = Len(pending[s]) + 1
    BY <1>2
  <2>2. Len(pending[s]) + 1 \in 1..Len(pending'[s]) /\ 1..Len(pending[s]) \subseteq 1..Len(pending'[s])
    BY <1>2
  <2>3. ASSUME NEW y \in Queued(s)' PROVE y \in Queued(s) \cup {x}
    BY <1>3, <2>1 DEF Queued
  <2>4. ASSUME NEW y \in Queued(s) \cup {x} PROVE y \in Queued(s)'
    BY <1>3, <2>2 DEF Queued
  <2> QED BY <2>3, <2>4
<1>6. \A t \in Streams \ {s} : Queued(t)' = Queued(t)
  BY <1>1 DEF Queued
<1>7. Pending' = Pending \cup {x}
  BY <1>5, <1>6 DEF Pending
<1>8. QueuesOrdered /\ (\A y \in Queued(s) : y.at < x.at) => QueuesOrdered'
  <2> SUFFICES ASSUME QueuesOrdered, \A y \in Queued(s) : y.at < x.at, NEW t \in Streams,
                      NEW i \in 1..Len(pending'[t]), NEW j \in 1..Len(pending'[t]), i < j
               PROVE  pending'[t][i].at < pending'[t][j].at
    BY DEF QueuesOrdered
  <2>1. CASE t # s
    BY <2>1, <1>1 DEF QueuesOrdered
  <2>2. CASE t = s
    <3>0. i \in 1..(Len(pending[s]) + 1) /\ j \in 1..(Len(pending[s]) + 1)
      BY <2>2, <1>2
    <3>1. i \in 1..Len(pending[s])
      BY <3>0, <1>2
    <3>2. j \in 1..Len(pending[s]) \/ j = Len(pending[s]) + 1
      BY <3>0, <1>2
    <3>3. CASE j \in 1..Len(pending[s])
      BY <2>2, <3>1, <3>3, <1>3 DEF QueuesOrdered
    <3>4. CASE j = Len(pending[s]) + 1
      BY <2>2, <3>1, <3>4, <1>3 DEF Queued
    <3> QED BY <3>2, <3>3, <3>4
  <2> QED BY <2>1, <2>2
<1>9. \A t \in Streams : pending[t] # <<>> =>
        pending'[t] # <<>> /\ Head(pending'[t]) = Head(pending[t])
  BY <1>1
<1> QED BY <1>4, <1>5, <1>6, <1>7, <1>8, <1>9

\* The oldest item less in a queue.
LEMMA TailQueue ==
  ASSUME NEW s \in Streams, pending \in [Streams -> Seq(Items)], QueuesOrdered,
         pending[s] # <<>>, pending' = [pending EXCEPT ![s] = Tail(@)]
  PROVE  /\ pending' \in [Streams -> Seq(Items)]
         /\ Queued(s) = Queued(s)' \cup {Oldest(s)}
         /\ \A y \in Queued(s)' : Oldest(s).at < y.at
         /\ \A t \in Streams \ {s} : Queued(t)' = Queued(t) /\ pending'[t] = pending[t]
         /\ Pending = Pending' \cup {Oldest(s)}
         /\ QueuesOrdered'
<1>1. /\ pending[s] \in Seq(Items) /\ pending'[s] = Tail(pending[s])
      /\ \A t \in Streams \ {s} : pending'[t] = pending[t]
  OBVIOUS
<1>2. Len(pending'[s]) = Len(pending[s]) - 1 /\ Len(pending[s]) \in Nat /\ Len(pending[s]) >= 1
  BY <1>1
<1>3. /\ \A i \in 1..Len(pending'[s]) : pending'[s][i] = pending[s][i + 1]
      /\ pending[s][1] = Oldest(s)
  BY <1>1 DEF Oldest
<1>4. pending' \in [Streams -> Seq(Items)]
  BY <1>1
<1>5. Queued(s) = Queued(s)' \cup {Oldest(s)}
  <2>1. ASSUME NEW i \in 1..Len(pending[s])
        PROVE  i = 1 \/ (i - 1 \in 1..Len(pending'[s]) /\ (i - 1) + 1 = i)
    BY <1>2
  <2>2. ASSUME NEW i \in 1..Len(pending'[s]) PROVE i + 1 \in 1..Len(pending[s])
    BY <1>2
  <2>3. 1 \in 1..Len(pending[s])
    BY <1>2
  <2>4. ASSUME NEW y \in Queued(s) PROVE y \in Queued(s)' \cup {Oldest(s)}
    <3>1. PICK i \in 1..Len(pending[s]) : y = pending[s][i]
      BY DEF Queued
    <3>2. CASE i = 1
      BY <3>1, <3>2, <1>3
    <3>3. CASE i - 1 \in 1..Len(pending'[s]) /\ (i - 1) + 1 = i
      BY <3>1, <3>3, <1>3 DEF Queued
    <3> QED BY <3>2, <3>3, <2>1
  <2>5. ASSUME NEW y \in Queued(s)' \cup {Oldest(s)} PROVE y \in Queued(s)
    BY <1>3, <2>2, <2>3 DEF Queued
  <2> QED BY <2>4, <2>5
<1>6. \A y \in Queued(s)' : Oldest(s).at < y.at
  <2> SUFFICES ASSUME NEW i \in 1..Len(pending'[s])
               PROVE  Oldest(s).at < pending'[s][i].at
    BY DEF Queued
  <2>1. i + 1 \in 1..Len(pending[s]) /\ 1 \in 1..Len(pending[s]) /\ 1 < i + 1
    BY <1>2
  <2> QED BY <2>1, <1>3 DEF QueuesOrdered
<1>7. \A t \in Streams \ {s} : Queued(t)' = Queued(t)
  BY <1>1 DEF Queued
<1>8. Pending = Pending' \cup {Oldest(s)}
  BY <1>5, <1>7 DEF Pending
<1>9. QueuesOrdered'
  <2> SUFFICES ASSUME NEW t \in Streams,
                      NEW i \in 1..Len(pending'[t]), NEW j \in 1..Len(pending'[t]), i < j
               PROVE  pending'[t][i].at < pending'[t][j].at
    BY DEF QueuesOrdered
  <2>1. CASE t # s
    BY <2>1, <1>1 DEF QueuesOrdered
  <2>2. CASE t = s
    <3>1. i + 1 \in 1..Len(pending[s]) /\ j + 1 \in 1..Len(pending[s]) /\ i + 1 < j + 1
      BY <2>2, <1>2
    <3> QED BY <2>2, <3>1, <1>3 DEF QueuesOrdered
  <2> QED BY <2>1, <2>2
<1> QED BY <1>1, <1>4, <1>5, <1>6, <1>7, <1>8, <1>9

\* The oldest item of a queue has the smallest call number.
LEMMA HeadOfQueue ==
  ASSUME NEW s \in Streams, pending \in [Streams -> Seq(Items)], QueuesOrdered,
         pending[s] # <<>>
  PROVE  /\ Oldest(s) \in Queued(s) /\ Oldest(s) \in Items
         /\ \A y \in Queued(s) : y = Oldest(s) \/ Oldest(s).at < y.at
<1>1. pending[s] \in Seq(Items) /\ Len(pending[s]) \in Nat /\ Len(pending[s]) >= 1
  OBVIOUS
<1>2. Oldest(s) = pending[s][1] /\ 1 \in 1..Len(pending[s]) /\ pending[s][1] \in Items
  BY <1>1 DEF Oldest
<1>3. \A i \in 1..Len(pending[s]) : i = 1 \/ 1 < i
  BY <1>1
<1> QED BY <1>2, <1>3 DEF Queued, QueuesOrdered

\* What is queued is an item.
LEMMA QueuedTyped ==
  ASSUME pending \in [Streams -> Seq(Items)]
  PROVE  /\ \A s \in Streams : \A x \in Queued(s) : x \in Items
         /\ \A x \in Pending : x \in Items /\ x.at \in Nat
         /\ \A s \in Streams : pending[s] = <<>> <=> Queued(s) = {}
<1>1. ASSUME NEW s \in Streams, NEW x \in Queued(s) PROVE x \in Items
  <2>1. pending[s] \in Seq(Items)
    OBVIOUS
  <2> QED BY <2>1 DEF Queued
<1>2. \A x \in Items : x.at \in Nat
  BY DEF Items
<1>3. ASSUME NEW s \in Streams PROVE pending[s] = <<>> <=> Queued(s) = {}
  <2>1. pending[s] \in Seq(Items)
    OBVIOUS
  <2>2. CASE pending[s] = <<>>
    BY <2>2 DEF Queued
  <2>3. CASE pending[s] # <<>>
    <3>1. 1 \in 1..Len(pending[s])
      BY <2>1, <2>3
    <3> QED BY <3>1, <2>3 DEF Queued
  <2> QED BY <2>2, <2>3
<1> QED BY <1>1, <1>2, <1>3 DEF Pending

-----------------------------------------------------------------------------
(***************************************************************************)
(* The order is preserved by every step.                                   *)
(***************************************************************************)
ProgramOrdered == WellOrdered(Program, config, RoundJobs)

\* The next call is a call of the program.
LEMMA ProgramDomain ==
  ASSUME ProgramOrdered
  PROVE  Len(Program) \in Nat /\ DOMAIN Program = 1..Len(Program)
BY DEF ProgramOrdered, WellOrdered, IsList

\* The host moves to the next call.
LEMMA Advanced ==
  ASSUME ProgramOrdered, HostTyped, pc <= Len(Program), Advance
  PROVE  /\ Program' = Program /\ pc' = pc + 1 /\ pc \in 1..Len(Program)
         /\ status' = status /\ failed' = failed
         /\ config' = config /\ size' = size /\ round' = round
<1>1. /\ pc' = pc + 1 /\ status' = status /\ failed' = failed
      /\ config' = config /\ size' = size /\ round' = round
  BY DEF Advance
<1>2. Program' = Program
  BY <1>1 DEF Program
<1>3. pc \in 1..Len(Program)
  BY ProgramDomain DEF HostTyped
<1> QED BY <1>1, <1>2, <1>3

\* A call that issues nothing: what the host waited for is finished.
LEMMA CallOnly ==
  ASSUME ProgramOrdered, OrderInv, status = "running", pc <= Len(Program), Advance,
         Call.do \notin {"issue", "record", "wait"},
         Call.do = "event_sync" => fired[Call.event] = recorded[Call.event],
         Call.do = "sync" => \A s \in Call.streams : pending[s] = <<>>,
         pending' = pending, running' = running, recorded' = recorded, fired' = fired,
         holds' \in [Locations -> Nat]
  PROVE  OrderInv' /\ Program' = Program /\ Done' = Done
<1>1. /\ Program' = Program /\ pc' = pc + 1 /\ pc \in 1..Len(Program)
      /\ status' = status /\ failed' = failed
      /\ config' = config /\ size' = size /\ round' = round
  BY Advanced DEF OrderInv
<1>2. Pending' = Pending /\ \A s \in Streams : Queued(s)' = Queued(s)
  BY DEF Pending, Queued
<1>3. Done' = Done
  <2>1. pc \notin Ops(Program)
    BY DEF Ops, Call
  <2>2. \A p \in Ops(Program) : p \in Nat
    BY ProgramDomain DEF Ops
  <2> QED BY <1>1, <1>2, <2>1, <2>2 DEF Done
<1>4. HostTyped'
  BY <1>1, ProgramDomain DEF OrderInv, HostTyped
<1>5. DeviceTyped'
  BY DEF OrderInv, DeviceTyped
<1>6. QueuesMatch'
  <2>1. \A p \in Ops(Program) : p < pc => p < pc + 1
    BY <1>1, ProgramDomain DEF Ops
  <2> QED BY <1>1, <1>2, <2>1 DEF OrderInv, QueuesMatch
<1>7. QueuesOrdered' /\ RunningIsWork'
  BY DEF OrderInv, QueuesOrdered, RunningIsWork, HasOldest, Oldest
<1>8. RecordsNumbered'
  BY <1>2 DEF OrderInv, RecordsNumbered
<1>9. LastRecord'
  <2>1. \A e \in EventNames : \A r \in Records(Program, e) : r < pc + 1 => r < pc
    <3> TAKE e \in EventNames
    <3> TAKE r \in Records(Program, e)
    <3>1. r # pc /\ r \in Nat
      BY ProgramDomain DEF Records, Ops, Call
    <3> QED BY <3>1, <1>1
  <2> QED BY <1>1, <1>2, <2>1 DEF OrderInv, LastRecord
<1>10. DoneClosed'
  <2> USE DEF Call
  <2>1. ASSUME Call.do = "event_sync", NEW r \in Records(Program, Call.event), r < pc
        PROVE  r \in Done
    <3>1. r \in Ops(Program) /\ Program[r].do = "record" /\ Program[r].event = Call.event
      BY <2>1 DEF Records
    <3>2. ASSUME NEW x \in Pending, x.at = r PROVE FALSE
      <4>1. PICK s \in Streams : x \in Queued(s)
        BY DEF Pending
      <4>2. x.kind = "record" /\ x.event = Call.event
        BY <3>1, <3>2, <4>1 DEF OrderInv, QueuesMatch, Matches
      <4>3. fired[x.event] < x.nth /\ x.nth <= recorded[x.event]
        BY <4>2 DEF OrderInv, RecordsNumbered
      <4>4. x \in Items
        BY QueuedTyped DEF OrderInv, DeviceTyped
      <4>5. x.event \in Events /\ x.nth \in Nat
        BY <4>2, <4>4, NamesAssumption DEF Items
      <4>6. fired[x.event] \in Nat /\ recorded[x.event] \in Nat
        BY <4>5 DEF OrderInv, DeviceTyped
      <4> QED BY <2>1, <4>2, <4>3, <4>5, <4>6
    <3> QED BY <3>1, <3>2, <2>1 DEF Done
  <2>2. ASSUME Call.do = "sync", NEW p \in Ops(Program), p < pc, Program[p].stream \in Call.streams
        PROVE  p \in Done
    <3>1. ASSUME NEW x \in Pending, x.at = p PROVE FALSE
      <4>1. PICK s \in Streams : x \in Queued(s)
        BY DEF Pending
      <4>2. Program[p].stream = s
        BY <3>1, <4>1 DEF OrderInv, QueuesMatch
      <4>3. pending[s] = <<>>
        BY <2>2, <4>2
      <4> QED BY <4>1, <4>3, QueuedTyped DEF OrderInv, DeviceTyped
    <3> QED BY <3>1, <2>2 DEF Done
  <2>3. Closed(Program, Done, pc + 1)
    <3>1. pc \in Nat /\ Closed(Program, Done, pc)
      BY <1>1 DEF OrderInv, DoneClosed
    <3> QED BY <3>1, <2>1, <2>2, ClosedNext
  <2> QED BY <1>1, <1>3, <2>3 DEF DoneClosed
<1>11. QuietWhenFreed'
  BY <1>1 DEF QuietWhenFreed
<1> QED BY <1>1, <1>3, <1>4, <1>5, <1>6, <1>7, <1>8, <1>9, <1>10, <1>11 DEF OrderInv

\* A call that issues item x to stream s.
LEMMA QueueGrows ==
  ASSUME ProgramOrdered, OrderInv, status = "running", pc <= Len(Program), Advance,
         NEW s \in Streams, NEW x \in Items, x.at = pc,
         Call.do \in {"issue", "record", "wait"}, Call.stream = s, Matches(x, Call),
         pending' = [pending EXCEPT ![s] = Append(@, x)], running' = running
  PROVE  /\ Pending' = Pending \cup {x} /\ \A y \in Pending : y.at < pc
         /\ Program' = Program /\ pc' = pc + 1 /\ pending' \in [Streams -> Seq(Items)]
         /\ HostTyped' /\ QueuesMatch' /\ QueuesOrdered' /\ RunningIsWork'
         /\ Done' = Done /\ DoneClosed' /\ QuietWhenFreed'
         /\ \A t \in Streams : running[t] => Oldest(t)' = Oldest(t)
<1>1. /\ Program' = Program /\ pc' = pc + 1 /\ pc \in 1..Len(Program)
      /\ status' = status /\ failed' = failed
      /\ config' = config /\ size' = size /\ round' = round
  BY Advanced DEF OrderInv
<1>2. pending \in [Streams -> Seq(Items)]
  BY DEF OrderInv, DeviceTyped
<1>3. /\ pending' \in [Streams -> Seq(Items)]
      /\ Queued(s)' = Queued(s) \cup {x}
      /\ \A t \in Streams \ {s} : Queued(t)' = Queued(t)
      /\ Pending' = Pending \cup {x}
      /\ QueuesOrdered /\ (\A y \in Queued(s) : y.at < x.at) => QueuesOrdered'
      /\ \A t \in Streams : pending[t] # <<>> =>
           pending'[t] # <<>> /\ Head(pending'[t]) = Head(pending[t])
  BY <1>2, AppendQueue
<1>4. /\ \A t \in Streams : \A y \in Queued(t) : y.at < pc
      /\ \A y \in Pending : y.at < pc
  BY DEF OrderInv, QueuesMatch, Pending
<1>5. pc \in Ops(Program) /\ \A p \in Ops(Program) : p \in Nat
  BY <1>1, ProgramDomain DEF Ops, Call
<1>6. HostTyped'
  BY <1>1, ProgramDomain DEF OrderInv, HostTyped
<1>7. QueuesMatch'
  <2> SUFFICES ASSUME NEW t \in Streams, NEW y \in Queued(t)'
               PROVE  /\ y.at \in Ops(Program) /\ y.at < pc + 1
                      /\ Program[y.at].stream = t /\ Matches(y, Program[y.at])
    BY <1>1 DEF QueuesMatch
  <2>1. CASE y \in Queued(t)
    <3>1. /\ y.at \in Ops(Program) /\ y.at < pc
          /\ Program[y.at].stream = t /\ Matches(y, Program[y.at])
      BY <2>1 DEF OrderInv, QueuesMatch
    <3>2. y.at < pc + 1
      BY <3>1, <1>5
    <3> QED BY <3>1, <3>2
  <2>2. CASE t = s /\ y = x
    BY <2>2, <1>5 DEF Call
  <2> QED BY <2>1, <2>2, <1>3
<1>8. QueuesOrdered'
  BY <1>3, <1>4 DEF OrderInv
<1>9. RunningIsWork'
  BY <1>3 DEF OrderInv, RunningIsWork, HasOldest, Oldest
<1>10. Done' = Done
  <2>1. \A p \in Ops(Program) : p < pc + 1 /\ p # pc <=> p < pc
    BY <1>1, <1>5
  <2>2. \A p \in Ops(Program) : (\A y \in Pending \cup {x} : y.at # p) <=> (\A y \in Pending : y.at # p) /\ p # pc
    OBVIOUS
  <2> QED BY <1>1, <1>3, <2>1, <2>2 DEF Done
<1>11. DoneClosed'
  <2>1. pc \in Nat /\ Closed(Program, Done, pc)
    BY <1>1 DEF OrderInv, DoneClosed
  <2>2. Closed(Program, Done, pc + 1)
    BY <2>1, ClosedNext DEF Call
  <2> QED BY <1>1, <1>10, <2>2 DEF DoneClosed
<1>12. QuietWhenFreed'
  BY <1>1 DEF QuietWhenFreed
<1>13. \A t \in Streams : running[t] => Oldest(t)' = Oldest(t)
  BY <1>3 DEF OrderInv, RunningIsWork, HasOldest, Oldest
<1> QED BY <1>13, <1>1, <1>3, <1>4, <1>6, <1>7, <1>8, <1>9, <1>10, <1>11, <1>12

\* The oldest item of stream s is finished.
LEMMA QueueShrinks ==
  ASSUME ProgramOrdered, OrderInv, UNCHANGED hostVars,
         NEW s \in Streams, pending[s] # <<>>,
         Oldest(s).kind = "wait" => fired[Oldest(s).event] >= Oldest(s).nth,
         pending' = [pending EXCEPT ![s] = Tail(@)],
         running' \in [Streams -> BOOLEAN], ~running'[s],
         \A t \in Streams \ {s} : running'[t] = running[t]
  PROVE  /\ Pending = Pending' \cup {Oldest(s)} /\ Program' = Program
         /\ pending' \in [Streams -> Seq(Items)]
         /\ \A y \in Pending' : Program[y.at].stream = s => Oldest(s).at < y.at
         /\ HostTyped' /\ QueuesMatch' /\ QueuesOrdered' /\ RunningIsWork'
         /\ Done' = Done \cup {Oldest(s).at} /\ DoneClosed' /\ QuietWhenFreed'
<1> DEFINE x == Oldest(s)
<1>1. /\ Program' = Program /\ pc' = pc /\ pc \in 1..(Len(Program) + 1)
      /\ status' = status /\ failed' = failed
      /\ config' = config /\ size' = size /\ round' = round
  BY DEF hostVars, Program, OrderInv, HostTyped
<1>2. pending \in [Streams -> Seq(Items)] /\ QueuesOrdered /\ QueuesMatch
  BY DEF OrderInv, DeviceTyped
<1>3. /\ pending' \in [Streams -> Seq(Items)]
      /\ Queued(s) = Queued(s)' \cup {x}
      /\ \A y \in Queued(s)' : x.at < y.at
      /\ \A t \in Streams \ {s} : Queued(t)' = Queued(t) /\ pending'[t] = pending[t]
      /\ Pending = Pending' \cup {x}
      /\ QueuesOrdered'
  BY <1>2, TailQueue
<1>4. /\ x \in Queued(s) /\ x \in Items /\ x \in Pending
      /\ \A y \in Queued(s) : y = x \/ x.at < y.at
  BY <1>2, HeadOfQueue DEF Pending
<1>5. /\ x.at \in Ops(Program) /\ x.at < pc
      /\ Program[x.at].stream = s /\ Matches(x, Program[x.at])
  BY <1>2, <1>4 DEF QueuesMatch
<1> HIDE DEF x
<1>6. \A p \in Ops(Program) : p \in Nat
  BY ProgramDomain DEF Ops
<1>7. HostTyped'
  BY <1>1, ProgramDomain DEF OrderInv, HostTyped
<1>8. QueuesMatch'
  <2> SUFFICES ASSUME NEW t \in Streams, NEW y \in Queued(t)'
               PROVE  /\ y.at \in Ops(Program) /\ y.at < pc
                      /\ Program[y.at].stream = t /\ Matches(y, Program[y.at])
    BY <1>1 DEF QueuesMatch
  <2>1. y \in Queued(t)
    BY <1>3
  <2> QED BY <2>1, <1>2 DEF QueuesMatch
<1>9. RunningIsWork'
  BY <1>3 DEF OrderInv, RunningIsWork, HasOldest, Oldest
<1>10. \A y \in Pending' : Program[y.at].stream = s => x.at < y.at
  <2> SUFFICES ASSUME NEW t \in Streams, NEW y \in Queued(t)', Program[y.at].stream = s
               PROVE  x.at < y.at
    BY DEF Pending
  <2>1. t = s
    BY <1>8, <1>1 DEF QueuesMatch
  <2> QED BY <2>1, <1>3
<1>11. Done' = Done \cup {x.at}
  <2>1. \A y \in Pending' : y.at # x.at
    BY <1>5, <1>6, <1>10
  <2>2. \A p \in Ops(Program) : (\A y \in Pending : y.at # p) <=> (\A y \in Pending' : y.at # p) /\ p # x.at
    BY <1>3
  <2>3. Done' = {p \in Ops(Program) : p < pc /\ \A y \in Pending' : y.at # p}
    BY <1>1 DEF Done
  <2>4. Done = {p \in Ops(Program) : p < pc /\ \A y \in Pending : y.at # p}
    BY DEF Done
  <2> QED BY <2>1, <2>2, <2>3, <2>4, <1>5
<1>12. \A p \in Ops(Program) : p < x.at /\ Program[p].stream = s => p \in Done
  <2> SUFFICES ASSUME NEW p \in Ops(Program), p < x.at, Program[p].stream = s,
                      NEW y \in Pending, y.at = p
               PROVE  FALSE
    BY <1>5, <1>6, <1>1 DEF Done
  <2>1. PICK t \in Streams : y \in Queued(t)
    BY DEF Pending
  <2>2. t = s
    BY <2>1, <1>2 DEF QueuesMatch
  <2>3. y = x \/ x.at < y.at
    BY <2>1, <2>2, <1>4
  <2> QED BY <2>3, <1>5, <1>6
<1>13. ASSUME Program[x.at].do = "wait", NEW r \in Records(Program, Program[x.at].event), r < x.at
       PROVE  r \in Done
  <2>1. /\ r \in Ops(Program) /\ Program[r].do = "record"
        /\ Program[r].event = Program[x.at].event
    BY DEF Records
  <2>2. ASSUME NEW y \in Pending, y.at = r PROVE FALSE
    <3>1. PICK t \in Streams : y \in Queued(t)
      BY DEF Pending
    <3>2. x.kind = "wait" /\ x.event = Program[x.at].event
      BY <1>5, <1>13 DEF Matches
    <3>3. y.kind = "record" /\ y.event = x.event
      BY <3>1, <3>2, <2>1, <2>2, <1>2 DEF QueuesMatch, Matches
    <3>4. fired[x.event] >= x.nth
      BY <3>2 DEF x
    <3>5. fired[y.event] < y.nth /\ y.nth <= x.nth
      BY <1>4, <1>13, <3>2, <3>3, <2>2 DEF OrderInv, RecordsNumbered
    <3>6. y \in Items
      BY <1>2, QueuedTyped
    <3>7. x.nth \in Nat /\ y.nth \in Nat /\ x.event \in Events
      BY <1>4, <3>2, <3>3, <3>6, NamesAssumption DEF Items
    <3>8. fired[x.event] \in Nat
      BY <3>7 DEF OrderInv, DeviceTyped
    <3> QED BY <3>3, <3>4, <3>5, <3>7, <3>8
  <2> QED BY <2>1, <2>2, <1>5, <1>6, <1>13, <1>1 DEF Done
<1>14. DoneClosed'
  <2>1. Closed(Program, Done, pc)
    BY DEF OrderInv, DoneClosed
  <2>2. Closed(Program, Done \cup {x.at}, pc)
    BY <2>1, <1>5, <1>12, <1>13, ClosedFinish
  <2> QED BY <1>1, <1>11, <2>2 DEF DoneClosed
<1>15. QuietWhenFreed'
  <2>1. status # "returned"
    BY DEF OrderInv, QuietWhenFreed, DeviceQuiet
  <2> QED BY <1>1, <2>1 DEF QuietWhenFreed
<1> QED BY <1>1, <1>3, <1>7, <1>8, <1>9, <1>10, <1>11, <1>14, <1>15 DEF x

-----------------------------------------------------------------------------
\* What is past is finished.
LEMMA PastDone ==
  ASSUME OrderInv, NEW p, Past(Program, p, pc)
  PROVE  p \in Done
BY DEF Past, OrderInv, DoneClosed, Done

\* At the end of the program everything is finished.
LEMMA AllFinished ==
  ASSUME OrderInv, \A p \in Ops(Program) : p < pc => Past(Program, p, pc)
  PROVE  DeviceQuiet /\ Pending = {}
<1>1. ASSUME NEW x \in Pending PROVE FALSE
  <2>1. x.at \in Ops(Program) /\ x.at < pc
    BY DEF OrderInv, QueuesMatch, Pending
  <2>2. x.at \in Done
    BY <2>1, PastDone
  <2> QED BY <2>2 DEF Done
<1>2. \A s \in Streams : Queued(s) = {}
  BY <1>1 DEF Pending
<1>3. \A s \in Streams : pending[s] = <<>>
  BY <1>2, QueuedTyped DEF OrderInv, DeviceTyped
<1> QED BY <1>1, <1>3 DEF DeviceQuiet

\* When everything is finished the device is quiet.
LEMMA NothingPending ==
  ASSUME DeviceQuiet
  PROVE  Pending = {} /\ \A s \in Streams : Queued(s) = {}
BY DEF DeviceQuiet, Pending, Queued

\* At the first call nothing is finished.
LEMMA NoneDone ==
  ASSUME ProgramOrdered, pc = 1
  PROVE  Done = {} /\ DoneClosed
<1>1. \A p \in Ops(Program) : p \in Nat /\ p >= 1
  BY ProgramDomain DEF Ops
<1>2. Done = {}
  BY <1>1 DEF Done
<1>3. Closed(Program, {}, 1)
  BY DEF Closed
<1> QED BY <1>2, <1>3 DEF DoneClosed

\* The initial states.
LEMMA InitOrder == ASSUME Init PROVE OrderInv
<1> USE DEF Init, DeviceInit
<1>1. config \in Configs /\ size \in JobIds /\ ProgramOrdered
  BY ProgramsOrdered DEF ProgramOrdered, Program, RoundJobs
<1>2. Len(Program) \in Nat
  BY <1>1, ProgramDomain
<1>3. HostTyped
  <2>1. pc \in 1..(Len(Program) + 1) /\ round \in Nat /\ ~(round > 0)
    BY <1>2
  <2> QED BY <1>1, <2>1, Zenon DEF HostTyped
<1>4. DeviceTyped
  BY DEF DeviceTyped
<1>5. DeviceQuiet
  BY DEF DeviceQuiet
<1>6. Pending = {} /\ \A s \in Streams : Queued(s) = {}
  BY <1>5, NothingPending
<1>7. QueuesMatch /\ RecordsNumbered
  BY <1>6 DEF QueuesMatch, RecordsNumbered
<1>8. QueuesOrdered /\ RunningIsWork /\ QuietWhenFreed
  BY <1>5 DEF QueuesOrdered, RunningIsWork, QuietWhenFreed, DeviceQuiet
<1>9. LastRecord
  <2>1. \A p \in Ops(Program) : ~(p < 1)
    BY <1>1, ProgramDomain DEF Ops
  <2>2. \A e \in EventNames : fired[e] = recorded[e]
    BY NamesAssumption
  <2>3. \A e \in EventNames : \A r \in Records(Program, e) : ~(r < 1)
    BY <2>1 DEF Records
  <2> QED BY <2>2, <2>3 DEF LastRecord
<1>10. DoneClosed
  BY <1>1, NoneDone
<1> QED BY <1>3, <1>4, <1>7, <1>8, <1>9, <1>10 DEF OrderInv

\* A step that leaves the device and the place in the program alone.
LEMMA OrderKept ==
  ASSUME OrderInv, UNCHANGED <<deviceVars, config, size, round, pc>>,
         status' \in {"running", "draining", "returned"}, failed' \in BOOLEAN,
         round = 0 => status' = "returned", status' = "draining" => failed',
         status' = "returned" => DeviceQuiet,
         status' = "returned" /\ ~failed' /\ round > 0 => pc = Len(Program) + 1
  PROVE  OrderInv'
<1>0. /\ pending' = pending /\ running' = running /\ recorded' = recorded
      /\ fired' = fired /\ holds' = holds
      /\ config' = config /\ size' = size /\ round' = round /\ pc' = pc
  BY DEF deviceVars
<1>1. Program' = Program
  BY <1>0 DEF Program
<1>2. Pending' = Pending /\ \A s \in Streams : Queued(s)' = Queued(s)
  BY <1>0 DEF Pending, Queued
<1>3. Done' = Done
  BY <1>0, <1>1, <1>2 DEF Done
<1>4. HostTyped'
  BY <1>0, <1>1 DEF OrderInv, HostTyped
<1>5. DeviceTyped'
  BY <1>0 DEF OrderInv, DeviceTyped
<1>6. QueuesMatch' /\ RecordsNumbered'
  BY <1>0, <1>1, <1>2 DEF OrderInv, QueuesMatch, RecordsNumbered
<1>7. QueuesOrdered' /\ RunningIsWork'
  BY <1>0 DEF OrderInv, QueuesOrdered, RunningIsWork, HasOldest, Oldest
<1>8. LastRecord' /\ DoneClosed'
  BY <1>0, <1>1, <1>2, <1>3 DEF OrderInv, LastRecord, DoneClosed
<1>9. QuietWhenFreed'
  BY <1>0 DEF QuietWhenFreed, DeviceQuiet
<1> QED BY <1>4, <1>5, <1>6, <1>7, <1>8, <1>9 DEF OrderInv

\* A copy or a kernel is issued.
LEMMA OrderIssue ==
  ASSUME ProgramOrdered, OrderInv, CallIssue
  PROVE  OrderInv' /\ Done' = Done /\ \A t \in Streams : running[t] => Oldest(t)' = Oldest(t)
<1> DEFINE x == [kind |-> "work", reads |-> Call.reads, writes |-> Call.writes, at |-> pc]
           s == Call.stream
<1>1. /\ status = "running" /\ pc <= Len(Program) /\ Call.do = "issue" /\ Advance
      /\ pending' = [pending EXCEPT ![s] = Append(@, x)]
      /\ running' = running /\ recorded' = recorded /\ fired' = fired /\ holds' = holds
  BY DEF CallIssue, AtCall, Launch
<1>2. pc \in Nat /\ pc \in Issues(Program) /\ pc \in Ops(Program)
  BY <1>1, ProgramDomain DEF OrderInv, HostTyped, Issues, Ops, Call
<1>3. s \in Streams /\ x \in Items
  BY <1>2, NamesAssumption DEF ProgramOrdered, WellOrdered, Typed, Items, Call
<1>4. x.at = pc /\ Matches(x, Call)
  BY <1>1 DEF Matches
<1>0. x.kind = "work"
  OBVIOUS
<1> HIDE DEF x, s
<1>5. /\ Pending' = Pending \cup {x} /\ \A y \in Pending : y.at < pc
      /\ Program' = Program /\ pc' = pc + 1 /\ pending' \in [Streams -> Seq(Items)]
      /\ HostTyped' /\ QueuesMatch' /\ QueuesOrdered' /\ RunningIsWork'
      /\ Done' = Done /\ DoneClosed' /\ QuietWhenFreed'
      /\ \A t \in Streams : running[t] => Oldest(t)' = Oldest(t)
  BY <1>1, <1>3, <1>4, QueueGrows DEF s
<1>6. DeviceTyped'
  BY <1>1, <1>5 DEF OrderInv, DeviceTyped
<1>7. RecordsNumbered'
  BY <1>0, <1>1, <1>5 DEF OrderInv, RecordsNumbered
<1>8. LastRecord'
  <2>1. \A e \in EventNames : \A r \in Records(Program, e) : r < pc + 1 => r < pc
    <3> TAKE e \in EventNames
    <3> TAKE r \in Records(Program, e)
    <3>1. r # pc /\ r \in Nat
      BY <1>1, ProgramDomain DEF Records, Ops, Call
    <3> QED BY <3>1, <1>2
  <2> QED BY <1>1, <1>5, <2>1 DEF OrderInv, LastRecord
<1> QED BY <1>5, <1>6, <1>7, <1>8 DEF OrderInv

\* cudaStreamWaitEvent.
LEMMA OrderWait ==
  ASSUME ProgramOrdered, OrderInv, CallWait
  PROVE  OrderInv' /\ Done' = Done /\ \A t \in Streams : running[t] => Oldest(t)' = Oldest(t)
<1> DEFINE x == [kind |-> "wait", event |-> Call.event, nth |-> recorded[Call.event], at |-> pc]
           s == Call.stream
<1>1. /\ status = "running" /\ pc <= Len(Program) /\ Call.do = "wait" /\ Advance
      /\ pending' = [pending EXCEPT ![s] = Append(@, x)]
      /\ running' = running /\ recorded' = recorded /\ fired' = fired /\ holds' = holds
  BY DEF CallWait, AtCall, WaitEvent
<1>2. pc \in Nat /\ pc \in Ops(Program) \ Issues(Program)
  BY <1>1, ProgramDomain DEF OrderInv, HostTyped, Issues, Ops, Call
<1>3. s \in Streams /\ Call.event \in EventNames
  BY <1>2, NamesAssumption DEF ProgramOrdered, WellOrdered, Typed, Call
<1>4. recorded[Call.event] \in Nat
  BY <1>3, NamesAssumption DEF OrderInv, DeviceTyped
<1>5. x \in Items
  BY <1>2, <1>3, <1>4 DEF Items
<1>6. x.at = pc /\ Matches(x, Call)
  BY <1>1 DEF Matches
<1>0. x.kind = "wait" /\ x.event = Call.event /\ x.nth = recorded[Call.event]
  OBVIOUS
<1> HIDE DEF x, s
<1>7. /\ Pending' = Pending \cup {x} /\ \A y \in Pending : y.at < pc
      /\ Program' = Program /\ pc' = pc + 1 /\ pending' \in [Streams -> Seq(Items)]
      /\ HostTyped' /\ QueuesMatch' /\ QueuesOrdered' /\ RunningIsWork'
      /\ Done' = Done /\ DoneClosed' /\ QuietWhenFreed'
      /\ \A t \in Streams : running[t] => Oldest(t)' = Oldest(t)
  BY <1>1, <1>3, <1>5, <1>6, QueueGrows DEF s
<1>8. DeviceTyped'
  BY <1>1, <1>7 DEF OrderInv, DeviceTyped
<1>9. RecordsNumbered'
  BY <1>0, <1>1, <1>7 DEF OrderInv, RecordsNumbered
<1>10. LastRecord'
  <2>1. \A e \in EventNames : \A r \in Records(Program, e) : r < pc + 1 => r < pc
    <3> TAKE e \in EventNames
    <3> TAKE r \in Records(Program, e)
    <3>1. r # pc /\ r \in Nat
      BY <1>1, ProgramDomain DEF Records, Ops, Call
    <3> QED BY <3>1, <1>2
  <2> QED BY <1>1, <1>7, <2>1 DEF OrderInv, LastRecord
<1> QED BY <1>7, <1>8, <1>9, <1>10 DEF OrderInv

\* cudaEventRecord.
LEMMA OrderRecord ==
  ASSUME ProgramOrdered, OrderInv, CallRecord
  PROVE  OrderInv' /\ Done' = Done /\ \A t \in Streams : running[t] => Oldest(t)' = Oldest(t)
<1> DEFINE c == Call.event
           x == [kind |-> "record", event |-> c, nth |-> recorded[c] + 1, at |-> pc]
           s == Call.stream
<1>1. /\ status = "running" /\ pc <= Len(Program) /\ Call.do = "record" /\ Advance
      /\ pending' = [pending EXCEPT ![s] = Append(@, x)]
      /\ recorded' = [recorded EXCEPT ![c] = @ + 1]
      /\ running' = running /\ fired' = fired /\ holds' = holds
  BY DEF CallRecord, AtCall, RecordEvent
<1>2. pc \in Nat /\ pc \in Ops(Program) \ Issues(Program)
  BY <1>1, ProgramDomain DEF OrderInv, HostTyped, Issues, Ops, Call
<1>3. s \in Streams /\ c \in EventNames /\ c \in Events
  BY <1>2, NamesAssumption DEF ProgramOrdered, WellOrdered, Typed, Call
<1>4. recorded[c] \in Nat /\ fired[c] \in Nat
  BY <1>3 DEF OrderInv, DeviceTyped
<1>5. x \in Items
  BY <1>2, <1>3, <1>4 DEF Items
<1>6. x.at = pc /\ Matches(x, Call)
  BY <1>1 DEF Matches
<1>0. x.kind = "record" /\ x.event = c /\ x.nth = recorded[c] + 1
  OBVIOUS
<1>c. c = Call.event
  OBVIOUS
<1> HIDE DEF x, s, c
<1>7. /\ Pending' = Pending \cup {x} /\ \A y \in Pending : y.at < pc
      /\ Program' = Program /\ pc' = pc + 1 /\ pending' \in [Streams -> Seq(Items)]
      /\ HostTyped' /\ QueuesMatch' /\ QueuesOrdered' /\ RunningIsWork'
      /\ Done' = Done /\ DoneClosed' /\ QuietWhenFreed'
      /\ \A t \in Streams : running[t] => Oldest(t)' = Oldest(t)
  BY <1>1, <1>3, <1>5, <1>6, QueueGrows DEF s
<1>8. recorded' \in [Events -> Nat] /\ recorded'[c] = recorded[c] + 1
      /\ \A e \in Events : e # c => recorded'[e] = recorded[e]
  BY <1>1, <1>3, <1>4 DEF OrderInv, DeviceTyped
<1>9. DeviceTyped'
  BY <1>1, <1>7, <1>8 DEF OrderInv, DeviceTyped
<1>10. \A y \in Pending : y.kind = "record" => y.event \in Events /\ y.nth \in Nat
  <2>1. \A y \in Pending : y \in Items
    BY QueuedTyped DEF OrderInv, DeviceTyped
  <2> QED BY <2>1, NamesAssumption DEF Items
<1>l. fired[c] <= recorded[c]
  <2>1. fired[c] = recorded[c] \/ \E y \in Pending : y.kind = "record" /\ y.event = c /\ y.nth = recorded[c]
    BY <1>3 DEF OrderInv, LastRecord
  <2>2. \A y \in Pending : y.kind = "record" /\ y.event = c => fired[c] < y.nth
    BY DEF OrderInv, RecordsNumbered
  <2> QED BY <2>1, <2>2, <1>4
<1>11. RecordsNumbered'
  <2> SUFFICES ASSUME NEW z \in Pending \cup {x}, z.kind = "record"
               PROVE  /\ fired[z.event] < z.nth /\ z.nth <= recorded'[z.event]
                      /\ \A y \in Pending \cup {x} :
                           y.kind = "record" /\ y.event = z.event /\ z.at < y.at => z.nth < y.nth
                      /\ \A w \in Pending \cup {x} :
                           w.kind = "wait" /\ w.event = z.event /\ z.at < w.at => z.nth <= w.nth
    BY <1>1, <1>7 DEF RecordsNumbered
  <2>1. CASE z \in Pending
    <3>1. /\ fired[z.event] < z.nth /\ z.nth <= recorded[z.event]
          /\ \A y \in Pending : y.kind = "record" /\ y.event = z.event /\ z.at < y.at => z.nth < y.nth
          /\ \A w \in Pending : w.kind = "wait" /\ w.event = z.event /\ z.at < w.at => z.nth <= w.nth
      BY <2>1 DEF OrderInv, RecordsNumbered
    <3>2. z.event \in Events /\ z.nth \in Nat
      BY <1>10, <2>1
    <3>3. z.nth <= recorded'[z.event]
      BY <3>1, <3>2, <1>8, <1>4
    <3>4. z.event = c => z.nth < x.nth
      BY <3>1, <3>2, <1>0, <1>4
    <3> QED BY <3>1, <3>3, <3>4, <1>0
  <2>2. CASE z = x
    <3>1. fired[c] < z.nth /\ z.nth <= recorded'[c]
      BY <2>2, <1>0, <1>4, <1>l, <1>8
    <3>2. \A y \in Pending \cup {x} : ~(pc < y.at)
      BY <1>7, <1>2, <1>6, QueuedTyped DEF OrderInv, DeviceTyped
    <3> QED BY <3>1, <3>2, <2>2, <1>0, <1>6
  <2> QED BY <2>1, <2>2
<1>12. LastRecord'
  <2> SUFFICES ASSUME NEW e \in EventNames
               PROVE  /\ fired[e] = recorded'[e]
                           \/ \E z \in Pending \cup {x} : z.kind = "record" /\ z.event = e /\ z.nth = recorded'[e]
                      /\ \A r \in Records(Program, e) : r < pc + 1 => recorded'[e] > 0
    BY <1>1, <1>7 DEF LastRecord
  <2>1. CASE e = c
    BY <2>1, <1>0, <1>8, <1>4
  <2>2. CASE e # c
    <3>1. recorded'[e] = recorded[e]
      BY <2>2, <1>8, NamesAssumption
    <3>2. \A r \in Records(Program, e) : r < pc + 1 => r < pc
      <4> TAKE r \in Records(Program, e)
      <4>1. r # pc /\ r \in Nat
        BY <2>2, <1>c, ProgramDomain DEF Records, Ops, Call
      <4> QED BY <4>1, <1>2
    <3> QED BY <3>1, <3>2 DEF OrderInv, LastRecord
  <2> QED BY <2>1, <2>2
<1> QED BY <1>7, <1>9, <1>11, <1>12 DEF OrderInv

\* The host's other calls.
LEMMA OrderCalls ==
  ASSUME ProgramOrdered, OrderInv,
         CallFill \/ CallEventSync \/ CallSync \/ CallElapsed \/ CallCollect
  PROVE  OrderInv' /\ Program' = Program /\ Done' = Done
<1>1. holds \in [Locations -> Nat] /\ round \in Nat
  BY DEF OrderInv, DeviceTyped, HostTyped
<1>2. CASE CallFill
  <2>1. /\ status = "running" /\ pc <= Len(Program) /\ Call.do = "fill" /\ Advance
        /\ pending' = pending /\ running' = running /\ recorded' = recorded /\ fired' = fired
    BY <1>2 DEF CallFill, AtCall
  <2>2. holds' \in [Locations -> Nat]
    BY <1>1, <1>2 DEF CallFill
  <2> QED BY <2>1, <2>2, CallOnly
<1>3. CASE CallEventSync
  <2>1. /\ status = "running" /\ pc <= Len(Program) /\ Call.do = "event_sync" /\ Advance
        /\ fired[Call.event] = recorded[Call.event]
        /\ pending' = pending /\ running' = running /\ recorded' = recorded /\ fired' = fired
        /\ holds' = holds
    BY <1>3 DEF CallEventSync, AtCall, Complete, deviceVars
  <2> QED BY <1>1, <2>1, CallOnly
<1>4. CASE CallSync
  <2>1. /\ status = "running" /\ pc <= Len(Program) /\ Call.do = "sync" /\ Advance
        /\ \A s \in Call.streams : pending[s] = <<>>
        /\ pending' = pending /\ running' = running /\ recorded' = recorded /\ fired' = fired
        /\ holds' = holds
    BY <1>4 DEF CallSync, AtCall, deviceVars
  <2> QED BY <1>1, <2>1, CallOnly
<1>5. CASE CallElapsed \/ CallCollect
  <2>1. /\ status = "running" /\ pc <= Len(Program) /\ Call.do \in {"elapsed", "collect"} /\ Advance
        /\ pending' = pending /\ running' = running /\ recorded' = recorded /\ fired' = fired
        /\ holds' = holds
    BY <1>5 DEF CallElapsed, CallCollect, AtCall, deviceVars
  <2> QED BY <1>1, <2>1, CallOnly
<1> QED BY <1>2, <1>3, <1>4, <1>5

\* A round begins.
LEMMA OrderStartRound == ASSUME ProgramOrdered, OrderInv, StartRound PROVE OrderInv'
<1> USE DEF StartRound
<1>1. /\ pc' = 1 /\ status' = "running" /\ failed' = FALSE /\ config' = config
      /\ pending' = pending /\ running' = running /\ recorded' = recorded /\ fired' = fired
  OBVIOUS
<1>2. DeviceQuiet
  BY DEF OrderInv, QuietWhenFreed
<1>3. Pending = {} /\ \A s \in Streams : Queued(s) = {}
  BY <1>2, NothingPending
<1>4. DeviceQuiet' /\ Pending' = {} /\ \A s \in Streams : Queued(s)' = {}
  BY <1>1, <1>2, <1>3 DEF DeviceQuiet, Pending, Queued
<1>5. config' \in Configs /\ size' \in JobIds /\ round' \in Nat /\ round' = round + 1
  BY DEF OrderInv, HostTyped
<1>6. ProgramOrdered'
  <2>1. WellOrdered(Programs[config'][size'], config', IF config' = "gemm" THEN {1} ELSE 1..size')
    BY <1>5, ProgramsOrdered, Zenon
  <2> QED BY <2>1, Zenon DEF ProgramOrdered, Program, RoundJobs
<1>7. /\ Len(Program') \in Nat /\ \A p \in Ops(Program') : p \in Nat /\ p >= 1
  <2>1. Len(Program') \in Nat /\ DOMAIN Program' = 1..Len(Program')
    BY <1>6 DEF ProgramOrdered, WellOrdered, IsList
  <2> QED BY <2>1 DEF Ops
<1>8. HostTyped'
  <2>1. pc' \in 1..(Len(Program') + 1) /\ ~(round' = 0)
    BY <1>1, <1>5, <1>7 DEF OrderInv, HostTyped
  <2> QED BY <1>1, <1>5, <2>1, Zenon DEF HostTyped
<1>9. DeviceTyped'
  <2>1. holds \in [Locations -> Nat]
    BY DEF OrderInv, DeviceTyped
  <2>2. holds' \in [Locations -> Nat]
    BY <1>5, <2>1
  <2> QED BY <1>1, <2>2 DEF OrderInv, DeviceTyped
<1>10. QueuesMatch' /\ RecordsNumbered'
  BY <1>4 DEF QueuesMatch, RecordsNumbered
<1>11. QueuesOrdered' /\ RunningIsWork'
  BY <1>1 DEF OrderInv, QueuesOrdered, RunningIsWork, HasOldest, Oldest
<1>12. QuietWhenFreed'
  BY <1>1 DEF QuietWhenFreed
<1>13. LastRecord'
  <2>1. \A e \in EventNames : fired[e] = recorded[e]
    BY <1>3 DEF OrderInv, LastRecord
  <2>2. \A e \in EventNames : \A r \in Records(Program', e) : ~(r < 1)
    BY <1>7 DEF Records
  <2> QED BY <2>1, <2>2, <1>1 DEF LastRecord
<1>14. DoneClosed'
  <2>1. Done' = {}
    BY <1>1, <1>7 DEF Done
  <2>2. Closed(Program', {}, 1)
    BY DEF Closed
  <2> QED BY <2>1, <2>2, <1>1 DEF DoneClosed
<1> QED BY <1>8, <1>9, <1>10, <1>11, <1>12, <1>13, <1>14 DEF OrderInv

\* A round returns.
LEMMA OrderReturn == ASSUME ProgramOrdered, OrderInv, Return PROVE OrderInv'
<1>1. /\ status = "running" /\ pc > Len(Program) /\ status' = "returned"
      /\ UNCHANGED <<deviceVars, config, size, round, pc, failed>>
  BY DEF Return
<1>2. pc = Len(Program) + 1
  BY <1>1, ProgramDomain DEF OrderInv, HostTyped
<1>3. DeviceQuiet
  <2>1. \A p \in Ops(Program) : Past(Program, p, pc)
    BY <1>2 DEF ProgramOrdered, WellOrdered, EndsQuiet
  <2> QED BY <2>1, AllFinished
<1>4. failed' \in BOOLEAN
  BY <1>1 DEF OrderInv, HostTyped
<1> QED BY <1>1, <1>2, <1>3, <1>4, OrderKept

\* A call fails, and the catch block synchronises the device.
LEMMA OrderFailure ==
  ASSUME ProgramOrdered, OrderInv, CallFails \/ DrainFailed
  PROVE  OrderInv'
<1>1. round = 0 => status = "returned"
  BY DEF OrderInv, HostTyped
<1>2. CASE CallFails
  <2>1. /\ status = "running" /\ status' = "draining" /\ failed' = TRUE
        /\ UNCHANGED <<deviceVars, config, size, round, pc>>
    BY <1>2 DEF CallFails, AtCall
  <2> QED BY <1>1, <2>1, OrderKept
<1>3. CASE DrainFailed
  <2>1. /\ status = "draining" /\ status' = "returned" /\ DeviceQuiet
        /\ UNCHANGED <<deviceVars, config, size, round, pc, failed>>
    BY <1>3 DEF DrainFailed
  <2>2. failed' = TRUE
    BY <2>1 DEF OrderInv, HostTyped
  <2> QED BY <1>1, <2>1, <2>2, OrderKept
<1> QED BY <1>2, <1>3

\* A stream begins a copy or a kernel.
LEMMA OrderBeginWork ==
  ASSUME ProgramOrdered, OrderInv, NEW s \in Streams, BeginWork(s), UNCHANGED hostVars
  PROVE  OrderInv'
<1>1. /\ HasOldest(s, "work") /\ ~running[s]
      /\ running' = [running EXCEPT ![s] = TRUE]
      /\ holds' = [holds EXCEPT ![Oldest(s).writes] = 0]
      /\ pending' = pending /\ recorded' = recorded /\ fired' = fired
      /\ config' = config /\ size' = size /\ round' = round /\ pc' = pc
      /\ status' = status /\ failed' = failed
  BY DEF BeginWork, hostVars
<1>2. Program' = Program
  BY <1>1 DEF Program
<1>3. Pending' = Pending /\ \A t \in Streams : Queued(t)' = Queued(t)
  BY <1>1 DEF Pending, Queued
<1>4. Done' = Done
  BY <1>1, <1>2, <1>3 DEF Done
<1>5. HostTyped'
  BY <1>1, <1>2 DEF OrderInv, HostTyped
<1>6. DeviceTyped'
  BY <1>1 DEF OrderInv, DeviceTyped
<1>7. QueuesMatch' /\ RecordsNumbered'
  BY <1>1, <1>2, <1>3 DEF OrderInv, QueuesMatch, RecordsNumbered
<1>8. QueuesOrdered' /\ RunningIsWork'
  <2>1. \A t \in Streams : running'[t] => t = s \/ running[t]
    BY <1>1 DEF OrderInv, DeviceTyped
  <2> QED BY <1>1, <2>1 DEF OrderInv, QueuesOrdered, RunningIsWork, HasOldest, Oldest
<1>9. LastRecord' /\ DoneClosed'
  BY <1>1, <1>2, <1>3, <1>4 DEF OrderInv, LastRecord, DoneClosed
<1>10. QuietWhenFreed'
  BY <1>1 DEF OrderInv, QuietWhenFreed, DeviceQuiet
<1> QED BY <1>5, <1>6, <1>7, <1>8, <1>9, <1>10 DEF OrderInv

\* Every item that leaves a stream finishes as QueueShrinks says.
LEMMA StreamShrinks ==
  ASSUME ProgramOrdered, OrderInv, NEW s \in Streams,
         FinishWork(s) \/ FireEvent(s) \/ PassWait(s), UNCHANGED hostVars
  PROVE  /\ pending[s] # <<>> /\ pending' = [pending EXCEPT ![s] = Tail(@)]
         /\ running' \in [Streams -> BOOLEAN] /\ ~running'[s]
         /\ \A t \in Streams \ {s} : running'[t] = running[t]
         /\ Pending = Pending' \cup {Oldest(s)} /\ Program' = Program
         /\ pending' \in [Streams -> Seq(Items)]
         /\ \A y \in Pending' : Program[y.at].stream = s => Oldest(s).at < y.at
         /\ HostTyped' /\ QueuesMatch' /\ QueuesOrdered' /\ RunningIsWork'
         /\ Done' = Done \cup {Oldest(s).at} /\ DoneClosed' /\ QuietWhenFreed'
<1>1. running \in [Streams -> BOOLEAN] /\ (running[s] => HasOldest(s, "work"))
  BY DEF OrderInv, DeviceTyped, RunningIsWork
<1>2. /\ pending[s] # <<>> /\ pending' = [pending EXCEPT ![s] = Tail(@)]
      /\ running' \in [Streams -> BOOLEAN] /\ ~running'[s]
      /\ \A t \in Streams \ {s} : running'[t] = running[t]
      /\ Oldest(s).kind = "wait" => fired[Oldest(s).event] >= Oldest(s).nth
  <2>1. CASE FinishWork(s)
    BY <1>1, <2>1 DEF FinishWork, HasOldest
  <2>2. CASE FireEvent(s)
    BY <1>1, <2>2 DEF FireEvent, HasOldest
  <2>3. CASE PassWait(s)
    BY <1>1, <2>3 DEF PassWait, HasOldest
  <2> QED BY <2>1, <2>2, <2>3
<1> QED BY <1>2, QueueShrinks

\* A copy or a kernel is finished, or a wait is passed.
LEMMA OrderFinish ==
  ASSUME ProgramOrdered, OrderInv, NEW s \in Streams,
         FinishWork(s) \/ PassWait(s), UNCHANGED hostVars
  PROVE  OrderInv'
<1>1. /\ Pending = Pending' \cup {Oldest(s)} /\ Program' = Program
      /\ pending' \in [Streams -> Seq(Items)] /\ running' \in [Streams -> BOOLEAN]
      /\ HostTyped' /\ QueuesMatch' /\ QueuesOrdered' /\ RunningIsWork'
      /\ DoneClosed' /\ QuietWhenFreed' /\ pending[s] # <<>>
  BY StreamShrinks
<1>2. recorded' = recorded /\ fired' = fired /\ pc' = pc
  BY DEF FinishWork, PassWait, hostVars
<1>3. Oldest(s).kind # "record"
  BY DEF OrderInv, RunningIsWork, FinishWork, PassWait, HasOldest
<1>4. holds' \in [Locations -> Nat]
  <2>1. holds \in [Locations -> Nat]
    BY DEF OrderInv, DeviceTyped
  <2>2. CASE PassWait(s)
    BY <2>1, <2>2 DEF PassWait
  <2>3. CASE FinishWork(s)
    <3>1. HasOldest(s, "work")
      BY <2>3 DEF FinishWork, OrderInv, RunningIsWork
    <3>2. Oldest(s) \in Items /\ Oldest(s).kind = "work"
      BY <3>1, HeadOfQueue DEF HasOldest, OrderInv, DeviceTyped
    <3>3. Oldest(s).reads \in SUBSET Locations
      BY <3>2, NamesAssumption DEF Items
    <3>4. Combined(Oldest(s).reads) \in Nat
      <4> DEFINE R == Oldest(s).reads
      <4>1. CASE R = {}
        BY <4>1 DEF Combined
      <4>2. CASE R # {}
        <5>1. (CHOOSE l \in R : TRUE) \in R
          BY <4>2
        <5>2. holds[CHOOSE l \in R : TRUE] \in Nat
          BY <5>1, <3>3, <2>1
        <5> QED BY <5>2 DEF Combined
      <4> QED BY <4>1, <4>2
    <3>5. holds' = [holds EXCEPT ![Oldest(s).writes] = Combined(Oldest(s).reads)]
      BY <2>3 DEF FinishWork
    <3> QED BY <3>4, <3>5, <2>1
  <2> QED BY <2>2, <2>3
<1>5. DeviceTyped'
  BY <1>1, <1>2, <1>4 DEF OrderInv, DeviceTyped
<1>6. RecordsNumbered'
  BY <1>1, <1>2 DEF OrderInv, RecordsNumbered
<1>7. LastRecord'
  BY <1>1, <1>2, <1>3 DEF OrderInv, LastRecord
<1> QED BY <1>1, <1>5, <1>6, <1>7 DEF OrderInv

\* A stream reaches a record.
LEMMA OrderFireEvent ==
  ASSUME ProgramOrdered, OrderInv, NEW s \in Streams, FireEvent(s), UNCHANGED hostVars
  PROVE  OrderInv'
<1> DEFINE x == Oldest(s)
<1>1. /\ Pending = Pending' \cup {x} /\ Program' = Program
      /\ pending' \in [Streams -> Seq(Items)] /\ running' \in [Streams -> BOOLEAN]
      /\ \A y \in Pending' : Program[y.at].stream = s => x.at < y.at
      /\ HostTyped' /\ QueuesMatch' /\ QueuesOrdered' /\ RunningIsWork'
      /\ DoneClosed' /\ QuietWhenFreed' /\ pending[s] # <<>>
  BY StreamShrinks
<1>2. /\ x.kind = "record" /\ fired' = [fired EXCEPT ![x.event] = x.nth]
      /\ recorded' = recorded /\ holds' = holds /\ pc' = pc
  BY DEF FireEvent, HasOldest, hostVars
<1>3. x \in Items /\ x \in Pending /\ x.at \in Nat
  BY <1>1, QueuedTyped DEF OrderInv, DeviceTyped
<1>4. x.event \in EventNames /\ x.event \in Events /\ x.nth \in Nat
  BY <1>2, <1>3, NamesAssumption DEF Items
<1>q. x \in Queued(s)
  BY <1>1, HeadOfQueue DEF OrderInv, DeviceTyped
<1> HIDE DEF x
<1>5. /\ fired' \in [Events -> Nat] /\ fired'[x.event] = x.nth
      /\ \A e \in Events : e # x.event => fired'[e] = fired[e]
  BY <1>2, <1>4 DEF OrderInv, DeviceTyped
<1>6. DeviceTyped'
  BY <1>1, <1>2, <1>5 DEF OrderInv, DeviceTyped
<1>7. ASSUME NEW y \in Pending', y.kind = "record", y.event = x.event PROVE x.nth < y.nth
  <2>1. PICK t \in Streams : y \in Queued(t)'
    BY DEF Pending
  <2>2. /\ y.at \in Ops(Program) /\ Matches(y, Program[y.at])
        /\ Program[y.at].stream = t
    BY <2>1, <1>1 DEF QueuesMatch
  <2>3. x.at \in Ops(Program) /\ Matches(x, Program[x.at]) /\ Program[x.at].stream = s
    BY <1>q DEF OrderInv, QueuesMatch
  <2>4. y.at \in Records(Program, x.event) /\ x.at \in Records(Program, x.event)
    BY <2>2, <2>3, <1>2, <1>7 DEF Records, Matches
  <2>5. Program[y.at].stream = s
    BY <2>3, <2>4, <1>4 DEF ProgramOrdered, WellOrdered, OneStreamPerEvent
  <2>6. x.at < y.at
    BY <2>5, <1>1
  <2> QED BY <2>6, <1>1, <1>2, <1>3, <1>7 DEF OrderInv, RecordsNumbered
<1>8. RecordsNumbered'
  <2> SUFFICES ASSUME NEW z \in Pending', z.kind = "record"
               PROVE  fired'[z.event] < z.nth
    BY <1>1, <1>2 DEF OrderInv, RecordsNumbered
  <2>1. z.event \in Events
    BY <1>1, QueuedTyped, NamesAssumption DEF OrderInv, DeviceTyped, Items
  <2>2. fired[z.event] < z.nth
    BY <1>1 DEF OrderInv, RecordsNumbered
  <2> QED BY <2>1, <2>2, <1>5, <1>7
<1>9. LastRecord'
  <2> SUFFICES ASSUME NEW e \in EventNames
               PROVE  \/ fired'[e] = recorded[e]
                      \/ \E z \in Pending' : z.kind = "record" /\ z.event = e /\ z.nth = recorded[e]
    BY <1>1, <1>2 DEF OrderInv, LastRecord
  <2>1. \/ fired[e] = recorded[e]
        \/ \E z \in Pending : z.kind = "record" /\ z.event = e /\ z.nth = recorded[e]
    BY DEF OrderInv, LastRecord
  <2>2. CASE e # x.event
    BY <2>1, <2>2, <1>1, <1>5, NamesAssumption
  <2>3. CASE e = x.event
    <3>1. fired[e] < x.nth /\ x.nth <= recorded[e]
      BY <2>3, <1>2, <1>3 DEF OrderInv, RecordsNumbered
    <3>2. fired[e] \in Nat /\ recorded[e] \in Nat
      BY <1>4, <2>3 DEF OrderInv, DeviceTyped
    <3>3. fired[e] # recorded[e]
      BY <3>1, <3>2, <1>4
    <3> QED BY <2>1, <2>3, <3>3, <1>1, <1>5
  <2> QED BY <2>2, <2>3
<1> QED BY <1>1, <1>6, <1>8, <1>9 DEF OrderInv

\* Every step keeps the order.
LEMMA StepOrder == ASSUME OrderInv, [Next]_vars PROVE OrderInv'
<1>1. ProgramOrdered
  <2>1. config \in Configs /\ size \in JobIds
    BY DEF OrderInv, HostTyped
  <2> QED BY <2>1, ProgramsOrdered, Zenon DEF ProgramOrdered, Program, RoundJobs
<1>2. CASE HostStep
  BY <1>1, <1>2, OrderCalls, OrderIssue, OrderRecord, OrderWait, OrderStartRound, OrderReturn,
     OrderFailure DEF HostStep
<1>3. CASE CallFails
  BY <1>1, <1>3, OrderFailure
<1>4. ASSUME NEW s \in Streams, DeviceStep(s) PROVE OrderInv'
  BY <1>1, <1>4, OrderBeginWork, OrderFinish, OrderFireEvent DEF DeviceStep, StreamStep
<1>5. CASE UNCHANGED vars
  <2>1. UNCHANGED <<deviceVars, config, size, round, pc>> /\ status' = status /\ failed' = failed
    BY <1>5 DEF vars, hostVars
  <2>2. /\ status \in {"running", "draining", "returned"} /\ failed \in BOOLEAN
        /\ (round = 0 => status = "returned") /\ (status = "draining" => failed)
        /\ (status = "returned" => DeviceQuiet)
        /\ (status = "returned" /\ ~failed /\ round > 0 => pc = Len(Program) + 1)
    BY DEF OrderInv, HostTyped, QuietWhenFreed
  <2> QED BY <2>1, <2>2, OrderKept
<1> QED BY <1>2, <1>3, <1>4, <1>5 DEF Next

-----------------------------------------------------------------------------
(***************************************************************************)
(* The data.                                                               *)
(***************************************************************************)
\* The oldest item of a stream, and its call.
LEMMA OldestItem ==
  ASSUME OrderInv, ProgramOrdered, NEW s \in Streams, pending[s] # <<>>
  PROVE  /\ Oldest(s) \in Pending /\ Oldest(s) \in Items /\ Oldest(s).at \in Nat
         /\ Oldest(s).at \in Ops(Program) /\ Oldest(s).at < pc
         /\ Oldest(s).at \notin Done
         /\ Program[Oldest(s).at].stream = s
         /\ Matches(Oldest(s), Program[Oldest(s).at])
         /\ \A p \in Ops(Program) : p < Oldest(s).at /\ Program[p].stream = s => p \in Done
<1> DEFINE x == Oldest(s)
<1>1. /\ pending \in [Streams -> Seq(Items)] /\ QueuesOrdered /\ QueuesMatch
  BY DEF OrderInv, DeviceTyped
<1>2. /\ x \in Queued(s) /\ x \in Items /\ x \in Pending
      /\ \A y \in Queued(s) : y = x \/ x.at < y.at
  BY <1>1, HeadOfQueue DEF Pending
<1> HIDE DEF x
<1>3. /\ x.at \in Ops(Program) /\ x.at < pc
      /\ Program[x.at].stream = s /\ Matches(x, Program[x.at])
  BY <1>1, <1>2 DEF QueuesMatch
<1>4. /\ pc \in Nat /\ \A p \in Ops(Program) : p \in Nat
  BY ProgramDomain DEF Ops, OrderInv, HostTyped
<1>5. ASSUME NEW p \in Ops(Program), p < x.at, Program[p].stream = s PROVE p \in Done
  <2>1. ASSUME NEW y \in Pending, y.at = p PROVE FALSE
    <3>1. PICK t \in Streams : y \in Queued(t)
      BY DEF Pending
    <3>2. t = s
      BY <2>1, <3>1, <1>1, <1>5 DEF QueuesMatch
    <3>3. y = x \/ x.at < y.at
      BY <3>1, <3>2, <1>2
    <3> QED BY <3>3, <2>1, <1>3, <1>4, <1>5
  <2> QED BY <2>1, <1>3, <1>4, <1>5 DEF Done
<1>6. x.at \notin Done
  BY <1>2 DEF Done
<1> QED BY <1>2, <1>3, <1>4, <1>5, <1>6 DEF x

\* A copy or a kernel at the head of its stream: its call, and that the items
\* the program puts before it are finished.
LEMMA OldestWork ==
  ASSUME OrderInv, ProgramOrdered, NEW s \in Streams, HasOldest(s, "work")
  PROVE  /\ Oldest(s).at \in Issues(Program)
         /\ Oldest(s).reads = Program[Oldest(s).at].reads
         /\ Oldest(s).writes = Program[Oldest(s).at].writes
         /\ \A p : Before(Program, p, Oldest(s).at) => p \in Done
<1> DEFINE q == Oldest(s).at
<1>1. /\ q \in Nat /\ q \in Ops(Program) /\ q < pc /\ q \notin Done
      /\ Program[q].stream = s /\ Matches(Oldest(s), Program[q])
      /\ \A p \in Ops(Program) : p < q /\ Program[p].stream = s => p \in Done
  BY OldestItem DEF HasOldest
<1>2. Oldest(s).kind = "work"
  BY DEF HasOldest
<1>3. /\ q \in Issues(Program) /\ Oldest(s).reads = Program[q].reads
      /\ Oldest(s).writes = Program[q].writes
  BY <1>1, <1>2 DEF Matches, Issues
<1>4. Closed(Program, Done, q) /\ Done \in SUBSET Ops(Program)
  <2>1. pc \in Nat /\ q <= pc /\ Closed(Program, Done, pc)
    BY <1>1, ProgramDomain DEF OrderInv, HostTyped, DoneClosed
  <2>2. Closed(Program, Done, q)
    BY <1>1, <2>1, ClosedEarlier
  <2> QED BY <2>2 DEF Done
<1> HIDE DEF q
<1>5. \A p : Before(Program, p, q) => p \in Done
  BY <1>1, <1>4 DEF Before
<1> QED BY <1>3, <1>5 DEF q

\* No other item writes what an executing item reads.
LEMMA NotOverwritten ==
  ASSUME OrderInv, ProgramOrdered, NEW l, \A p \in Writers(Program, l) : p \in Done,
         NEW s \in InFlight
  PROVE  Oldest(s).writes # l
<1>1. s \in Streams /\ HasOldest(s, "work")
  BY DEF InFlight, OrderInv, RunningIsWork
<1>2. Oldest(s).at \in Issues(Program) /\ Oldest(s).writes = Program[Oldest(s).at].writes
  BY <1>1, OldestWork
<1>3. Oldest(s).at \notin Done
  BY <1>1, OldestItem DEF HasOldest
<1> QED BY <1>2, <1>3 DEF Writers

\* A copy or a kernel that may begin finds all that it reads ready.
LEMMA ReadyToRead ==
  ASSUME OrderInv, ProgramOrdered, InputsHold, ResultsHold,
         NEW s \in Streams, HasOldest(s, "work"), NEW l \in Oldest(s).reads
  PROVE  holds[l] = round
<1> DEFINE q == Oldest(s).at
<1>1. /\ q \in Nat /\ q < pc /\ q \notin Done /\ Program[q].stream = s
      /\ q \in Issues(Program) /\ l \in Program[q].reads
      /\ Oldest(s).writes = Program[q].writes
      /\ \A p : Before(Program, p, q) => p \in Done
  BY OldestItem, OldestWork DEF HasOldest
<1> HIDE DEF q
<1>2. pc \in Nat
  BY ProgramDomain DEF OrderInv, HostTyped
<1>3. CASE l \in AllHostBuffers
  <2>1. \/ config # "scheduler"
        \/ \E f \in 1..(q - 1) : Program[f].do = "fill" /\ l \in HostBuffers(Program[f].job)
    BY <1>1, <1>3 DEF ProgramOrdered, WellOrdered, InputsFilled
  <2>2. \A f \in 1..(q - 1) : f \in 1..(pc - 1)
    BY <1>1, <1>2
  <2> QED BY <2>1, <2>2, <1>3 DEF InputsHold
<1>4. CASE l \notin AllHostBuffers
  <2>1. PICK p \in Writers(Program, l) : p < q /\ Before(Program, p, q)
    BY <1>1, <1>4 DEF ProgramOrdered, WellOrdered, InputsReady
  <2>2. p \in Done
    BY <2>1, <1>1
  <2>3. l \in LocationNames /\ Program[q].writes \notin Program[q].reads
    BY <1>1 DEF ProgramOrdered, WellOrdered, Typed
  <2>4. ASSUME NEW t \in InFlight, Oldest(t).writes = l PROVE FALSE
    <3>1. t \in Streams /\ HasOldest(t, "work")
      BY DEF InFlight, OrderInv, RunningIsWork
    <3>2. Oldest(t).at \in Issues(Program) /\ Oldest(t).writes = Program[Oldest(t).at].writes
      BY <3>1, OldestWork
    <3>3. Oldest(t).at \notin Done /\ Program[Oldest(t).at].stream = t
      BY <3>1, OldestItem DEF HasOldest
    <3>4. Oldest(t).at \in Writers(Program, l)
      BY <2>4, <3>2 DEF Writers
    <3>5. t = s
      BY <3>3, <3>4, <2>2, <1>1 DEF ProgramOrdered, WellOrdered, NoClobber
    <3> QED BY <3>5, <2>3, <2>4, <1>1
  <2> QED BY <2>2, <2>3, <2>4, <1>4 DEF ResultsHold
<1> QED BY <1>3, <1>4

\* A location whose writers are all finished.
LEMMA WrittenHolds ==
  ASSUME OrderInv, ProgramOrdered, ResultsHold, NEW l \in LocationNames \ AllHostBuffers,
         Writers(Program, l) # {}, \A p \in Writers(Program, l) : p \in Done
  PROVE  holds[l] = round
BY NotOverwritten DEF ResultsHold

\* Result buffers are names of the model, and no input is one.
LEMMA ResultBuffer ==
  ASSUME NEW j, Writers(Program, <<"hc", j>>) # {}, ProgramOrdered
  PROVE  <<"hc", j>> \in LocationNames \ AllHostBuffers
BY DEF Writers, ProgramOrdered, WellOrdered, Typed

-----------------------------------------------------------------------------
\* A step that leaves the data alone.
LEMMA DataKept ==
  ASSUME DataInv, Program' = Program, round' = round, config' = config,
         holds' = holds,
         pc' = pc \/ (pc' = pc + 1 /\ pc \in Nat /\ Program[pc].do # "fill"),
         \A p \in Issues(Program) : p \in Done' => p \in Done,
         InFlight' = InFlight, \A s \in InFlight : Oldest(s)' = Oldest(s),
         \A c \in collected' : c \in collected \/ c[2] = round
  PROVE  DataInv'
<1>1. InputsHold'
  <2> SUFFICES ASSUME NEW l \in AllHostBuffers,
                 \/ config # "scheduler"
                 \/ \E f \in 1..(pc' - 1) : Program[f].do = "fill" /\ l \in HostBuffers(Program[f].job)
               PROVE  holds[l] = round
    BY DEF InputsHold
  <2>1. \A f \in 1..(pc' - 1) : Program[f].do = "fill" => f \in 1..(pc - 1)
    <3>1. CASE pc' = pc
      BY <3>1
    <3>2. CASE pc' = pc + 1 /\ pc \in Nat /\ Program[pc].do # "fill"
      <4>1. \A f \in 1..(pc' - 1) : f = pc \/ f \in 1..(pc - 1)
        BY <3>2
      <4> QED BY <4>1, <3>2
    <3> QED BY <3>1, <3>2
  <2> QED BY <2>1 DEF DataInv, InputsHold
<1>2. ResultsHold'
  BY DEF DataInv, ResultsHold, Writers
<1>3. \A c \in collected' : c[2] = round'
  BY DEF DataInv
<1> QED BY <1>1, <1>2, <1>3 DEF DataInv

\* The host's calls that queue nothing.
LEMMA DataCalls ==
  ASSUME ProgramOrdered, OrderInv, DataInv,
         CallEventSync \/ CallSync \/ CallElapsed \/ CallCollect
  PROVE  DataInv'
<1>1. /\ AtCall("event_sync") \/ AtCall("sync") \/ AtCall("elapsed") \/ AtCall("collect")
      /\ Advance /\ deviceVars' = deviceVars
  BY DEF CallEventSync, CallSync, CallElapsed, CallCollect
<1>2. Program' = Program /\ Done' = Done
  BY OrderCalls
<1>3. round' = round /\ config' = config /\ pc' = pc + 1
  BY <1>1 DEF Advance
<1>4. pc \in Nat /\ Program[pc].do # "fill"
  BY <1>1, ProgramDomain DEF AtCall, Call, OrderInv, HostTyped
<1>5. holds' = holds /\ InFlight' = InFlight /\ \A s \in InFlight : Oldest(s)' = Oldest(s)
  BY <1>1 DEF deviceVars, InFlight, Oldest
<1>6. \A c \in collected' : c \in collected \/ c[2] = round
  <2>1. CASE CallCollect
    <3> DEFINE j == Call.job
    <3>1. Program[pc].do = "collect" /\ pc \in DOMAIN Program /\ j = Program[pc].job
      BY <2>1, ProgramDomain DEF CallCollect, AtCall, Call, OrderInv, HostTyped
    <3>2. /\ Writers(Program, <<"hc", j>>) # {}
          /\ \A p \in Writers(Program, <<"hc", j>>) : Past(Program, p, pc)
      BY <3>1 DEF ProgramOrdered, WellOrdered, CollectsLate
    <3>3. \A p \in Writers(Program, <<"hc", j>>) : p \in Done
      BY <3>2, PastDone
    <3>4. holds[<<"hc", j>>] = round
      BY <3>2, <3>3, ResultBuffer, WrittenHolds DEF DataInv
    <3>5. collected' = collected \cup {<<j, holds[<<"hc", j>>]>>}
      BY <2>1 DEF CallCollect
    <3> QED BY <3>4, <3>5
  <2>2. CASE ~CallCollect
    <3>1. collected' = collected
      BY <2>2 DEF CallEventSync, CallSync, CallElapsed
    <3> QED BY <3>1
  <2> QED BY <2>1, <2>2
<1> QED BY <1>2, <1>3, <1>4, <1>5, <1>6, DataKept

\* The calls that queue an item.
LEMMA DataIssues ==
  ASSUME ProgramOrdered, OrderInv, DataInv, CallIssue \/ CallRecord \/ CallWait
  PROVE  DataInv'
<1>1. /\ AtCall("issue") \/ AtCall("record") \/ AtCall("wait")
      /\ Advance /\ running' = running /\ holds' = holds /\ collected' = collected
  BY DEF CallIssue, CallRecord, CallWait, Launch, RecordEvent, WaitEvent
<1>2. /\ Program' = Program /\ round' = round /\ config' = config /\ pc' = pc + 1
      /\ pc \in Nat /\ Program[pc].do # "fill"
  BY <1>1, Advanced, ProgramDomain DEF AtCall, Call, OrderInv, HostTyped
<1>3. Done' = Done /\ \A t \in Streams : running[t] => Oldest(t)' = Oldest(t)
  BY OrderIssue, OrderRecord, OrderWait
<1>4. InFlight' = InFlight /\ \A s \in InFlight : Oldest(s)' = Oldest(s)
  BY <1>1, <1>3 DEF InFlight
<1> QED BY <1>1, <1>2, <1>3, <1>4, DataKept

\* The inputs of a job are written.
LEMMA DataFill == ASSUME ProgramOrdered, OrderInv, DataInv, CallFill PROVE DataInv'
<1>1. /\ AtCall("fill") /\ Advance /\ collected' = collected
      /\ pending' = pending /\ running' = running
      /\ holds' = [l \in Locations |-> IF l \in HostBuffers(Call.job) THEN round ELSE holds[l]]
  BY DEF CallFill
<1>2. Program' = Program /\ Done' = Done
  BY OrderCalls
<1>3. round' = round /\ config' = config /\ pc' = pc + 1 /\ pc \in Nat
  BY <1>1, ProgramDomain DEF Advance, OrderInv, HostTyped
<1>4. \A l \in LocationNames : holds'[l] = round \/ (l \notin HostBuffers(Call.job) /\ holds'[l] = holds[l])
  <2> TAKE l \in LocationNames
  <2>1. l \in Locations
    BY NamesAssumption
  <2>2. holds'[l] = IF l \in HostBuffers(Call.job) THEN round ELSE holds[l]
    BY <1>1, <2>1
  <2> QED BY <2>2
<1>5. AllHostBuffers \subseteq LocationNames
  BY DEF AllHostBuffers, HostBuffers, LocationNames
<1>6. InputsHold'
  <2> SUFFICES ASSUME NEW l \in AllHostBuffers, l \notin HostBuffers(Call.job),
                 \/ config # "scheduler"
                 \/ \E f \in 1..pc : Program[f].do = "fill" /\ l \in HostBuffers(Program[f].job)
               PROVE  holds[l] = round
    <3>1. (pc + 1) - 1 = pc
      BY <1>3
    <3> QED BY <3>1, <1>2, <1>3, <1>4, <1>5 DEF InputsHold
  <2>1. \A f \in 1..pc : f = pc \/ f \in 1..(pc - 1)
    BY <1>3
  <2> QED BY <2>1 DEF DataInv, InputsHold, Call
<1>7. ResultsHold'
  <2>1. InFlight' = InFlight /\ \A s \in InFlight : Oldest(s)' = Oldest(s)
    BY <1>1 DEF InFlight, Oldest
  <2> QED BY <1>2, <1>3, <1>4, <2>1 DEF DataInv, ResultsHold
<1>8. \A c \in collected' : c[2] = round'
  BY <1>1, <1>3 DEF DataInv
<1> QED BY <1>6, <1>7, <1>8 DEF DataInv

\* A round begins with new labels.
LEMMA DataStartRound == ASSUME ProgramOrdered, OrderInv, DataInv, StartRound PROVE DataInv'
<1>1. OrderInv' /\ ProgramOrdered'
  <2>1. OrderInv'
    BY OrderStartRound
  <2>2. config' \in Configs /\ size' \in JobIds
    BY <2>1 DEF OrderInv, HostTyped
  <2>3. WellOrdered(Programs[config'][size'], config', IF config' = "gemm" THEN {1} ELSE 1..size')
    BY <2>2, ProgramsOrdered, Zenon
  <2> QED BY <2>1, <2>3, Zenon DEF ProgramOrdered, Program, RoundJobs
<1>2. pc' = 1 /\ collected' = {} /\ config' = config
  BY DEF StartRound
<1>3. Done' = {}
  <2>1. \A p \in Ops(Program') : ~(p < 1)
    BY <1>1 DEF ProgramOrdered, WellOrdered, IsList, Ops
  <2> QED BY <2>1, <1>2 DEF Done
<1>4. InputsHold'
  <2>1. CASE config = "scheduler"
    <3>1. \A f \in 1..(1 - 1) : FALSE
      OBVIOUS
    <3> QED BY <3>1, <2>1, <1>2 DEF InputsHold
  <2>2. CASE config # "scheduler"
    <3>1. holds' = [l \in Locations |-> IF l \in AllHostBuffers THEN round' ELSE holds[l]]
      BY <2>2 DEF StartRound
    <3>2. AllHostBuffers \subseteq Locations
      BY NamesAssumption DEF AllHostBuffers, HostBuffers, LocationNames
    <3> QED BY <3>1, <3>2 DEF InputsHold
  <2> QED BY <2>1, <2>2
<1>5. ResultsHold'
  BY <1>3 DEF ResultsHold
<1> QED BY <1>2, <1>4, <1>5 DEF DataInv

\* The host's steps.
LEMMA DataHost ==
  ASSUME OrderInv, DataInv,
         Return \/ CallFails \/ DrainFailed \/ UNCHANGED vars
  PROVE  DataInv'
<1>1. /\ UNCHANGED <<deviceVars, config, size, round, pc>> /\ collected' = collected
  BY DEF Return, CallFails, DrainFailed, vars, hostVars
<1>2. /\ holds' = holds /\ pending' = pending /\ running' = running
      /\ config' = config /\ size' = size /\ round' = round /\ pc' = pc
  BY <1>1 DEF deviceVars
<1>3. Program' = Program
  BY <1>2 DEF Program
<1>4. Done' = Done
  BY <1>2, <1>3 DEF Done, Pending, Queued
<1>5. InFlight' = InFlight /\ \A s \in InFlight : Oldest(s)' = Oldest(s)
  BY <1>2 DEF InFlight, Oldest
<1>6. \A c \in collected' : c \in collected \/ c[2] = round
  BY <1>1
<1>7. \A p \in Issues(Program) : p \in Done' => p \in Done
  BY <1>4
<1> QED BY <1>2, <1>3, <1>5, <1>6, <1>7, DataKept

\* A stream begins a copy or a kernel.
LEMMA DataBeginWork ==
  ASSUME ProgramOrdered, OrderInv, DataInv, NEW s \in Streams, BeginWork(s), UNCHANGED hostVars
  PROVE  DataInv'
<1>1. /\ HasOldest(s, "work") /\ running' = [running EXCEPT ![s] = TRUE]
      /\ holds' = [holds EXCEPT ![Oldest(s).writes] = 0]
      /\ pending' = pending /\ config' = config /\ size' = size /\ round' = round
      /\ pc' = pc /\ collected' = collected
  BY DEF BeginWork, hostVars
<1>2. Program' = Program
  BY <1>1 DEF Program
<1>3. Done' = Done
  BY <1>1, <1>2 DEF Done, Pending, Queued
<1>4. Oldest(s).writes \in LocationNames \ AllHostBuffers
  BY <1>1, OldestWork DEF ProgramOrdered, WellOrdered, Typed
<1>5. \A l \in LocationNames : l # Oldest(s).writes => holds'[l] = holds[l]
  BY <1>1, NamesAssumption DEF OrderInv, DeviceTyped
<1>6. AllHostBuffers \subseteq LocationNames
  BY DEF AllHostBuffers, HostBuffers, LocationNames
<1>7. InputsHold'
  BY <1>1, <1>2, <1>4, <1>5, <1>6 DEF DataInv, InputsHold
<1>8. ResultsHold'
  <2>1. running'[s] /\ \A t \in Streams : running[t] => running'[t]
    BY <1>1 DEF OrderInv, DeviceTyped
  <2>2. InFlight \subseteq InFlight' /\ s \in InFlight' /\ \A t \in Streams : Oldest(t)' = Oldest(t)
    BY <2>1, <1>1 DEF InFlight, Oldest
  <2> SUFFICES ASSUME NEW l \in LocationNames \ AllHostBuffers,
                      Writers(Program, l) \cap Done # {},
                      \A t \in InFlight' : Oldest(t)'.writes # l
               PROVE  holds'[l] = round
    BY <1>1, <1>2, <1>3 DEF ResultsHold
  <2>3. l # Oldest(s).writes /\ \A t \in InFlight : Oldest(t).writes # l
    BY <2>2 DEF InFlight
  <2> QED BY <2>3, <1>5 DEF DataInv, ResultsHold
<1>9. \A c \in collected' : c[2] = round'
  BY <1>1 DEF DataInv
<1> QED BY <1>7, <1>8, <1>9 DEF DataInv

\* A copy or a kernel writes its result.
LEMMA DataFinishWork ==
  ASSUME ProgramOrdered, OrderInv, DataInv, NEW s \in Streams, FinishWork(s), UNCHANGED hostVars
  PROVE  DataInv'
<1> DEFINE x == Oldest(s)
<1>1. /\ HasOldest(s, "work") /\ running[s]
      /\ holds' = [holds EXCEPT ![x.writes] = Combined(x.reads)]
      /\ running' = [running EXCEPT ![s] = FALSE]
      /\ pending' = [pending EXCEPT ![s] = Tail(@)]
      /\ config' = config /\ size' = size /\ round' = round
      /\ pc' = pc /\ collected' = collected
  BY DEF FinishWork, hostVars, OrderInv, RunningIsWork
<1>2. Program' = Program /\ Done' = Done \cup {x.at}
  BY StreamShrinks
<1>3. /\ x.at \in Issues(Program) /\ x.writes = Program[x.at].writes
      /\ x.writes \in LocationNames \ AllHostBuffers
      /\ x.reads # {}
  BY <1>1, OldestWork DEF ProgramOrdered, WellOrdered, Typed
<1>4. \A l \in x.reads : holds[l] = round
  BY <1>1, ReadyToRead DEF DataInv
<1> HIDE DEF x
<1>5. Combined(x.reads) = round
  <2>1. (CHOOSE l \in x.reads : TRUE) \in x.reads
    BY <1>3
  <2>2. holds[CHOOSE l \in x.reads : TRUE] = round
    BY <2>1, <1>4
  <2>3. \E label \in {holds[l] : l \in x.reads} : \A l \in x.reads : holds[l] = label
    BY <1>3, <1>4
  <2> QED BY <2>2, <2>3 DEF Combined
<1>6. \A l \in LocationNames : holds'[l] = IF l = x.writes THEN round ELSE holds[l]
  BY <1>1, <1>5, NamesAssumption DEF OrderInv, DeviceTyped
<1>7. AllHostBuffers \subseteq LocationNames
  BY DEF AllHostBuffers, HostBuffers, LocationNames
<1>8. InputsHold'
  BY <1>1, <1>2, <1>3, <1>6, <1>7 DEF DataInv, InputsHold
<1>9. ResultsHold'
  <2>1. /\ \A t \in Streams \ {s} : running'[t] = running[t] /\ pending'[t] = pending[t]
    BY <1>1 DEF OrderInv, DeviceTyped
  <2>2. \A t \in InFlight : t = s \/ (t \in InFlight' /\ Oldest(t)' = Oldest(t))
    <3> SUFFICES ASSUME NEW t \in Streams, running[t], t # s
                 PROVE  t \in InFlight' /\ Oldest(t)' = Oldest(t)
      BY DEF InFlight
    <3>1. running'[t] /\ pending'[t] = pending[t]
      BY <2>1
    <3> QED BY <3>1 DEF InFlight, Oldest
  <2> SUFFICES ASSUME NEW l \in LocationNames \ AllHostBuffers, l # x.writes,
                      Writers(Program, l) \cap (Done \cup {x.at}) # {},
                      \A t \in InFlight' : Oldest(t)'.writes # l
               PROVE  holds[l] = round
    BY <1>1, <1>2, <1>6 DEF ResultsHold
  <2>3. Writers(Program, l) \cap Done # {}
    BY <1>3 DEF Writers
  <2>4. \A t \in InFlight : Oldest(t).writes # l
    BY <2>2 DEF x
  <2> QED BY <2>3, <2>4 DEF DataInv, ResultsHold
<1>10. \A c \in collected' : c[2] = round'
  BY <1>1 DEF DataInv
<1> QED BY <1>8, <1>9, <1>10 DEF DataInv

\* A record or a wait is passed.
LEMMA DataPass ==
  ASSUME ProgramOrdered, OrderInv, DataInv, NEW s \in Streams,
         FireEvent(s) \/ PassWait(s), UNCHANGED hostVars
  PROVE  DataInv'
<1>1. /\ pending[s] # <<>> /\ Oldest(s).kind \in {"record", "wait"}
      /\ pending' = [pending EXCEPT ![s] = Tail(@)]
      /\ running' = running /\ holds' = holds
      /\ config' = config /\ round' = round /\ pc' = pc /\ collected' = collected
  BY DEF FireEvent, PassWait, HasOldest, hostVars
<1>2. Program' = Program /\ Done' = Done \cup {Oldest(s).at} /\ ~running'[s]
  BY StreamShrinks
<1>3. Oldest(s).at \notin Issues(Program)
  BY <1>1, OldestItem DEF Issues, Matches
<1>4. InFlight' = InFlight /\ \A t \in InFlight : Oldest(t)' = Oldest(t)
  BY <1>1, <1>2 DEF InFlight, Oldest, OrderInv, DeviceTyped
<1>5. \A p \in Issues(Program) : p \in Done' => p \in Done
  BY <1>2, <1>3
<1>6. \A c \in collected' : c \in collected \/ c[2] = round
  BY <1>1
<1> QED BY <1>1, <1>2, <1>4, <1>5, <1>6, DataKept

\* The initial states.
LEMMA InitData == ASSUME Init PROVE DataInv
<1>1. config \in Configs /\ size \in JobIds /\ ProgramOrdered
  BY ProgramsOrdered DEF ProgramOrdered, Program, RoundJobs, Init
<1>2. Done = {}
  BY <1>1, NoneDone DEF Init
<1>3. InputsHold
  <2>1. AllHostBuffers \subseteq Locations
    BY NamesAssumption DEF AllHostBuffers, HostBuffers, LocationNames
  <2> QED BY <2>1 DEF InputsHold, Init, DeviceInit
<1>4. ResultsHold
  BY <1>2 DEF ResultsHold
<1> QED BY <1>3, <1>4 DEF DataInv, Init

\* Every step keeps the data.
LEMMA StepData == ASSUME OrderInv, DataInv, [Next]_vars PROVE DataInv'
<1>1. ProgramOrdered
  <2>1. config \in Configs /\ size \in JobIds
    BY DEF OrderInv, HostTyped
  <2> QED BY <2>1, ProgramsOrdered, Zenon DEF ProgramOrdered, Program, RoundJobs
<1>2. CASE HostStep
  BY <1>1, <1>2, DataCalls, DataIssues, DataFill, DataStartRound, DataHost DEF HostStep
<1>3. CASE CallFails \/ UNCHANGED vars
  BY <1>1, <1>3, DataHost
<1>4. ASSUME NEW s \in Streams, DeviceStep(s) PROVE DataInv'
  BY <1>1, <1>4, DataBeginWork, DataFinishWork, DataPass DEF DeviceStep, StreamStep
<1> QED BY <1>2, <1>3, <1>4 DEF Next

-----------------------------------------------------------------------------
(***************************************************************************)
(* The theorems.                                                           *)
(***************************************************************************)
LEMMA InvOrdered == ASSUME OrderInv PROVE ProgramOrdered
<1>1. config \in Configs /\ size \in JobIds
  BY DEF OrderInv, HostTyped
<1> QED BY <1>1, ProgramsOrdered, Zenon DEF ProgramOrdered, Program, RoundJobs

\* What executes is the oldest item of its stream.
LEMMA RunningOldest ==
  ASSUME OrderInv, NEW s \in InFlight
  PROVE  s \in Streams /\ HasOldest(s, "work") /\ pending[s] # <<>>
BY DEF InFlight, OrderInv, RunningIsWork, HasOldest

\* The order of the items and the labels of the data, together.
THEOREM PipelineInvariant == Spec => []PipelineInv
<1>1. Init => PipelineInv
  BY InitOrder, InitData DEF PipelineInv
<1>2. PipelineInv /\ [Next]_vars => PipelineInv'
  BY StepOrder, StepData DEF PipelineInv
<1> QED BY <1>1, <1>2, PTL DEF Spec

\* No copy and no kernel reads a location before it holds this round's data,
\* or while it is overwritten: the events recorded and awaited by
\* execute_batch and the benchmarks order their streams, for any number of
\* jobs and rounds.
THEOREM ReadsAlwaysReady == Spec => []ReadsAreReady
<1>1. ASSUME PipelineInv PROVE ReadsAreReady
  BY <1>1, InvOrdered, RunningOldest, ReadyToRead DEF PipelineInv, DataInv, ReadsAreReady
<1> QED BY <1>1, PipelineInvariant, PTL

\* What execute_batch takes from the result buffers is this round's result,
\* and a round without an error leaves all its results in place.
THEOREM DeliveredAlwaysRight == Spec => []DeliveredIsRight
<1>1. ASSUME PipelineInv, status = "returned", ~failed, round > 0, NEW j \in RoundJobs
      PROVE  holds[<<"hc", j>>] = round
  <2>1. ProgramOrdered /\ OrderInv /\ ResultsHold
    BY <1>1, InvOrdered DEF PipelineInv, DataInv
  <2>2. pc = Len(Program) + 1
    BY <1>1, <2>1 DEF OrderInv, HostTyped
  <2>3. \A p \in Ops(Program) : p \in Done
    BY <2>1, <2>2, PastDone DEF ProgramOrdered, WellOrdered, EndsQuiet
  <2>4. Writers(Program, <<"hc", j>>) # {}
    BY <2>1 DEF ProgramOrdered, WellOrdered, ResultsInOrder
  <2>5. \A p \in Writers(Program, <<"hc", j>>) : p \in Done
    BY <2>3 DEF Writers, Issues
  <2> QED BY <2>1, <2>4, <2>5, ResultBuffer, WrittenHolds
<1>2. PipelineInv => DeliveredIsRight
  BY <1>1 DEF PipelineInv, DataInv, DeliveredIsRight
<1> QED BY <1>2, PipelineInvariant, PTL

\* No stream has anything left when the function returns and the buffers are
\* freed, after an error as well.
THEOREM AlwaysQuietWhenFreed == Spec => []QuietWhenFreed
<1>1. PipelineInv => QuietWhenFreed
  BY DEF PipelineInv, OrderInv
<1> QED BY <1>1, PipelineInvariant, PTL

\* Every timer the benchmarks read has been recorded and reached.
THEOREM TimersAlwaysComplete == Spec => []TimersComplete
<1>1. ASSUME PipelineInv, AtCall("elapsed"), NEW e \in Call.events
      PROVE  recorded[e] > 0 /\ Complete(e)
  <2>1. ProgramOrdered /\ OrderInv
    BY <1>1, InvOrdered DEF PipelineInv
  <2>2. pc \in DOMAIN Program /\ Program[pc].do = "elapsed" /\ e \in Program[pc].events
    BY <1>1, <2>1, ProgramDomain DEF AtCall, Call, OrderInv, HostTyped
  <2>3. /\ \A p \in Ops(Program) : p < pc => Past(Program, p, pc)
        /\ e \in EventNames /\ \E r \in Records(Program, e) : r < pc
    BY <2>1, <2>2 DEF ProgramOrdered, WellOrdered, TimersLate
  <2>4. Pending = {}
    BY <2>1, <2>3, AllFinished
  <2> QED BY <2>1, <2>3, <2>4 DEF OrderInv, LastRecord, Complete
<1>2. PipelineInv => TimersComplete
  BY <1>1 DEF TimersComplete
<1> QED BY <1>2, PipelineInvariant, PTL

\* With one copy stream, or none, no two items execute at a time.
THEOREM ControlCaseAlwaysSerial == Spec => []ControlCaseSerial
<1>1. ASSUME PipelineInv, config \in Control, NEW s \in InFlight, NEW t \in InFlight,
             s # t, Oldest(s).at < Oldest(t).at
      PROVE  FALSE
  <2>1. ProgramOrdered /\ OrderInv
    BY <1>1, InvOrdered DEF PipelineInv
  <2>2. /\ s \in Streams /\ HasOldest(s, "work") /\ pending[s] # <<>>
        /\ t \in Streams /\ HasOldest(t, "work") /\ pending[t] # <<>>
    BY <2>1, RunningOldest
  <2>3. /\ Oldest(s).at \in Issues(Program) /\ Oldest(t).at \in Issues(Program)
        /\ Oldest(s).at \notin Done
        /\ Program[Oldest(s).at].stream = s /\ Program[Oldest(t).at].stream = t
    BY <2>1, <2>2, OldestItem, OldestWork
  <2>4. Before(Program, Oldest(s).at, Oldest(t).at)
    BY <1>1, <2>1, <2>3 DEF ProgramOrdered, WellOrdered, Serial
  <2> QED BY <2>1, <2>2, <2>3, <2>4, OldestWork
<1>2. ASSUME PipelineInv, config \in Control, NEW s \in InFlight, NEW t \in InFlight
      PROVE  s = t
  <2>1. ProgramOrdered /\ OrderInv
    BY <1>2, InvOrdered DEF PipelineInv
  <2>2. /\ s \in Streams /\ pending[s] # <<>>
        /\ t \in Streams /\ pending[t] # <<>>
    BY <2>1, RunningOldest
  <2>3. /\ Oldest(s).at \in Nat /\ Oldest(t).at \in Nat
        /\ Program[Oldest(s).at].stream = s /\ Program[Oldest(t).at].stream = t
    BY <2>1, <2>2, OldestItem
  <2>4. Oldest(s).at = Oldest(t).at \/ Oldest(s).at < Oldest(t).at \/ Oldest(t).at < Oldest(s).at
    BY <2>3
  <2> QED BY <1>1, <1>2, <2>3, <2>4
<1>3. PipelineInv => ControlCaseSerial
  BY <1>2 DEF ControlCaseSerial, Control
<1> QED BY <1>3, PipelineInvariant, PTL

\* A job's result is complete only after those of the jobs before it.
THEOREM ResultsAlwaysInOrder == Spec => ResultsArriveInOrder
<1> DEFINE InOrder ==
      \A i, j \in RoundJobs :
        /\ i < j /\ round' = round
        /\ holds[<<"hc", j>>] # round /\ holds'[<<"hc", j>>] = round
        => holds[<<"hc", i>>] = round
<1>1. ASSUME PipelineInv, Next, NEW i \in RoundJobs, NEW j \in RoundJobs, i < j, round' = round,
             holds[<<"hc", j>>] # round, holds'[<<"hc", j>>] = round
      PROVE  holds[<<"hc", i>>] = round
  <2>1. ProgramOrdered /\ OrderInv /\ ResultsHold /\ InputsHold
    BY <1>1, InvOrdered DEF PipelineInv, DataInv
  <2>2. /\ Writers(Program, <<"hc", i>>) # {} /\ Writers(Program, <<"hc", j>>) # {}
        /\ \A p \in Writers(Program, <<"hc", i>>), q \in Writers(Program, <<"hc", j>>) :
             p < q /\ Program[p].stream = Program[q].stream
    BY <1>1, <2>1 DEF ProgramOrdered, WellOrdered, ResultsInOrder
  <2>3. /\ <<"hc", i>> \in LocationNames \ AllHostBuffers
        /\ <<"hc", j>> \in LocationNames \ AllHostBuffers /\ <<"hc", j>> \in Locations
    BY <2>1, <2>2, ResultBuffer, NamesAssumption
  <2>4. holds \in [Locations -> Nat] /\ round \in Nat
    BY <2>1 DEF OrderInv, DeviceTyped, HostTyped
  <2>5. ~CallFill
    <3>1. SUFFICES ASSUME CallFill PROVE FALSE
      OBVIOUS
    <3>2. holds'[<<"hc", j>>] = holds[<<"hc", j>>]
      BY <3>1, <2>3 DEF CallFill, HostBuffers
    <3> QED BY <3>2, <1>1
  <2>6. ~StartRound
    BY <1>1, <2>4 DEF StartRound
  <2>7. HostStep \/ CallFails => holds' = holds
    BY <2>5, <2>6 DEF HostStep, CallIssue, CallRecord, CallWait, Launch, RecordEvent, WaitEvent,
       CallEventSync, CallSync, CallElapsed, CallCollect, Return, CallFails, DrainFailed, deviceVars
  <2>8. PICK s \in Streams : DeviceStep(s)
    BY <1>1, <2>7 DEF Next
  <2>9. CASE BeginWork(s)
    <3>1. holds' = [holds EXCEPT ![Oldest(s).writes] = 0] /\ HasOldest(s, "work")
      BY <2>9 DEF BeginWork
    <3>2. holds'[<<"hc", j>>] = 0
      BY <3>1, <2>3, <2>4, <1>1
    <3>3. round # 0
      <4>1. status # "returned"
        BY <3>1, <2>1 DEF OrderInv, QuietWhenFreed, DeviceQuiet, HasOldest
      <4> QED BY <4>1, <2>1 DEF OrderInv, HostTyped
    <3> QED BY <3>2, <3>3, <1>1
  <2>10. CASE FinishWork(s)
    <3>1. holds' = [holds EXCEPT ![Oldest(s).writes] = Combined(Oldest(s).reads)] /\ running[s]
      BY <2>10 DEF FinishWork
    <3>2. Oldest(s).writes = <<"hc", j>>
      BY <3>1, <2>3, <2>4, <1>1
    <3>3. HasOldest(s, "work") /\ pending[s] # <<>>
      BY <3>1, <2>1 DEF OrderInv, RunningIsWork, HasOldest
    <3>4. Oldest(s).at \in Writers(Program, <<"hc", j>>) /\ Program[Oldest(s).at].stream = s
          /\ \A p \in Ops(Program) : p < Oldest(s).at /\ Program[p].stream = s => p \in Done
      BY <3>2, <3>3, <2>1, OldestWork, OldestItem DEF Writers
    <3>5. \A p \in Writers(Program, <<"hc", i>>) : p \in Done
      BY <3>4, <2>2 DEF Writers, Issues
    <3> QED BY <3>5, <2>1, <2>2, <2>3, WrittenHolds
  <2>11. CASE FireEvent(s) \/ PassWait(s)
    BY <2>11, <1>1 DEF FireEvent, PassWait
  <2> QED BY <2>8, <2>9, <2>10, <2>11 DEF DeviceStep, StreamStep
<1>2. PipelineInv /\ [Next]_vars => [InOrder]_vars
  BY <1>1
<1> QED BY <1>2, PipelineInvariant, PTL DEF Spec, ResultsArriveInOrder
=============================================================================
