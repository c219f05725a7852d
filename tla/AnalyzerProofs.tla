--------------------------- MODULE AnalyzerProofs ---------------------------
(* The analyzer's recommendations fit the peers they are made for, and its *)
(* scores stay in step, for any number of sessions, records and peers.     *)
EXTENDS Analyzer, SequenceTheorems, TLAPS

\* The modes that newMakeHoleRecords offers to a pair of features.
ModesFor(c, v) ==
  CASE hardCount(c, v) = 0 -> {0}
    [] hardCount(c, v) = 1 -> {0, 1, 2}
    [] hardCount(c, v) = 2 /\ portsChangedRegularCount(c, v) = 2 -> {3, 4}
    [] hardCount(c, v) = 2 /\ portsChangedRegularCount(c, v) = 1 -> {4}
    [] OTHER -> {0, 1, 3}

\* seq has an entry for every behaviour of the modes ms, and no other entries.
Covers(seq, ms) ==
  /\ seq \in Seq(Entry)
  /\ \A i \in Indices(seq) :
       /\ seq[i].Mode \in ms
       /\ seq[i].Index \in Indices(getBehaviorByMode(seq[i].Mode))
  /\ \A m \in ms : \A x \in Indices(getBehaviorByMode(m)) :
       \E i \in Indices(seq) : seq[i].Mode = m /\ seq[i].Index = x

Initial(seq) == \A i \in Indices(seq) : seq[i].Score \in {0, 1}

-----------------------------------------------------------------------------
LEMMA Tables ==
  ASSUME NEW m \in Modes
  PROVE  /\ getBehaviorByMode(m) \in Seq(Roles)
         /\ Len(getBehaviorByMode(m)) \in Nat
         /\ Len(getBehaviorByMode(m)) <= 10
         /\ m \in {1, 2, 4} =>
              \A i \in Indices(getBehaviorByMode(m)) :
                getBehaviorByMode(m)[i] = "sender"
<1>1. CASE m = 0
  BY <1>1 DEF getBehaviorByMode, mode0Behaviors, Roles
<1>2. CASE m = 1
  BY <1>2 DEF getBehaviorByMode, mode1Behaviors, Roles, Indices
<1>3. CASE m = 2
  BY <1>3 DEF getBehaviorByMode, mode2Behaviors, Roles, Indices
<1>4. CASE m = 3
  BY <1>4 DEF getBehaviorByMode, mode3Behaviors, Roles
<1>5. CASE m = 4
  BY <1>5 DEF getBehaviorByMode, mode4Behaviors, Roles, Indices
<1> QED
  BY <1>1, <1>2, <1>3, <1>4, <1>5 DEF Modes

LEMMA ModeScores ==
  ASSUME NEW m \in Modes, NEW a \in {0, 1}, NEW b \in {0, 1}
  PROVE  /\ Covers(getBehaviorScoresByMode2(m, a, b), {m})
         /\ Initial(getBehaviorScoresByMode2(m, a, b))
<1> DEFINE t == getBehaviorByMode(m)
           s == getBehaviorScoresByMode2(m, a, b)
           e(i) == [Mode |-> m, Index |-> i,
                    Score |-> IF t[i] = "sender" THEN a ELSE b]
<1>1. t \in Seq(Roles) /\ Len(t) \in Nat /\ Len(t) <= 10
  BY Tables
<1> HIDE DEF t
<1>2. s = [i \in 1 .. Len(t) |-> e(i)]
  BY DEF getBehaviorScoresByMode2, Indices, t
<1>3. ASSUME NEW i \in 1 .. Len(t) PROVE e(i) \in Entry
  <2> DEFINE n == IF t[i] = "sender" THEN a ELSE b
  <2>1. n \in {0, 1}
    OBVIOUS
  <2>2. i \in 1 .. 10
    BY <1>1
  <2> HIDE DEF n
  <2>3. [Mode |-> m, Index |-> i, Score |-> n] \in Entry
    BY <2>1, <2>2 DEF Entry
  <2> QED
    BY <2>3 DEF n
<1>4. s \in Seq(Entry) /\ Len(s) = Len(t) /\ Indices(s) = Indices(t)
  BY <1>1, <1>2, <1>3 DEF Indices
<1>5. \A i \in Indices(t) :
        s[i].Mode = m /\ s[i].Index = i /\ s[i].Score \in {0, 1}
  BY <1>2 DEF Indices
<1> HIDE DEF s
<1>6. Covers(s, {m})
  BY <1>4, <1>5 DEF Covers, t
<1>7. Initial(s)
  BY <1>4, <1>5 DEF Initial
<1> QED
  BY <1>6, <1>7 DEF s

LEMMA Concatenation ==
  ASSUME NEW s, NEW t, NEW ms, NEW ns, Covers(s, ms), Covers(t, ns),
         Initial(s), Initial(t)
  PROVE  Covers(s \o t, ms \cup ns) /\ Initial(s \o t)
<1> DEFINE u == s \o t
<1>1. s \in Seq(Entry) /\ t \in Seq(Entry)
  BY DEF Covers
<1>2. /\ u \in Seq(Entry)
      /\ Len(u) = Len(s) + Len(t)
      /\ \A i \in 1 .. Len(s) + Len(t) :
           u[i] = IF i <= Len(s) THEN s[i] ELSE t[i - Len(s)]
  BY <1>1, ConcatProperties
<1>3. Len(s) \in Nat /\ Len(t) \in Nat
  BY <1>1
<1> HIDE DEF u
<1>4. \A i \in Indices(u) :
        \/ i \in Indices(s) /\ u[i] = s[i]
        \/ i - Len(s) \in Indices(t) /\ u[i] = t[i - Len(s)]
  BY <1>2, <1>3 DEF Indices
<1>5. \A i \in Indices(s) : i \in Indices(u) /\ u[i] = s[i]
  BY <1>2, <1>3 DEF Indices
<1>6. \A j \in Indices(t) :
        Len(s) + j \in Indices(u) /\ u[Len(s) + j] = t[j]
  BY SMTT(30), <1>2, <1>3 DEF Indices
<1>7. \A i \in Indices(u) :
        /\ u[i].Mode \in ms \cup ns
        /\ u[i].Index \in Indices(getBehaviorByMode(u[i].Mode))
  BY <1>4 DEF Covers
<1>8. ASSUME NEW m \in ms \cup ns, NEW x \in Indices(getBehaviorByMode(m))
      PROVE  \E i \in Indices(u) : u[i].Mode = m /\ u[i].Index = x
  <2>1. CASE m \in ms
    BY <2>1, <1>5, <1>8 DEF Covers
  <2>2. CASE m \in ns
    <3>1. PICK j \in Indices(t) : t[j].Mode = m /\ t[j].Index = x
      BY <2>2, <1>8 DEF Covers
    <3> QED
      BY <3>1, <1>6
  <2> QED
    BY <2>1, <2>2
<1>9. Initial(u)
  BY ZenonT(30), <1>4 DEF Initial
<1> QED
  BY ZenonT(30), <1>2, <1>7, <1>8, <1>9 DEF Covers, u

LEMMA FeatureFacts ==
  ASSUME NEW p
  PROVE  /\ ClassifyNATFeature(p).NatType \in {"EasyNAT", "HardNAT"}
         /\ ClassifyNATFeature(p).RegularPortsChange =>
              Hard(ClassifyNATFeature(p))
BY ZenonT(30) DEF ClassifyNATFeature, Regular, Hard

\* The features of the peers of p.
C(p) == ClassifyNATFeature(p[1])
V(p) == ClassifyNATFeature(p[2])

LEMMA Counts ==
  ASSUME NEW p
  PROVE  /\ hardCount(C(p), V(p)) \in {0, 1, 2}
         /\ portsChangedRegularCount(C(p), V(p)) \in {0, 1, 2}
         /\ portsChangedRegularCount(C(p), V(p)) <= hardCount(C(p), V(p))
         /\ ModesFor(C(p), V(p)) \subseteq Modes
<1>1. /\ C(p).RegularPortsChange => Hard(C(p))
      /\ V(p).RegularPortsChange => Hard(V(p))
  BY FeatureFacts DEF C, V
<1>2. /\ hardCount(C(p), V(p)) \in {0, 1, 2}
      /\ portsChangedRegularCount(C(p), V(p)) \in {0, 1, 2}
      /\ portsChangedRegularCount(C(p), V(p)) <= hardCount(C(p), V(p))
  BY <1>1 DEF hardCount, portsChangedRegularCount
<1> QED
  BY <1>2 DEF ModesFor, Modes

LEMMA NewRecords ==
  ASSUME NEW p
  PROVE  /\ Covers(newMakeHoleRecords(C(p), V(p)), ModesFor(C(p), V(p)))
         /\ Initial(newMakeHoleRecords(C(p), V(p)))
<1> DEFINE hard == hardCount(C(p), V(p))
           regular == portsChangedRegularCount(C(p), V(p))
           mode(m) == getBehaviorScoresByMode(m, 0)
           tryout(m) == getBehaviorScoresByMode(m, 1)
           zero == mode0Scores(C(p), V(p))
           new == newMakeHoleRecords(C(p), V(p))
           ms == ModesFor(C(p), V(p))
           Good(seq, S) == Covers(seq, S) /\ Initial(seq)
<1>1. \A m \in Modes : Good(mode(m), {m}) /\ Good(tryout(m), {m})
  BY ModeScores DEF getBehaviorScoresByMode
<1>2. Good(zero, {0})
  BY ModeScores DEF mode0Scores, getBehaviorScoresByMode, Modes
<1>3. \A s, t, S, T : Good(s, S) /\ Good(t, T) => Good(s \o t, S \cup T)
  BY Concatenation
<1>4. /\ hard \in {0, 1, 2} /\ regular \in {0, 1, 2} /\ regular <= hard
  BY Counts
<1>d. new = CASE hard = 0 -> zero
             [] hard = 1 /\ regular = 1 -> mode(1) \o mode(2) \o zero
             [] hard = 1 /\ regular = 0 -> mode(2) \o mode(1) \o zero
             [] hard = 2 /\ regular = 2 -> mode(3) \o mode(4)
             [] hard = 2 /\ regular = 1 -> mode(4)
             [] OTHER -> tryout(0) \o tryout(1) \o tryout(3)
  BY DEF newMakeHoleRecords
<1>m. ms = CASE hard = 0 -> {0}
             [] hard = 1 -> {0, 1, 2}
             [] hard = 2 /\ regular = 2 -> {3, 4}
             [] hard = 2 /\ regular = 1 -> {4}
             [] OTHER -> {0, 1, 3}
  BY DEF ModesFor
<1> SUFFICES Good(new, ms)
  OBVIOUS
<1> HIDE DEF Good, new, ms, zero, mode, tryout, hard, regular
<1>5. CASE hard = 0
  BY <1>d, <1>m, <1>2, <1>5
<1>6. CASE hard = 1 /\ regular = 1
  <2>1. Good(mode(1) \o mode(2), {1} \cup {2})
    BY <1>1, <1>3 DEF Modes
  <2>2. Good(mode(1) \o mode(2) \o zero, {1} \cup {2} \cup {0})
    BY <1>2, <1>3, <2>1
  <2>3. new = mode(1) \o mode(2) \o zero /\ ms = {1} \cup {2} \cup {0}
    BY <1>d, <1>m, <1>6
  <2> QED
    BY <2>2, <2>3
<1>7. CASE hard = 1 /\ regular = 0
  <2>1. Good(mode(2) \o mode(1), {2} \cup {1})
    BY <1>1, <1>3 DEF Modes
  <2>2. Good(mode(2) \o mode(1) \o zero, {2} \cup {1} \cup {0})
    BY <1>2, <1>3, <2>1
  <2>3. new = mode(2) \o mode(1) \o zero /\ ms = {2} \cup {1} \cup {0}
    BY <1>d, <1>m, <1>7
  <2> QED
    BY <2>2, <2>3
<1>8. CASE hard = 2 /\ regular = 2
  <2>1. Good(mode(3) \o mode(4), {3} \cup {4})
    BY <1>1, <1>3 DEF Modes
  <2>2. new = mode(3) \o mode(4) /\ ms = {3} \cup {4}
    BY <1>d, <1>m, <1>8
  <2> QED
    BY <2>1, <2>2
<1>9. CASE hard = 2 /\ regular = 1
  <2>1. new = mode(4) /\ ms = {4}
    BY <1>d, <1>m, <1>9
  <2> QED
    BY <1>1, <2>1 DEF Modes
<1>10. CASE hard = 2 /\ regular = 0
  <2>1. Good(tryout(0) \o tryout(1), {0} \cup {1})
    BY <1>1, <1>3 DEF Modes
  <2>2. Good(tryout(0) \o tryout(1) \o tryout(3), {0} \cup {1} \cup {3})
    BY <1>1, <1>3, <2>1 DEF Modes
  <2>3. /\ new = tryout(0) \o tryout(1) \o tryout(3)
        /\ ms = {0} \cup {1} \cup {3}
    BY <1>d, <1>m, <1>10
  <2> QED
    BY <2>2, <2>3
<1> QED
  BY <1>4, <1>5, <1>6, <1>7, <1>8, <1>9, <1>10

\* Pairs with the same key are offered the same modes.
LEMMA SameKeySameModes ==
  ASSUME NEW p, NEW q, analysisKey(p[1], p[2]) = analysisKey(q[1], q[2])
  PROVE  ModesFor(C(p), V(p)) = ModesFor(C(q), V(q))
<1>1. /\ C(p).NatType = C(q).NatType
      /\ V(p).NatType = V(q).NatType
      /\ C(p).RegularPortsChange = C(q).RegularPortsChange
      /\ V(p).RegularPortsChange = V(q).RegularPortsChange
  BY DEF analysisKey, PeerKey, C, V
<1>2. /\ hardCount(C(p), V(p)) = hardCount(C(q), V(q))
      /\ portsChangedRegularCount(C(p), V(p)) =
           portsChangedRegularCount(C(q), V(q))
  BY <1>1 DEF hardCount, portsChangedRegularCount, Hard
<1> QED
  BY <1>2 DEF ModesFor

-----------------------------------------------------------------------------
K(p) == analysisKey(p[1], p[2])
Offer(p) == ModesFor(C(p), V(p))
New(p) == newMakeHoleRecords(C(p), V(p))

LEMMA PairFacts ==
  /\ \A p \in Pairs : K(p) \in Keys
  /\ \A p, q \in Pairs : K(p) = K(q) => Offer(p) = Offer(q)
  /\ \A p \in Pairs : Covers(New(p), Offer(p)) /\ Initial(New(p))
  /\ \A p \in Pairs : Offer(p) \subseteq Modes
<1>1. \A p \in Pairs : K(p) \in Keys
  BY DEF K, Keys
<1>2. \A p, q \in Pairs : K(p) = K(q) => Offer(p) = Offer(q)
  BY SameKeySameModes DEF K, Offer
<1>3. \A p \in Pairs : Covers(New(p), Offer(p)) /\ Initial(New(p))
  BY NewRecords DEF New, Offer
<1>4. \A p \in Pairs : Offer(p) \subseteq Modes
  BY Counts DEF Offer
<1> QED
  BY <1>1, <1>2, <1>3, <1>4

ScoresOK == scores \in [Records -> Seq(Entry)]

\* The records in the map and the records that sessions hold offer what
\* newMakeHoleRecords would offer their pairs now.
MapOK ==
  \A p \in Pairs :
    records[K(p)] # NoRecord => Covers(scores[records[K(p)]], Offer(p))

HeldOK ==
  \A h \in Handlers :
    pc[h] \in {"fetched", "crediting"} =>
      ref[h] \in Records /\ Covers(scores[ref[h]], Offer(pair[h]))

ChoiceOK ==
  \A h \in Handlers :
    /\ pc[h] # "idle" => pair[h] \in Pairs
    /\ Advised(h) =>
         /\ choice[h].Mode \in Offer(pair[h])
         /\ choice[h].Index \in Indices(getBehaviorByMode(choice[h].Mode))

AnalyzerInv ==
  AnalyzerTypeOK /\ ScoresOK /\ MapOK /\ HeldOK /\ ChoiceOK /\ TriedInRounds

\* Only the scores of entries change once a record has been made.
LEMMA Rescored ==
  ASSUME ScoresOK, NEW r \in Records, NEW i \in Indices(scores[r]),
         NEW n \in Int, n <= 10, WithScore(r, i, n)
  PROVE  /\ ScoresOK'
         /\ \A q \in Records :
              /\ Indices(scores'[q]) = Indices(scores[q])
              /\ \A j \in Indices(scores[q]) :
                   /\ scores'[q][j].Mode = scores[q][j].Mode
                   /\ scores'[q][j].Index = scores[q][j].Index
                   /\ scores'[q][j].Score =
                        IF q = r /\ j = i THEN n ELSE scores[q][j].Score
         /\ \A q \in Records : \A ms :
              Covers(scores[q], ms) => Covers(scores'[q], ms)
<1> DEFINE s == scores[r]
           e(j) == [Mode |-> s[j].Mode, Index |-> s[j].Index,
                    Score |-> IF j = i THEN n ELSE s[j].Score]
           t == [j \in 1 .. Len(s) |-> e(j)]
<1>1. scores' = [scores EXCEPT ![r] = t]
  BY DEF WithScore, Indices
<1>2. s \in Seq(Entry) /\ Len(s) \in Nat
  BY DEF ScoresOK
<1>3. ASSUME NEW j \in 1 .. Len(s) PROVE e(j) \in Entry
  <2>1. s[j] \in Entry
    BY <1>2
  <2>2. s[j].Mode \in Modes /\ s[j].Index \in 1 .. 10
        /\ s[j].Score \in {m \in Int : m <= 10}
    BY <2>1 DEF Entry
  <2> DEFINE x == IF j = i THEN n ELSE s[j].Score
  <2>3. x \in {m \in Int : m <= 10}
    BY <2>2
  <2> HIDE DEF x
  <2>4. [Mode |-> s[j].Mode, Index |-> s[j].Index, Score |-> x] \in Entry
    BY <2>2, <2>3 DEF Entry
  <2> QED
    BY <2>4 DEF x
<1>4. t \in Seq(Entry) /\ Len(t) = Len(s) /\ \A j \in 1 .. Len(s) : t[j] = e(j)
  BY <1>2, <1>3
<1> HIDE DEF t
<1>5. ScoresOK' /\ scores'[r] = t
      /\ \A q \in Records : q # r => scores'[q] = scores[q]
  BY <1>1, <1>4 DEF ScoresOK
<1>6. /\ Indices(t) = Indices(s)
      /\ \A j \in Indices(s) :
           /\ t[j].Mode = s[j].Mode
           /\ t[j].Index = s[j].Index
           /\ t[j].Score = IF j = i THEN n ELSE s[j].Score
  <2>1. \A j : /\ e(j).Mode = s[j].Mode
               /\ e(j).Index = s[j].Index
               /\ e(j).Score = IF j = i THEN n ELSE s[j].Score
    OBVIOUS
  <2> HIDE DEF e, s
  <2> QED
    BY <1>4, <2>1 DEF Indices
<1>7. \A ms : Covers(s, ms) => Covers(t, ms)
  BY <1>4, <1>6 DEF Covers
<1> QED
  BY <1>5, <1>6, <1>7

LEMMA ScoresTyped ==
  ScoresOK =>
    \A r \in Records : \A i \in Indices(scores[r]) : scores[r][i] \in Entry
BY DEF ScoresOK, Indices

LEMMA FetchStep ==
  ASSUME AnalyzerInv, NEW h \in Handlers, NEW p \in Pairs, Fetch(h, p)
  PROVE  AnalyzerInv'
<1>t. /\ AnalyzerTypeOK /\ ScoresOK /\ MapOK /\ HeldOK /\ ChoiceOK
      /\ TriedInRounds
  BY DEF AnalyzerInv
<1>f. /\ K(p) \in Keys
      /\ \A q \in Pairs : K(q) \in Keys /\ (K(p) = K(q) => Offer(p) = Offer(q))
      /\ Covers(New(p), Offer(p)) /\ Initial(New(p))
  BY PairFacts
<1>e. /\ pc[h] = "idle"
      /\ visits < MaxVisits /\ visits' = visits + 1
      /\ pair' = [pair EXCEPT ![h] = p]
      /\ pc' = [pc EXCEPT ![h] = "fetched"]
      /\ UNCHANGED choice
      /\ \/ /\ records[K(p)] # NoRecord
            /\ ref' = [ref EXCEPT ![h] = records[K(p)]]
            /\ UNCHANGED <<records, scores, aged, credited>>
         \/ \E r \in Records :
              /\ records[K(p)] = NoRecord
              /\ Unused(r)
              /\ records' = [records EXCEPT ![K(p)] = r]
              /\ scores' = [scores EXCEPT ![r] = New(p)]
              /\ aged' = [aged EXCEPT ![r] = FALSE]
              /\ credited' = [credited EXCEPT ![r] = FALSE]
              /\ ref' = [ref EXCEPT ![h] = r]
  BY DEF Fetch, K, New, C, V, recordVars
<1>c. ChoiceOK'
  BY <1>t, <1>e DEF AnalyzerTypeOK, ChoiceOK, Advised
<1>v. visits' \in 0 .. MaxVisits
  BY <1>t, <1>e, AnalyzerConstants DEF AnalyzerTypeOK, AnalyzerConstants
<1>1. CASE /\ records[K(p)] # NoRecord
           /\ ref' = [ref EXCEPT ![h] = records[K(p)]]
           /\ UNCHANGED <<records, scores, aged, credited>>
  <2>1. ScoresOK' /\ MapOK' /\ TriedInRounds'
    BY <1>t, <1>1 DEF ScoresOK, MapOK, TriedInRounds
  <2>2. records[K(p)] \in Records /\ Covers(scores[records[K(p)]], Offer(p))
    BY <1>t, <1>f, <1>1 DEF AnalyzerTypeOK, MapOK
  <2>3. HeldOK'
    BY <1>t, <1>e, <1>1, <2>2 DEF AnalyzerTypeOK, HeldOK
  <2>4. AnalyzerTypeOK'
    BY <1>t, <1>e, <1>v, <1>1, <2>2 DEF AnalyzerTypeOK
  <2> QED
    BY <1>c, <2>1, <2>3, <2>4 DEF AnalyzerInv
<1>2. ASSUME NEW r \in Records, Unused(r),
             records' = [records EXCEPT ![K(p)] = r],
             scores' = [scores EXCEPT ![r] = New(p)],
             aged' = [aged EXCEPT ![r] = FALSE],
             credited' = [credited EXCEPT ![r] = FALSE],
             ref' = [ref EXCEPT ![h] = r]
      PROVE  AnalyzerInv'
  <2>1. /\ scores'[r] = New(p)
        /\ \A q \in Records : q # r => scores'[q] = scores[q]
        /\ ScoresOK'
    BY <1>t, <1>f, <1>2 DEF ScoresOK, Covers
  <2>2. MapOK'
    BY <1>t, <1>f, <1>2, <2>1 DEF AnalyzerTypeOK, MapOK, Unused
  <2>3. HeldOK'
    <3> SUFFICES ASSUME NEW g \in Handlers, pc'[g] \in {"fetched", "crediting"}
                 PROVE  /\ ref'[g] \in Records
                        /\ Covers(scores'[ref'[g]], Offer(pair'[g]))
      BY DEF HeldOK
    <3>1. CASE g = h
      BY <1>t, <1>f, <1>e, <1>2, <2>1, <3>1 DEF AnalyzerTypeOK
    <3>2. CASE g # h
      <4>1. pc'[g] = pc[g] /\ ref'[g] = ref[g] /\ pair'[g] = pair[g]
        BY <1>t, <1>e, <1>2, <3>2 DEF AnalyzerTypeOK
      <4> QED
        BY <1>t, <1>2, <2>1, <4>1 DEF HeldOK, Unused
    <3> QED
      BY <3>1, <3>2
  <2>4. TriedInRounds'
    BY <1>t, <1>f, <1>2, <2>1 DEF AnalyzerTypeOK, TriedInRounds, Initial
  <2>5. AnalyzerTypeOK'
    <3>1. \A q \in Records :
            \A i \in Indices(scores'[q]) : scores'[q][i] \in Entry
      BY <2>1, ScoresTyped DEF ScoresOK, Indices
    <3> QED
      BY <1>t, <1>f, <1>e, <1>v, <1>2, <3>1 DEF AnalyzerTypeOK
  <2> QED
    BY <1>c, <2>1, <2>2, <2>3, <2>4, <2>5 DEF AnalyzerInv
<1> QED
  BY <1>e, <1>1, <1>2

LEMMA RecommandStep ==
  ASSUME AnalyzerInv, NEW h \in Handlers, recommand(h)
  PROVE  AnalyzerInv'
<1>t. /\ AnalyzerTypeOK /\ ScoresOK /\ MapOK /\ HeldOK /\ ChoiceOK
      /\ TriedInRounds
  BY DEF AnalyzerInv
<1> DEFINE r == ref[h]
<1>1. /\ r \in Records
      /\ Covers(scores[r], Offer(pair[h]))
      /\ pc[h] = "fetched" /\ pair[h] \in Pairs
  BY <1>t DEF recommand, HeldOK, ChoiceOK
<1>2. PICK i \in Indices(scores[r]) :
        /\ FirstMax(r, i)
        /\ WithScore(r, i, scores[r][i].Score - 1)
        /\ choice' = [choice EXCEPT ![h] = scores[r][i]]
  BY DEF recommand
<1>3. /\ aged' = [aged EXCEPT ![r] = FALSE]
      /\ pc' = [pc EXCEPT ![h] = "advised"]
      /\ ref' = [ref EXCEPT ![h] = NoRecord]
      /\ UNCHANGED <<records, credited, pair, visits>>
  BY DEF recommand, sessionVars
<1> HIDE DEF r
<1>4. \A j \in Indices(scores[r]) :
        scores[r][j] \in Entry /\ scores[r][j].Score \in Int
        /\ scores[r][j].Score <= 10
  BY <1>t, <1>1, ScoresTyped DEF Entry
<1>5. /\ ScoresOK'
      /\ \A q \in Records :
           /\ Indices(scores'[q]) = Indices(scores[q])
           /\ \A j \in Indices(scores[q]) :
                scores'[q][j].Score =
                  IF q = r /\ j = i THEN scores[r][i].Score - 1
                                    ELSE scores[q][j].Score
      /\ \A q \in Records : \A ms :
           Covers(scores[q], ms) => Covers(scores'[q], ms)
  <2> DEFINE n == scores[r][i].Score - 1
  <2>1. n \in Int /\ n <= 10
    BY <1>4
  <2>2. WithScore(r, i, n)
    BY <1>2
  <2> HIDE DEF n
  <2>3. /\ ScoresOK'
        /\ \A q \in Records :
             /\ Indices(scores'[q]) = Indices(scores[q])
             /\ \A j \in Indices(scores[q]) :
                  scores'[q][j].Score =
                    IF q = r /\ j = i THEN n ELSE scores[q][j].Score
        /\ \A q \in Records : \A ms :
             Covers(scores[q], ms) => Covers(scores'[q], ms)
    <3>1. ScoresOK /\ r \in Records
      BY <1>t, <1>1
    <3> QED
      BY <2>1, <2>2, <3>1, Rescored
  <2> QED
    BY <2>3 DEF n
<1>6. MapOK'
  BY <1>t, <1>3, <1>5, PairFacts DEF AnalyzerTypeOK, MapOK
<1>7. HeldOK'
  BY <1>t, <1>3, <1>5 DEF AnalyzerTypeOK, HeldOK
<1>8. ChoiceOK'
  <2>1. choice'[h] = scores[r][i] /\ pair'[h] = pair[h]
    BY <1>t, <1>2, <1>3 DEF AnalyzerTypeOK
  <2>2. /\ choice'[h].Mode \in Offer(pair[h])
        /\ choice'[h].Index \in Indices(getBehaviorByMode(choice'[h].Mode))
    BY <1>1, <2>1 DEF Covers
  <2>3. \A g \in Handlers :
          g # h =>
            pc'[g] = pc[g] /\ choice'[g] = choice[g] /\ pair'[g] = pair[g]
    BY <1>t, <1>2, <1>3 DEF AnalyzerTypeOK
  <2> QED
    BY <1>t, <1>1, <2>1, <2>2, <2>3 DEF ChoiceOK, Advised
<1>9. TriedInRounds'
  <2> SUFFICES ASSUME NEW q \in Records, ~credited[q],
                      NEW j \in Indices(scores[q]),
                      NEW k \in Indices(scores[q])
               PROVE  scores'[q][j].Score <= scores'[q][k].Score + 1
    BY <1>3, <1>5 DEF TriedInRounds
  <2>1. scores[q][j].Score <= scores[q][k].Score + 1
    BY <1>t DEF TriedInRounds
  <2>2. CASE q # r
    BY <1>5, <2>1, <2>2
  <2>3. CASE q = r
    <3>1. scores[r][j].Score <= scores[r][i].Score
      BY <1>2, <2>3 DEF FirstMax
    <3>2. scores[r][j].Score \in Int /\ scores[r][k].Score \in Int
          /\ scores[r][i].Score \in Int
      BY <1>4, <2>3
    <3> QED
      BY <1>5, <2>1, <2>3, <3>1, <3>2
  <2> QED
    BY <2>2, <2>3
<1>10. AnalyzerTypeOK'
  <2>1. \A q \in Records :
          \A j \in Indices(scores'[q]) : scores'[q][j] \in Entry
    BY <1>5, ScoresTyped DEF ScoresOK, Indices
  <2>2. choice' \in [Handlers -> Entry]
    BY <1>t, <1>2, <1>4 DEF AnalyzerTypeOK
  <2> QED
    BY <1>t, <1>3, <2>1, <2>2 DEF AnalyzerTypeOK
<1> QED
  BY <1>5, <1>6, <1>7, <1>8, <1>9, <1>10 DEF AnalyzerInv

LEMMA ReportSuccessStep ==
  ASSUME AnalyzerInv, NEW h \in Handlers, ReportSuccess(h)
  PROVE  AnalyzerInv'
<1>t. /\ AnalyzerTypeOK /\ ScoresOK /\ MapOK /\ HeldOK /\ ChoiceOK
      /\ TriedInRounds
  BY DEF AnalyzerInv
<1>1. /\ pc[h] = "advised" /\ pair[h] \in Pairs
      /\ ref' = [ref EXCEPT ![h] = records[K(pair[h])]]
      /\ pc' = [pc EXCEPT ![h] = IF records[K(pair[h])] = NoRecord
                                   THEN "reported" ELSE "crediting"]
      /\ UNCHANGED <<records, scores, aged, credited, pair, visits, choice>>
  BY <1>t DEF ReportSuccess, Key, K, recordVars, sessionVars, ChoiceOK
<1>2. records[K(pair[h])] \in Records \cup {NoRecord}
  BY <1>t, <1>1, PairFacts DEF AnalyzerTypeOK
<1>3. ScoresOK' /\ MapOK' /\ TriedInRounds'
  BY <1>t, <1>1 DEF ScoresOK, MapOK, TriedInRounds
<1>4. HeldOK'
  BY <1>t, <1>1, <1>2 DEF AnalyzerTypeOK, HeldOK, MapOK
<1>5. ChoiceOK'
  BY <1>t, <1>1 DEF AnalyzerTypeOK, ChoiceOK, Advised
<1>6. AnalyzerTypeOK'
  BY <1>t, <1>1, <1>2 DEF AnalyzerTypeOK
<1> QED
  BY <1>3, <1>4, <1>5, <1>6 DEF AnalyzerInv

LEMMA CreditStep ==
  ASSUME AnalyzerInv, NEW h \in Handlers, reportSuccess(h)
  PROVE  AnalyzerInv'
<1>t. /\ AnalyzerTypeOK /\ ScoresOK /\ MapOK /\ HeldOK /\ ChoiceOK
      /\ TriedInRounds
  BY DEF AnalyzerInv
<1> DEFINE r == ref[h]
<1>1. r \in Records /\ pc[h] = "crediting"
  BY <1>t DEF reportSuccess, HeldOK
<1>2. /\ aged' = [aged EXCEPT ![r] = FALSE]
      /\ credited' = [credited EXCEPT ![r] = TRUE]
      /\ pc' = [pc EXCEPT ![h] = "reported"]
      /\ ref' = [ref EXCEPT ![h] = NoRecord]
      /\ UNCHANGED <<records, pair, visits, choice>>
  BY DEF reportSuccess, sessionVars
<1>3. \/ \E i \in Indices(scores[r]) :
           WithScore(r, i, Reward(scores[r][i].Score))
      \/ UNCHANGED scores
  BY DEF reportSuccess
<1> HIDE DEF r
<1>4. /\ ScoresOK'
      /\ \A q \in Records :
           q # r =>
             /\ Indices(scores'[q]) = Indices(scores[q])
             /\ \A j \in Indices(scores[q]) :
                  scores'[q][j].Score = scores[q][j].Score
      /\ \A q \in Records : \A ms :
           Covers(scores[q], ms) => Covers(scores'[q], ms)
  <2>1. CASE UNCHANGED scores
    BY <1>t, <2>1 DEF ScoresOK
  <2>2. ASSUME NEW i \in Indices(scores[r]),
               WithScore(r, i, Reward(scores[r][i].Score))
        PROVE  <1>4!:
    <3> DEFINE n == Reward(scores[r][i].Score)
    <3>1. scores[r][i].Score \in Int
      BY <1>t, <1>1, ScoresTyped DEF Entry
    <3>2. n \in Int /\ n <= 10
      BY <3>1 DEF Reward
    <3>3. WithScore(r, i, n)
      BY <2>2
    <3> HIDE DEF n
    <3>4. ScoresOK
      BY <1>t
    <3> QED
      BY SMTT(30), <1>1, <3>2, <3>3, <3>4, Rescored
  <2> QED
    BY <1>3, <2>1, <2>2
<1>5. MapOK'
  BY <1>t, <1>2, <1>4, PairFacts DEF AnalyzerTypeOK, MapOK
<1>6. HeldOK'
  BY <1>t, <1>2, <1>4 DEF AnalyzerTypeOK, HeldOK
<1>7. ChoiceOK'
  BY <1>t, <1>1, <1>2 DEF AnalyzerTypeOK, ChoiceOK, Advised
<1>8. TriedInRounds'
  BY <1>t, <1>2, <1>4 DEF AnalyzerTypeOK, TriedInRounds
<1>9. AnalyzerTypeOK'
  <2>1. \A q \in Records :
          \A j \in Indices(scores'[q]) : scores'[q][j] \in Entry
    BY <1>4, ScoresTyped DEF ScoresOK, Indices
  <2> QED
    BY <1>t, <1>2, <2>1 DEF AnalyzerTypeOK
<1> QED
  BY <1>4, <1>5, <1>6, <1>7, <1>8, <1>9 DEF AnalyzerInv

LEMMA AnalyzerInitInv == Init => AnalyzerInv
<1> SUFFICES ASSUME Init PROVE AnalyzerInv
  OBVIOUS
<1>1. ScoresOK /\ \A r \in Records : Indices(scores[r]) = {}
  BY DEF Init, ScoresOK, Indices
<1>2. AnalyzerTypeOK
  BY <1>1, AnalyzerConstants
     DEF Init, AnalyzerTypeOK, Entry, NoEntry, Modes, AnalyzerConstants
<1>3. MapOK
  BY PairFacts DEF Init, MapOK
<1>4. HeldOK /\ ChoiceOK
  BY DEF Init, HeldOK, ChoiceOK, Advised
<1>5. TriedInRounds
  BY <1>1 DEF TriedInRounds
<1> QED
  BY <1>1, <1>2, <1>3, <1>4, <1>5 DEF AnalyzerInv

LEMMA AnalyzerInvStep ==
  ASSUME AnalyzerInv, [Next]_vars
  PROVE  AnalyzerInv'
<1>t. /\ AnalyzerTypeOK /\ ScoresOK /\ MapOK /\ HeldOK /\ ChoiceOK
      /\ TriedInRounds
  BY DEF AnalyzerInv
<1>y. AnalyzerTypeOK
  BY <1>t
<1>z. /\ records \in [Keys -> Records \cup {NoRecord}]
      /\ pc \in [Handlers ->
                 {"idle", "fetched", "advised", "crediting", "reported"}]
      /\ pair \in [Handlers -> Pairs \cup {NoPair}]
      /\ choice \in [Handlers -> Entry]
  BY Zenon, <1>y DEF AnalyzerTypeOK
<1>1. ASSUME NEW h \in Handlers, EndSession(h) PROVE AnalyzerInv'
  <2>1. ScoresOK' /\ MapOK' /\ TriedInRounds'
    BY <1>t, <1>1 DEF EndSession, recordVars, ScoresOK, MapOK, TriedInRounds
  <2>2. HeldOK' /\ ChoiceOK'
    BY <1>t, <1>1
       DEF EndSession, recordVars, AnalyzerTypeOK, HeldOK, ChoiceOK, Advised
  <2>3. NoEntry \in Entry
    BY DEF NoEntry, Entry, Modes
  <2>4. AnalyzerTypeOK'
    <3>1. /\ pc' = [pc EXCEPT ![h] = "idle"]
          /\ choice' = [choice EXCEPT ![h] = NoEntry]
          /\ pair' = [pair EXCEPT ![h] = NoPair]
          /\ UNCHANGED <<records, scores, aged, credited, visits, ref>>
      BY <1>1 DEF EndSession, recordVars
    <3>2. /\ pc' \in [Handlers ->
                      {"idle", "fetched", "advised", "crediting", "reported"}]
          /\ pair' \in [Handlers -> Pairs \cup {NoPair}]
          /\ choice' \in [Handlers -> Entry]
      BY <1>z, <2>3, <3>1
    <3> QED
      BY ZenonT(30), <1>y, <3>1, <3>2 DEF AnalyzerTypeOK
  <2> QED
    BY <2>1, <2>2, <2>4 DEF AnalyzerInv
<1>2. ASSUME NEW r \in Records, Age(r) PROVE AnalyzerInv'
  BY <1>t, <1>2
     DEF Age, sessionVars, AnalyzerInv, AnalyzerTypeOK, ScoresOK, MapOK,
         HeldOK, ChoiceOK, Advised, TriedInRounds
<1>3. CASE Clean
  <2>1. /\ records' = [k \in Keys |-> IF Old(k) THEN NoRecord ELSE records[k]]
        /\ UNCHANGED <<scores, aged, credited, pc, pair, visits, ref, choice>>
    BY <1>3 DEF Clean, sessionVars
  <2>2. MapOK'
    BY <1>t, <2>1, PairFacts DEF MapOK
  <2>3. ScoresOK' /\ HeldOK' /\ ChoiceOK' /\ TriedInRounds'
    BY <1>t, <2>1 DEF ScoresOK, HeldOK, ChoiceOK, Advised, TriedInRounds
  <2>4. AnalyzerTypeOK'
    <3>1. records' \in [Keys -> Records \cup {NoRecord}]
      BY <1>z, <2>1
    <3> QED
      BY ZenonT(30), <1>y, <2>1, <3>1 DEF AnalyzerTypeOK
  <2> QED
    BY <2>2, <2>3, <2>4 DEF AnalyzerInv
<1>4. CASE UNCHANGED vars
  BY <1>t, <1>4
     DEF vars, recordVars, sessionVars, AnalyzerInv, AnalyzerTypeOK, ScoresOK,
         MapOK, HeldOK, ChoiceOK, Advised, TriedInRounds
<1> QED
  BY <1>1, <1>2, <1>3, <1>4, FetchStep, RecommandStep, ReportSuccessStep,
     CreditStep
     DEF Next, Done

LEMMA AnalyzerInvariance == Spec => []AnalyzerInv
BY AnalyzerInitInv, AnalyzerInvStep, PTL DEF Spec

(***************************************************************************)
(* Scores never exceed 10 and a recommendation always is an entry of the   *)
(* behaviour tables, for any sessions, peers and reports.                  *)
(***************************************************************************)
THEOREM AnalyzerTypeCorrect == Spec => []AnalyzerTypeOK
<1>1. AnalyzerInv => AnalyzerTypeOK
  BY DEF AnalyzerInv
<1> QED
  BY <1>1, AnalyzerInvariance, PTL

(***************************************************************************)
(* As long as no success is reported for a record, its behaviours are      *)
(* recommended in rounds.                                                  *)
(***************************************************************************)
THEOREM RecommendedInRounds == Spec => []TriedInRounds
<1>1. AnalyzerInv => TriedInRounds
  BY Zenon DEF AnalyzerInv
<1> QED
  BY <1>1, AnalyzerInvariance, PTL

(***************************************************************************)
(* A reported success is credited to the entry it was recommended from,    *)
(* also if Clean has replaced the record in between.                       *)
(***************************************************************************)
THEOREM SuccessIsCredited == Spec => []CreditFindsEntry
<1>1. ASSUME AnalyzerInv, NEW h \in Handlers, pc[h] = "crediting"
      PROVE  \E i \in Indices(scores[ref[h]]) : Names(ref[h], i, h)
  <2>1. Covers(scores[ref[h]], Offer(pair[h]))
    BY <1>1 DEF AnalyzerInv, HeldOK
  <2>2. /\ choice[h].Mode \in Offer(pair[h])
        /\ choice[h].Index \in Indices(getBehaviorByMode(choice[h].Mode))
    BY <1>1 DEF AnalyzerInv, ChoiceOK, Advised
  <2> QED
    BY ZenonT(30), <2>1, <2>2 DEF Covers, Names
<1>2. AnalyzerInv => CreditFindsEntry
  BY <1>1 DEF CreditFindsEntry
<1> QED
  BY <1>2, AnalyzerInvariance, PTL

(***************************************************************************)
(* The roles suit the peers of the session, whichever session the record   *)
(* was created for: mode 1 lets a HardNAT send, mode 2 lets one receive,   *)
(* mode 4 lets a peer with regular ports send.                             *)
(***************************************************************************)
THEOREM RolesAlwaysFit == Spec => []RolesFit
<1>1. ASSUME AnalyzerInv, NEW h \in Handlers, Advised(h)
      PROVE  /\ choice[h].Mode = 1 => Hard(SenderFeature(h))
             /\ choice[h].Mode = 2 => Hard(ReceiverFeature(h))
             /\ choice[h].Mode = 4 => SenderFeature(h).RegularPortsChange
  <2> DEFINE c == C(pair[h])
             v == V(pair[h])
             m == choice[h].Mode
  <2>1. /\ m \in ModesFor(c, v)
        /\ choice[h].Index \in Indices(getBehaviorByMode(m))
        /\ m \in Modes
    BY <1>1, PairFacts DEF AnalyzerInv, ChoiceOK, Advised, Offer
  <2>2. m \in {1, 2, 4} =>
          getBehaviorByMode(m)[choice[h].Index] = "sender"
    BY <2>1, Tables
  <2>3. m \in {1, 2, 4} => (ClientSends(h) <=> ~Swapped(m, c))
    BY <2>2 DEF ClientSends, clientRole, Opposite, cNatFeature, C
  <2>4. /\ m \in {1, 2} => Hard(c) \/ Hard(v)
        /\ m = 4 => c.RegularPortsChange \/ v.RegularPortsChange
    BY <2>1 DEF ModesFor, hardCount, portsChangedRegularCount
  <2>5. /\ SenderFeature(h) = IF ClientSends(h) THEN c ELSE v
        /\ ReceiverFeature(h) = IF ClientSends(h) THEN v ELSE c
    BY DEF SenderFeature, ReceiverFeature, cNatFeature, vNatFeature, C, V
  <2> HIDE DEF c, v
  <2> QED
    BY SMTT(30), <2>3, <2>4, <2>5 DEF Swapped
<1>2. AnalyzerInv => RolesFit
  BY <1>1 DEF RolesFit
<1> QED
  BY <1>2, AnalyzerInvariance, PTL

=============================================================================
