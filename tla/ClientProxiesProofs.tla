------------------------ MODULE ClientProxiesProofs ------------------------
(***************************************************************************)
(* The safety of ClientProxies for any names, configurations, numbers of   *)
(* reloads and retries.  Everything rests on the order of the requests in  *)
(* one connection: a wrapper's CloseProxy is behind all its NewProxy       *)
(* messages, and before those of its successor.                            *)
(***************************************************************************)
EXTENDS ClientProxies, SequenceTheorems, TLAPS

\* The request is at a place of the queue.
Queued(n, i, m) == i \in 1..Len(up[n]) /\ up[n][i] = m

\* A wrapper not made yet is unknown to everybody.
FreshAt(n, g) ==
  /\ g > gen[n] <=> phase[<<n, g>>] = "none"
  /\ phase[<<n, g>>] = "none" => reg[n] # g /\ \A i \in Nat : ~Queued(n, i, NewProxy(g))

\* Whatever a stopped wrapper has asked for will be withdrawn.
StoppedAt(n, g) ==
  conn = "open" /\ phase[<<n, g>>] = "closed" =>
    /\ reg[n] = g => \E j \in Nat : Queued(n, j, CloseProxy)
    /\ \A i \in Nat : Queued(n, i, NewProxy(g)) =>
         \E j \in Nat : j > i /\ Queued(n, j, CloseProxy)

\* What a listed wrapper has asked for will not be.
ListedAt(n, g) ==
  phase[<<n, g>>] \notin {"none", "closed"} =>
    /\ reg[n] = g => \A j \in Nat : ~Queued(n, j, CloseProxy)
    /\ \A i, j \in Nat : Queued(n, i, NewProxy(g)) /\ j > i => ~Queued(n, j, CloseProxy)

\* A wrapper that has asked is registered or refused, or its request is on the
\* way.
AskedAt(n, g) ==
  conn = "open" /\ phase[<<n, g>>] \in {"wait start", "start error", "running"} =>
    \/ reg[n] = g
    \/ refused[<<n, g>>]
    \/ \E i \in Nat : Queued(n, i, NewProxy(g))

OrderAt(n, g) == FreshAt(n, g) /\ StoppedAt(n, g) /\ ListedAt(n, g) /\ AskedAt(n, g)

ClientInv == ClientTypeOK /\ \A n \in Names, g \in Gens : OrderAt(n, g)

-----------------------------------------------------------------------------
(* The queues.                                                             *)

LEMMA RequestFacts ==
  /\ CloseProxy \in Requests
  /\ \A g \in Gens : NewProxy(g) \in Requests /\ NewProxy(g) # CloseProxy
  /\ \A g, h \in Gens : NewProxy(g) = NewProxy(h) => g = h
  /\ \A m \in Requests : m.type = "new" => m.gen \in Gens /\ m = NewProxy(m.gen)
  /\ \A m \in Requests : m.type = "close" => m = CloseProxy
  BY DEF Requests, NewProxy, CloseProxy

\* A request is queued behind the others, if the connection is open.
LEMMA SentQueue ==
  ASSUME up \in [Names -> Seq(Requests)], NEW S \in SUBSET Names, NEW m \in Requests, Sent(S, m)
  PROVE  /\ up' \in [Names -> Seq(Requests)]
         /\ \A n \in Names, i \in Nat, r \in Requests :
              Queued(n, i, r)' <=>
                \/ Queued(n, i, r)
                \/ n \in S /\ conn = "open" /\ i = Len(up[n]) + 1 /\ r = m
<1>1. \A n \in Names : up'[n] = IF n \in S /\ conn = "open" THEN Append(up[n], m) ELSE up[n]
  BY DEF Sent
<1>2. \A n \in Names : /\ up[n] \in Seq(Requests) /\ Append(up[n], m) \in Seq(Requests)
                       /\ Len(Append(up[n], m)) = Len(up[n]) + 1
                       /\ \A i \in 1..Len(up[n]) : Append(up[n], m)[i] = up[n][i]
                       /\ Append(up[n], m)[Len(up[n]) + 1] = m
                       /\ Len(up[n]) \in Nat
  OBVIOUS
<1>3. up' \in [Names -> Seq(Requests)]
  BY <1>2 DEF Sent
<1>4. ASSUME NEW n \in Names, NEW i \in Nat, NEW r \in Requests
      PROVE  Queued(n, i, r)' <=>
                \/ Queued(n, i, r)
                \/ n \in S /\ conn = "open" /\ i = Len(up[n]) + 1 /\ r = m
  <2>1. CASE n \in S /\ conn = "open"
    <3>1. up'[n] = Append(up[n], m)
      BY <2>1, <1>1
    <3>2. i \in 1..(Len(up[n]) + 1) <=> i \in 1..Len(up[n]) \/ i = Len(up[n]) + 1
      BY <1>2
    <3> QED
      BY <2>1, <3>1, <3>2, <1>2 DEF Queued
  <2>2. CASE ~(n \in S /\ conn = "open")
    BY <2>2, <1>1 DEF Queued
  <2> QED
    BY <2>1, <2>2
<1> QED
  BY <1>3, <1>4

\* The server takes the first request; the others move up.
LEMMA TakenQueue ==
  ASSUME up \in [Names -> Seq(Requests)], NEW n \in Names, up[n] # <<>>,
         up' = [up EXCEPT ![n] = Tail(@)]
  PROVE  /\ up' \in [Names -> Seq(Requests)]
         /\ Head(up[n]) \in Requests
         /\ \A r \in Requests : Queued(n, 1, r) <=> r = Head(up[n])
         /\ \A i \in Nat, r \in Requests : Queued(n, i, r)' <=> i >= 1 /\ Queued(n, i + 1, r)
         /\ \A k \in Names, i \in Nat, r \in Requests :
              k # n => (Queued(k, i, r)' <=> Queued(k, i, r))
<1>1. /\ up[n] \in Seq(Requests) /\ Head(up[n]) \in Requests /\ Head(up[n]) = up[n][1]
      /\ Tail(up[n]) \in Seq(Requests) /\ Len(Tail(up[n])) = Len(up[n]) - 1
      /\ Len(up[n]) \in Nat /\ Len(up[n]) >= 1
      /\ \A i \in 1..(Len(up[n]) - 1) : Tail(up[n])[i] = up[n][i + 1]
  OBVIOUS
<1>2. up'[n] = Tail(up[n]) /\ \A k \in Names : k # n => up'[k] = up[k]
  OBVIOUS
<1>3. up' \in [Names -> Seq(Requests)]
  BY <1>1
<1>4. ASSUME NEW i \in Nat, NEW r \in Requests
      PROVE  Queued(n, i, r)' <=> i >= 1 /\ Queued(n, i + 1, r)
  <2>1. i \in 1..(Len(up[n]) - 1) <=> i >= 1 /\ i + 1 \in 1..Len(up[n])
    BY <1>1
  <2> QED
    BY <1>1, <1>2, <2>1 DEF Queued
<1>5. \A r \in Requests : Queued(n, 1, r) <=> r = Head(up[n])
  BY <1>1 DEF Queued
<1> QED
  BY <1>1, <1>2, <1>3, <1>4, <1>5 DEF Queued

-----------------------------------------------------------------------------
(* The manager stops the wrappers of S and makes new ones for A.           *)

LEMMA WrapperFacts ==
  /\ \A n \in Names, g \in Gens : <<n, g>> \in Wrappers
  /\ \A w \in Wrappers : w[1] \in Names /\ w[2] \in Gens /\ w = <<w[1], w[2]>>
  /\ None \notin Gens /\ \A g \in Gens : g \in Nat /\ g >= 1 /\ g <= MaxGen
  BY ClientBounds DEF ClientBounds, Wrappers, Gens, None

LEMMA StopStep ==
  ASSUME ClientInv, NEW S \in SUBSET Names, NEW A \in SUBSET Names,
         \A n \in S : proxies[n] # None,
         \A n \in A : gen[n] < MaxGen /\ (proxies[n] = None \/ n \in S),
         gen' = [n \in Names |-> IF n \in A THEN gen[n] + 1 ELSE gen[n]],
         proxies' = [n \in Names |-> IF n \in A THEN gen[n] + 1
                                     ELSE IF n \in S THEN None ELSE proxies[n]],
         \A n \in Names, g \in Gens : phase'[<<n, g>>] =
           IF n \in A /\ g = gen[n] + 1 THEN "new"
           ELSE IF n \in S /\ g = proxies[n] THEN "closed" ELSE phase[<<n, g>>],
         Sent(S, CloseProxy),
         UNCHANGED <<conn, reg, refused>>
  PROVE  /\ up' \in [Names -> Seq(Requests)]
         /\ gen' \in [Names -> Gens \cup {None}] /\ proxies' \in [Names -> Gens \cup {None}]
         /\ \A n \in Names, g \in Gens :
              phase'[<<n, g>>] \notin {"none", "closed"} <=> proxies'[n] = g
         /\ \A n \in Names, g \in Gens : OrderAt(n, g)'
<1> DEFINE Grown(n, i, r) ==
             n \in S /\ conn = "open" /\ i = Len(up[n]) + 1 /\ r = CloseProxy
<1>1. /\ up \in [Names -> Seq(Requests)]
      /\ \A n \in Names : Len(up[n]) \in Nat
  BY DEF ClientInv, ClientTypeOK
<1>2. /\ up' \in [Names -> Seq(Requests)]
      /\ \A n \in Names, i \in Nat, r \in Requests :
           Queued(n, i, r)' <=> Queued(n, i, r) \/ Grown(n, i, r)
  BY <1>1, SentQueue, RequestFacts
<1>3. /\ \A n \in Names : gen[n] \in Nat /\ proxies[n] \in Gens \cup {None}
      /\ \A n \in Names : gen'[n] = IF n \in A THEN gen[n] + 1 ELSE gen[n]
      /\ \A n \in Names : proxies'[n] = IF n \in A THEN gen[n] + 1
                                        ELSE IF n \in S THEN None ELSE proxies[n]
      /\ \A n \in Names, g \in Gens :
           /\ phase[<<n, g>>] \notin {"none", "closed"} <=> proxies[n] = g
           /\ phase[<<n, g>>] = "none" <=> g > gen[n]
  BY WrapperFacts DEF ClientInv, ClientTypeOK, OrderAt, FreshAt, None
<1>4. \A n \in A : gen[n] + 1 \in Gens
  BY <1>3, ClientBounds DEF Gens, ClientBounds
<1>5. gen' \in [Names -> Gens \cup {None}] /\ proxies' \in [Names -> Gens \cup {None}]
  BY <1>4 DEF ClientInv, ClientTypeOK
<1> SUFFICES ASSUME NEW n \in Names, NEW g \in Gens
             PROVE  /\ phase'[<<n, g>>] \notin {"none", "closed"} <=> proxies'[n] = g
                    /\ FreshAt(n, g)' /\ StoppedAt(n, g)' /\ ListedAt(n, g)' /\ AskedAt(n, g)'
  BY <1>2, <1>5 DEF OrderAt
<1>6. g \in Nat /\ g >= 1 /\ None # g /\ CloseProxy \in Requests
      /\ NewProxy(g) \in Requests /\ NewProxy(g) # CloseProxy
  BY WrapperFacts, RequestFacts
<1>7. \A i \in Nat : Queued(n, i, NewProxy(g))' <=> Queued(n, i, NewProxy(g))
  BY <1>2, <1>6
<1>8. \A i \in Nat : Queued(n, i, CloseProxy)' <=>
                       Queued(n, i, CloseProxy) \/ Grown(n, i, CloseProxy)
  BY <1>2, <1>6
<1>9. FreshAt(n, g) /\ StoppedAt(n, g) /\ ListedAt(n, g) /\ AskedAt(n, g)
  BY DEF ClientInv, OrderAt
<1>10. CASE n \in A /\ g = gen[n] + 1
  <2>1. phase'[<<n, g>>] = "new" /\ proxies'[n] = g /\ gen'[n] = g
    BY <1>10, <1>3
  <2>2. phase[<<n, g>>] = "none"
    BY <1>10, <1>3
  <2>3. reg[n] # g /\ \A i \in Nat : ~Queued(n, i, NewProxy(g))'
    BY <1>7, <1>9, <2>2 DEF FreshAt
  <2>4. FreshAt(n, g)'
    BY <1>6, <2>1 DEF FreshAt
  <2>5. StoppedAt(n, g)' /\ AskedAt(n, g)'
    BY <2>1 DEF StoppedAt, AskedAt
  <2>6. ListedAt(n, g)'
    BY <2>3 DEF ListedAt
  <2> QED
    BY <2>1, <2>4, <2>5, <2>6
<1>11. CASE ~(n \in A /\ g = gen[n] + 1) /\ n \in S /\ g = proxies[n]
  <2>1. phase'[<<n, g>>] = "closed"
    BY <1>11
  <2>2. g <= gen[n]
    <3>1. phase[<<n, g>>] # "none"
      BY <1>3, <1>11
    <3> QED
      BY <1>3, <1>6, <3>1
  <2>3. proxies'[n] # g /\ ~(g > gen'[n])
    BY <1>3, <1>6, <1>11, <2>2
  <2>4. FreshAt(n, g)' /\ ListedAt(n, g)' /\ AskedAt(n, g)'
    BY <2>1, <2>3 DEF FreshAt, ListedAt, AskedAt
  <2>5. StoppedAt(n, g)'
    <3>1. SUFFICES ASSUME conn = "open" PROVE StoppedAt(n, g)'
      BY DEF StoppedAt
    <3>2. PICK j \in Nat : j = Len(up[n]) + 1 /\ Queued(n, j, CloseProxy)'
      <4>1. PICK j \in Nat : j = Len(up[n]) + 1
        BY <1>1
      <4>2. Queued(n, j, CloseProxy)'
        BY <1>8, <1>11, <3>1, <4>1
      <4> QED
        BY <4>1, <4>2
    <3>3. \A i \in Nat : Queued(n, i, NewProxy(g)) => j > i
      BY <1>1, <3>2 DEF Queued
    <3> QED
      BY <1>7, <3>2, <3>3 DEF StoppedAt
  <2> QED
    BY <2>1, <2>3, <2>4, <2>5
<1>12. CASE ~(n \in A /\ g = gen[n] + 1) /\ ~(n \in S /\ g = proxies[n])
  <2>1. phase'[<<n, g>>] = phase[<<n, g>>]
    BY <1>12
  <2>2. g > gen'[n] <=> g > gen[n]
    BY <1>3, <1>6, <1>12
  <2>3. proxies'[n] = g <=> proxies[n] = g
    BY <1>3, <1>6, <1>12
  <2>4. FreshAt(n, g)'
    BY <1>7, <1>9, <2>1, <2>2 DEF FreshAt
  <2>5. StoppedAt(n, g)'
    BY <1>7, <1>8, <1>9, <2>1 DEF StoppedAt
  <2>6. ListedAt(n, g)'
    BY <1>3, <1>7, <1>8, <1>9, <1>12, <2>1 DEF ListedAt
  <2>7. AskedAt(n, g)'
    BY <1>7, <1>9, <2>1 DEF AskedAt
  <2> QED
    BY <1>3, <2>1, <2>3, <2>4, <2>5, <2>6, <2>7
<1> QED
  BY <1>10, <1>11, <1>12

LEMMA UpdateAllInv ==
  ASSUME ClientInv, NEW c \in [Names -> Cfgs \cup {NoCfg}], UpdateAll(c)
  PROVE  ClientInv'
<1> DEFINE removed == {n \in Names : proxies[n] # None /\ cfg[n] # c[n]}
           added == {n \in Names : c[n] # NoCfg /\ (proxies[n] = None \/ n \in removed)}
           fresh == {<<n, gen[n] + 1>> : n \in added}
<1>1. /\ \A n \in added : gen[n] < MaxGen
      /\ gen' = [n \in Names |-> IF n \in added THEN gen[n] + 1 ELSE gen[n]]
      /\ proxies' = [n \in Names |-> IF n \in added THEN gen[n] + 1
                                     ELSE IF n \in removed THEN None ELSE proxies[n]]
      /\ phase' = [w \in Wrappers |-> IF w \in fresh THEN "new" ELSE Stopped(removed)[w]]
      /\ cfg' = c
      /\ CloseEvent(removed)
      /\ UNCHANGED <<sends, sessionVars, down, reg, refused, workVars>>
  BY DEF UpdateAll
<1>2. \A n \in Names, g \in Gens : phase'[<<n, g>>] =
        IF n \in added /\ g = gen[n] + 1 THEN "new"
        ELSE IF n \in removed /\ g = proxies[n] THEN "closed" ELSE phase[<<n, g>>]
  <2> SUFFICES ASSUME NEW n \in Names, NEW g \in Gens
               PROVE  phase'[<<n, g>>] =
                        IF n \in added /\ g = gen[n] + 1 THEN "new"
                        ELSE IF n \in removed /\ g = proxies[n] THEN "closed" ELSE phase[<<n, g>>]
    OBVIOUS
  <2>1. <<n, g>> \in fresh <=> n \in added /\ g = gen[n] + 1
    OBVIOUS
  <2>2. <<n, g>> \in Listed(removed) <=> n \in removed /\ g = proxies[n]
    BY DEF Listed
  <2>3. <<n, g>> \in Wrappers
    BY WrapperFacts
  <2> HIDE DEF added, removed, fresh
  <2> QED
    BY <1>1, <2>1, <2>2, <2>3 DEF Stopped
<1>3. phase' \in [Wrappers -> Phases]
  <2> HIDE DEF added, removed, fresh
  <2>1. Stopped(removed) \in [Wrappers -> Phases]
    BY DEF Stopped, ClientInv, ClientTypeOK, Phases
  <2> QED
    BY <1>1, <2>1 DEF Phases
<1>4. {n \in removed : proxies[n] # None} = removed
  OBVIOUS
<1>5. /\ removed \in SUBSET Names /\ added \in SUBSET Names
      /\ \A n \in removed : proxies[n] # None
      /\ \A n \in added : gen[n] < MaxGen /\ (proxies[n] = None \/ n \in removed)
      /\ Sent(removed, CloseProxy)
  BY <1>1, <1>4 DEF CloseEvent
<1> HIDE DEF added, removed, fresh
<1>6. /\ up' \in [Names -> Seq(Requests)]
      /\ gen' \in [Names -> Gens \cup {None}] /\ proxies' \in [Names -> Gens \cup {None}]
      /\ \A n \in Names, g \in Gens :
           phase'[<<n, g>>] \notin {"none", "closed"} <=> proxies'[n] = g
      /\ \A n \in Names, g \in Gens : OrderAt(n, g)'
  <2>1. UNCHANGED <<conn, reg, refused>>
    BY <1>1 DEF sessionVars
  <2> QED
    BY <1>1, <1>2, <1>5, <2>1, StopStep
<1>7. ClientTypeOK'
  <2>1. \A w \in Wrappers : phase'[w] \notin {"none", "closed"} <=> proxies'[w[1]] = w[2]
    BY <1>6, WrapperFacts
  <2> QED
    BY <1>1, <1>3, <1>6, <2>1 DEF ClientInv, ClientTypeOK, sessionVars
<1> QED
  BY <1>6, <1>7 DEF ClientInv

LEMMA CloseManagerInv ==
  ASSUME ClientInv, CloseManager, UNCHANGED <<reading, conn>>,
         worker' \in {"run", "ended", "done"}, closing' \in BOOLEAN
  PROVE  ClientInv'
<1> DEFINE S == {n \in Names : proxies[n] # None}
<1>1. /\ proxies' = [n \in Names |-> None] /\ cfg' = [n \in Names |-> NoCfg]
      /\ phase' = Stopped(Names) /\ Sent(S, CloseProxy)
      /\ UNCHANGED <<gen, sends, down, reg, refused>>
  BY DEF CloseManager, CloseEvent
<1>2. ASSUME NEW n \in Names, NEW g \in Gens
      PROVE  phase'[<<n, g>>] = IF n \in S /\ g = proxies[n] THEN "closed" ELSE phase[<<n, g>>]
  BY <1>1, WrapperFacts DEF Stopped, Listed
<1>3. phase' \in [Wrappers -> Phases]
  BY <1>1 DEF Stopped, ClientInv, ClientTypeOK, Phases
<1>4. /\ up' \in [Names -> Seq(Requests)]
      /\ \A n \in Names, g \in Gens :
           phase'[<<n, g>>] \notin {"none", "closed"} <=> proxies'[n] = g
      /\ \A n \in Names, g \in Gens : OrderAt(n, g)'
  <2> DEFINE A == {}
  <2>1. gen' = [n \in Names |-> IF n \in A THEN gen[n] + 1 ELSE gen[n]]
    BY <1>1 DEF ClientInv, ClientTypeOK
  <2>2. proxies' = [n \in Names |-> IF n \in A THEN gen[n] + 1
                                    ELSE IF n \in S THEN None ELSE proxies[n]]
    BY <1>1
  <2>3. \A n \in Names, g \in Gens : phase'[<<n, g>>] =
          IF n \in A /\ g = gen[n] + 1 THEN "new"
          ELSE IF n \in S /\ g = proxies[n] THEN "closed" ELSE phase[<<n, g>>]
    BY <1>2
  <2>4. /\ S \in SUBSET Names /\ \A n \in S : proxies[n] # None
        /\ A \in SUBSET Names /\ \A n \in A : gen[n] < MaxGen /\ (proxies[n] = None \/ n \in S)
    OBVIOUS
  <2>5. UNCHANGED <<conn, reg, refused>>
    BY <1>1
  <2> HIDE DEF S, A
  <2> QED
    BY <1>1, <2>1, <2>2, <2>3, <2>4, <2>5, StopStep
<1>5. ClientTypeOK'
  <2>1. \A w \in Wrappers : phase'[w] \notin {"none", "closed"} <=> proxies'[w[1]] = w[2]
    BY <1>4, WrapperFacts
  <2> QED
    BY <1>1, <1>3, <1>4, <2>1 DEF ClientInv, ClientTypeOK
<1> QED
  BY <1>4, <1>5 DEF ClientInv

-----------------------------------------------------------------------------
(* The other steps.                                                        *)

\* Steps that leave the requests and the server's table alone.
LEMMA KeptOrder ==
  ASSUME ClientInv, NEW n \in Names, NEW g \in Gens,
         UNCHANGED <<gen, up, reg, refused>>,
         conn' = conn \/ conn' = "closed",
         \/ phase'[<<n, g>>] = phase[<<n, g>>]
         \/ phase[<<n, g>>] = "wait start" /\ phase'[<<n, g>>] \in {"running", "start error"}
  PROVE  OrderAt(n, g)'
<1>1. \A i \in Nat, r \in Requests : Queued(n, i, r)' <=> Queued(n, i, r)
  BY DEF Queued
<1>2. NewProxy(g) \in Requests /\ CloseProxy \in Requests
  BY RequestFacts
<1>3. FreshAt(n, g) /\ StoppedAt(n, g) /\ ListedAt(n, g) /\ AskedAt(n, g)
  BY DEF ClientInv, OrderAt
<1>4. FreshAt(n, g)' /\ AskedAt(n, g)'
  BY <1>1, <1>2, <1>3 DEF FreshAt, AskedAt
<1>5. StoppedAt(n, g)' /\ ListedAt(n, g)'
  BY <1>1, <1>2, <1>3 DEF StoppedAt, ListedAt
<1> QED
  BY <1>4, <1>5 DEF OrderAt

LEMMA SetRunningStatusInv == ASSUME ClientInv, SetRunningStatus PROVE ClientInv'
<1>1. PICK w \in Wrappers, ok \in BOOLEAN : reading = <<w, ok>>
  <2>1. reading \in Wrappers \X BOOLEAN
    BY DEF SetRunningStatus, ClientInv, ClientTypeOK
  <2> HIDE DEF Wrappers
  <2> QED
    BY <2>1
<1>2. /\ phase' = [phase EXCEPT ![w] = IF phase[w] # "wait start" THEN phase[w]
                                      ELSE IF ok THEN "running" ELSE "start error"]
      /\ reading' = <<>>
      /\ UNCHANGED <<proxies, gen, cfg, sends, conn, worker, closing, netVars>>
  BY <1>1 DEF SetRunningStatus
<1>3. \A v \in Wrappers :
        \/ phase'[v] = phase[v]
        \/ phase[v] = "wait start" /\ phase'[v] \in {"running", "start error"}
  BY <1>2 DEF ClientInv, ClientTypeOK
<1>4. phase' \in [Wrappers -> Phases]
  BY <1>2 DEF ClientInv, ClientTypeOK, Phases
<1>5. ClientTypeOK'
  BY <1>2, <1>3, <1>4 DEF ClientInv, ClientTypeOK, netVars
<1>6. \A n \in Names, g \in Gens : OrderAt(n, g)'
  BY <1>2, <1>3, KeptOrder, WrapperFacts DEF netVars
<1> QED
  BY <1>5, <1>6 DEF ClientInv

LEMMA SessionStepInv ==
  ASSUME ClientInv,
         \/ \E n \in Names : StartProxy(n)
         \/ LoseConn
         \/ DispatcherDone
         \/ \E k \in WorkConns :
              \/ HandleReqWorkConn(k) \/ GetWorkConnFromPool(k) \/ ReadNatHoleSid(k)
              \/ HandlerStep(k) \/ GiveUp(k) \/ TunnelEnds(k)
  PROVE  ClientInv'
<1>1. /\ UNCHANGED <<wrapperVars, up, reg, refused, closing>>
      /\ conn' = conn \/ conn' = "closed"
      /\ worker' = worker \/ worker' = "ended"
      /\ reading' \in {<<>>} \cup (Wrappers \X BOOLEAN)
      /\ down' \in [Names -> Seq(BOOLEAN)]
  <2>1. CASE \E n \in Names : StartProxy(n)
    <3>1. PICK n \in Names : StartProxy(n)
      BY <2>1
    <3>2. Head(down[n]) \in BOOLEAN /\ Tail(down[n]) \in Seq(BOOLEAN)
      BY <3>1 DEF StartProxy, ClientInv, ClientTypeOK
    <3>3. down' \in [Names -> Seq(BOOLEAN)]
      BY <3>1, <3>2 DEF StartProxy, ClientInv, ClientTypeOK
    <3>4. reading' \in {<<>>} \cup (Wrappers \X BOOLEAN)
      BY <3>1, <3>2, WrapperFacts DEF StartProxy, ClientInv, ClientTypeOK
    <3> QED
      BY <3>1, <3>3, <3>4 DEF StartProxy
  <2>2. CASE LoseConn
    BY <2>2 DEF LoseConn, netVars, ClientInv, ClientTypeOK
  <2>3. CASE DispatcherDone
    BY <2>3 DEF DispatcherDone, ClientInv, ClientTypeOK
  <2>4. CASE \E k \in WorkConns :
               \/ HandleReqWorkConn(k) \/ GetWorkConnFromPool(k) \/ ReadNatHoleSid(k)
               \/ HandlerStep(k) \/ GiveUp(k) \/ TunnelEnds(k)
    <3>1. UNCHANGED <<wrapperVars, sessionVars, netVars>>
      BY <2>4 DEF HandleReqWorkConn, GetWorkConnFromPool, ReadNatHoleSid, HandlerStep,
         HandleWorkConn, InWorkConn, Prepare, ExchangeInfo, MakeHole, GiveUp, TunnelEnds, AtWork
    <3> QED
      BY <3>1 DEF sessionVars, netVars, ClientInv, ClientTypeOK
  <2> QED
    BY <2>1, <2>2, <2>3, <2>4
<1>2. ClientTypeOK'
  BY <1>1 DEF ClientInv, ClientTypeOK, wrapperVars
<1>3. \A n \in Names, g \in Gens : OrderAt(n, g)'
  BY <1>1, KeptOrder DEF wrapperVars
<1> QED
  BY <1>2, <1>3 DEF ClientInv

\* A request of a listed wrapper goes behind everything it has asked before.
LEMMA CheckWorkerInv == ASSUME ClientInv, NEW w \in Wrappers, CheckWorker(w) PROVE ClientInv'
<1>1. PICK n \in Names, g \in Gens : w = <<n, g>> /\ w[1] = n /\ w[2] = g
  BY WrapperFacts
<1>2. /\ phase[<<n, g>>] \in {"new", "wait start", "start error"} /\ sends[w] < MaxSend
      /\ sends' = [sends EXCEPT ![w] = sends[w] + 1]
      /\ phase' = [phase EXCEPT ![w] = "wait start"]
      /\ Sent({n}, NewProxy(g))
      /\ UNCHANGED <<proxies, gen, cfg, sessionVars, down, reg, refused>>
  BY <1>1 DEF CheckWorker
<1>3. /\ up \in [Names -> Seq(Requests)] /\ \A k \in Names : Len(up[k]) \in Nat
      /\ {n} \in SUBSET Names /\ NewProxy(g) \in Requests
  BY RequestFacts DEF ClientInv, ClientTypeOK
<1>4. /\ up' \in [Names -> Seq(Requests)]
      /\ \A k \in Names, i \in Nat, r \in Requests :
           Queued(k, i, r)' <=>
             \/ Queued(k, i, r)
             \/ k = n /\ conn = "open" /\ i = Len(up[k]) + 1 /\ r = NewProxy(g)
  <2> DEFINE S == {n}
  <2>1. S \in SUBSET Names /\ Sent(S, NewProxy(g)) /\ \A k : k \in S <=> k = n
    BY <1>2
  <2> HIDE DEF S
  <2>2. /\ up' \in [Names -> Seq(Requests)]
        /\ \A k \in Names, i \in Nat, r \in Requests :
             Queued(k, i, r)' <=>
               \/ Queued(k, i, r)
               \/ k \in S /\ conn = "open" /\ i = Len(up[k]) + 1 /\ r = NewProxy(g)
    BY <2>1, <1>3, SentQueue
  <2> QED
    BY <2>1, <2>2
<1>5. ClientTypeOK'
  <2>1. phase' \in [Wrappers -> Phases]
    BY <1>2 DEF ClientInv, ClientTypeOK, Phases
  <2>2. sends' \in [Wrappers -> 0..MaxSend]
    <3>1. sends[w] + 1 \in 0..MaxSend
      <4>1. sends[w] \in 0..MaxSend
        BY DEF ClientInv, ClientTypeOK
      <4>2. sends[w] < MaxSend /\ MaxSend \in Nat
        BY <1>2, ClientBounds DEF ClientBounds
      <4> QED
        BY <4>1, <4>2
    <3> QED
      BY <1>2, <3>1 DEF ClientInv, ClientTypeOK
  <2>3. \A v \in Wrappers :
          phase'[v] \notin {"none", "closed"} <=> phase[v] \notin {"none", "closed"}
    BY <1>1, <1>2 DEF ClientInv, ClientTypeOK
  <2> QED
    BY <1>2, <1>4, <2>1, <2>2, <2>3 DEF ClientInv, ClientTypeOK, sessionVars
<1>6. ASSUME NEW k \in Names, NEW h \in Gens
      PROVE  OrderAt(k, h)'
  <2>1. FreshAt(k, h) /\ StoppedAt(k, h) /\ ListedAt(k, h) /\ AskedAt(k, h)
    BY DEF ClientInv, OrderAt
  <2>2. /\ NewProxy(h) \in Requests /\ CloseProxy \in Requests /\ NewProxy(h) # CloseProxy
        /\ NewProxy(g) # CloseProxy /\ (NewProxy(h) = NewProxy(g) => h = g)
        /\ <<k, h>> \in Wrappers
    BY RequestFacts, WrapperFacts
  <2>3. \A i \in Nat : Queued(k, i, CloseProxy)' <=> Queued(k, i, CloseProxy)
    BY <1>4, <2>2
  <2>4. UNCHANGED <<gen, reg, refused, conn>>
    BY <1>2 DEF sessionVars
  <2>5. CASE k = n /\ h = g
    <3>1. phase'[<<k, h>>] = "wait start" /\ phase[<<k, h>>] \notin {"none", "closed"}
      BY <1>1, <1>2, <2>2, <2>5 DEF ClientInv, ClientTypeOK
    <3>2. \A i \in Nat : Queued(k, i, NewProxy(h))' <=>
                           Queued(k, i, NewProxy(h)) \/ (conn = "open" /\ i = Len(up[k]) + 1)
      BY <1>4, <2>2, <2>5
    <3>3. FreshAt(k, h)' /\ StoppedAt(k, h)'
      BY <2>1, <2>4, <3>1 DEF FreshAt, StoppedAt
    <3>4. \A j \in Nat : Queued(k, j, CloseProxy) => j <= Len(up[k])
      BY <1>3 DEF Queued
    <3>5. ListedAt(k, h)'
      <4>1. ASSUME NEW i \in Nat, NEW j \in Nat, Queued(k, i, NewProxy(h))', j > i
            PROVE  ~Queued(k, j, CloseProxy)'
        <5>1. CASE Queued(k, i, NewProxy(h))
          BY <2>1, <2>3, <3>1, <4>1, <5>1 DEF ListedAt
        <5>2. CASE i = Len(up[k]) + 1
          BY <1>3, <2>3, <3>4, <4>1, <5>2
        <5> QED
          BY <3>2, <4>1, <5>1, <5>2
      <4>2. reg'[k] = h => \A j \in Nat : ~Queued(k, j, CloseProxy)'
        BY <2>1, <2>3, <2>4, <3>1 DEF ListedAt
      <4> QED
        BY <4>1, <4>2 DEF ListedAt
    <3>6. AskedAt(k, h)'
      <4>1. PICK e \in Nat : e = Len(up[k]) + 1
        BY <1>3
      <4>2. conn = "open" => Queued(k, e, NewProxy(h))'
        BY <3>2, <4>1
      <4> QED
        BY <2>4, <4>2 DEF AskedAt
    <3> QED
      BY <3>3, <3>5, <3>6 DEF OrderAt
  <2>6. CASE ~(k = n /\ h = g)
    <3>1. phase'[<<k, h>>] = phase[<<k, h>>]
      BY <1>1, <1>2, <2>2, <2>6 DEF ClientInv, ClientTypeOK
    <3>2. \A i \in Nat : Queued(k, i, NewProxy(h))' <=> Queued(k, i, NewProxy(h))
      BY <1>4, <2>2, <2>6
    <3>3. FreshAt(k, h)' /\ AskedAt(k, h)'
      BY <2>1, <2>4, <3>1, <3>2 DEF FreshAt, AskedAt
    <3>4. StoppedAt(k, h)' /\ ListedAt(k, h)'
      BY <2>1, <2>3, <2>4, <3>1, <3>2 DEF StoppedAt, ListedAt
    <3> QED
      BY <3>3, <3>4 DEF OrderAt
  <2> QED
    BY <2>5, <2>6
<1> QED
  BY <1>5, <1>6 DEF ClientInv

\* The server answers the first request of a name.
LEMMA HandleNewProxyInv ==
  ASSUME ClientInv, NEW n \in Names, HandleNewProxy(n)
  PROVE  ClientInv'
<1> DEFINE g == Head(up[n]).gen
<1>1. PICK ok \in BOOLEAN :
        /\ up[n] # <<>> /\ Head(up[n]).type = "new" /\ up' = [up EXCEPT ![n] = Tail(@)]
        /\ ok => reg[n] = None
        /\ reg' = IF ok THEN [reg EXCEPT ![n] = g] ELSE reg
        /\ refused' = [refused EXCEPT ![<<n, g>>] = ~ok]
        /\ down' = IF conn = "open" THEN [down EXCEPT ![n] = Append(@, ok)] ELSE down
        /\ UNCHANGED <<wrapperVars, sessionVars>>
  BY DEF HandleNewProxy
<1>2. up \in [Names -> Seq(Requests)]
  BY DEF ClientInv, ClientTypeOK
<1>3. /\ up' \in [Names -> Seq(Requests)]
      /\ Head(up[n]) \in Requests
      /\ \A r \in Requests : Queued(n, 1, r) <=> r = Head(up[n])
      /\ \A i \in Nat, r \in Requests : Queued(n, i, r)' <=> i >= 1 /\ Queued(n, i + 1, r)
      /\ \A k \in Names, i \in Nat, r \in Requests :
           k # n => (Queued(k, i, r)' <=> Queued(k, i, r))
  BY <1>1, <1>2, TakenQueue
<1>4. g \in Gens /\ Head(up[n]) = NewProxy(g)
  BY <1>1, <1>3, RequestFacts
<1> HIDE DEF g
<1>5. ClientTypeOK'
  <2>1. reg' \in [Names -> Gens \cup {None}]
    BY <1>1, <1>4 DEF ClientInv, ClientTypeOK
  <2>2. refused' \in [Wrappers -> BOOLEAN]
    BY <1>1 DEF ClientInv, ClientTypeOK
  <2>3. down' \in [Names -> Seq(BOOLEAN)]
    BY <1>1 DEF ClientInv, ClientTypeOK
  <2> QED
    BY <1>1, <1>3, <2>1, <2>2, <2>3 DEF ClientInv, ClientTypeOK, wrapperVars, sessionVars
<1>6. ASSUME NEW k \in Names, NEW h \in Gens
      PROVE  OrderAt(k, h)'
  <2>1. FreshAt(k, h) /\ StoppedAt(k, h) /\ ListedAt(k, h) /\ AskedAt(k, h)
    BY DEF ClientInv, OrderAt
  <2>2. /\ NewProxy(h) \in Requests /\ CloseProxy \in Requests /\ NewProxy(h) # CloseProxy
        /\ NewProxy(g) \in Requests /\ NewProxy(g) # CloseProxy /\ None # h
        /\ (NewProxy(h) = NewProxy(g) => h = g)
        /\ <<k, h>> \in Wrappers /\ <<n, g>> \in Wrappers
    BY <1>4, RequestFacts, WrapperFacts
  <2>3. UNCHANGED <<gen, phase, conn>>
    BY <1>1 DEF wrapperVars, sessionVars
  <2>4. CASE k # n
    <3>1. reg'[k] = reg[k] /\ refused'[<<k, h>>] = refused[<<k, h>>]
      BY <1>1, <2>2, <2>4 DEF ClientInv, ClientTypeOK
    <3>2. \A i \in Nat : /\ Queued(k, i, NewProxy(h))' <=> Queued(k, i, NewProxy(h))
                         /\ Queued(k, i, CloseProxy)' <=> Queued(k, i, CloseProxy)
      BY <1>3, <2>2, <2>4
    <3>3. FreshAt(k, h)' /\ AskedAt(k, h)'
      BY <2>1, <2>3, <3>1, <3>2 DEF FreshAt, AskedAt
    <3>4. StoppedAt(k, h)' /\ ListedAt(k, h)'
      BY <2>1, <2>3, <3>1, <3>2 DEF StoppedAt, ListedAt
    <3> QED
      BY <3>3, <3>4 DEF OrderAt
  <2>5. CASE k = n
    <3>1. \A i \in Nat : /\ Queued(n, i, NewProxy(h))' <=> i >= 1 /\ Queued(n, i + 1, NewProxy(h))
                         /\ Queued(n, i, CloseProxy)' <=> i >= 1 /\ Queued(n, i + 1, CloseProxy)
      BY <1>3, <2>2
    <3>2. /\ ~Queued(n, 1, CloseProxy) /\ (Queued(n, 1, NewProxy(h)) <=> h = g)
          /\ \A i \in Nat, r \in Requests : Queued(n, i, r) => i >= 1
      <4>1. ~Queued(n, 1, CloseProxy)
        BY <1>3, <1>4, <2>2
      <4>2. Queued(n, 1, NewProxy(h)) <=> h = g
        BY <1>3, <1>4, <2>2
      <4>3. \A i \in Nat, r \in Requests : Queued(n, i, r) => i >= 1
        BY DEF Queued
      <4> QED
        BY <4>1, <4>2, <4>3
    <3>3. \A i \in Nat : i > 1 => i - 1 \in Nat /\ i - 1 >= 1 /\ (i - 1) + 1 = i
      OBVIOUS
    <3>4. /\ \A i \in Nat : i > 1 /\ Queued(n, i, CloseProxy) => Queued(n, i - 1, CloseProxy)'
          /\ \A i \in Nat : i > 1 /\ Queued(n, i, NewProxy(h)) => Queued(n, i - 1, NewProxy(h))'
      BY <3>1, <3>3
    <3>5. /\ reg'[n] = IF ok THEN g ELSE reg[n]
          /\ refused'[<<n, g>>] = ~ok
          /\ h # g => refused'[<<n, h>>] = refused[<<n, h>>]
      BY <1>1, <2>2, <2>5 DEF ClientInv, ClientTypeOK
    <3>6. FreshAt(n, h)'
      <4>1. phase[<<n, h>>] = "none" => h # g /\ reg[n] # h
        BY <2>1, <2>5, <3>2 DEF FreshAt
      <4>2. phase[<<n, h>>] = "none" => \A i \in Nat : ~Queued(n, i, NewProxy(h))'
        BY <2>1, <2>5, <3>1 DEF FreshAt
      <4>3. h > gen[n] <=> phase[<<n, h>>] = "none"
        BY <2>1, <2>5 DEF FreshAt
      <4> QED
        BY <2>3, <3>5, <4>1, <4>2, <4>3 DEF FreshAt
    <3>7. ASSUME conn = "open", phase[<<n, h>>] = "closed" PROVE StoppedAt(n, h)'
      <4>1. reg'[n] = h => \E j \in Nat : Queued(n, j, CloseProxy) /\ j > 1
        <5>1. /\ reg[n] = h => \E j \in Nat : Queued(n, j, CloseProxy)
              /\ h = g => \E j \in Nat : j > 1 /\ Queued(n, j, CloseProxy)
          BY <2>1, <2>5, <3>2, <3>7 DEF StoppedAt
        <5>2. \A j \in Nat : Queued(n, j, CloseProxy) => j > 1
          <6>1. \A j \in Nat : Queued(n, j, CloseProxy) => j >= 1 /\ j # 1
            BY <2>2, <3>2
          <6> QED
            BY <6>1
        <5>3. reg'[n] = h => reg[n] = h \/ h = g
          BY <3>5
        <5> QED
          BY <5>1, <5>2, <5>3
      <4>2. reg'[n] = h => \E j \in Nat : Queued(n, j, CloseProxy)'
        BY <3>3, <3>4, <4>1
      <4>3. ASSUME NEW i \in Nat, Queued(n, i, NewProxy(h))'
            PROVE  \E j \in Nat : j > i /\ Queued(n, j, CloseProxy)'
        <5>1. PICK j \in Nat : j > i + 1 /\ Queued(n, j, CloseProxy)
          BY <2>1, <2>5, <3>1, <3>7, <4>3 DEF StoppedAt
        <5> QED
          BY <3>3, <3>4, <5>1
      <4> QED
        BY <4>2, <4>3 DEF StoppedAt
    <3>8. StoppedAt(n, h)'
      <4>1. CASE ~(conn = "open" /\ phase[<<n, h>>] = "closed")
        BY <2>3, <4>1 DEF StoppedAt
      <4> QED
        BY <3>7, <4>1
    <3>9. ListedAt(n, h)'
      <4>1. SUFFICES ASSUME phase[<<n, h>>] \notin {"none", "closed"} PROVE ListedAt(n, h)'
        BY <2>3 DEF ListedAt
      <4>2. /\ reg[n] = h => \A j \in Nat : ~Queued(n, j, CloseProxy)
            /\ \A i, j \in Nat : Queued(n, i, NewProxy(h)) /\ j > i => ~Queued(n, j, CloseProxy)
        BY <2>1, <2>5, <4>1 DEF ListedAt
      <4>3. reg'[n] = h => \A j \in Nat : ~Queued(n, j, CloseProxy)'
        <5>1. reg'[n] = h => reg[n] = h \/ Queued(n, 1, NewProxy(h))
          BY <3>2, <3>5
        <5>2. ASSUME NEW j \in Nat, Queued(n, j, CloseProxy)'
              PROVE  j + 1 \in Nat /\ j + 1 > 1 /\ Queued(n, j + 1, CloseProxy)
          BY <3>1, <5>2
        <5> QED
          BY <4>2, <5>1, <5>2
      <4>4. \A i, j \in Nat : Queued(n, i, NewProxy(h))' /\ j > i => ~Queued(n, j, CloseProxy)'
        BY <3>1, <4>2
      <4> QED
        BY <4>3, <4>4 DEF ListedAt
    <3>10. AskedAt(n, h)'
      <4>1. CASE h = g
        BY <2>3, <3>5, <4>1 DEF AskedAt
      <4>2. CASE h # g
        <5>1. reg[n] = h => reg'[n] = h
          BY <1>1, <2>2, <3>5
        <5>2. \A i \in Nat : Queued(n, i, NewProxy(h)) => i > 1
          BY <3>2, <4>2, <2>2
        <5> QED
          BY <2>1, <2>3, <2>5, <3>3, <3>4, <3>5, <4>2, <5>1, <5>2 DEF AskedAt
      <4> QED
        BY <4>1, <4>2
    <3> QED
      BY <2>5, <3>6, <3>8, <3>9, <3>10 DEF OrderAt
  <2> QED
    BY <2>4, <2>5
<1> QED
  BY <1>5, <1>6 DEF ClientInv

LEMMA HandleCloseProxyInv ==
  ASSUME ClientInv, NEW n \in Names, HandleCloseProxy(n)
  PROVE  ClientInv'
<1>1. /\ up[n] # <<>> /\ Head(up[n]).type = "close" /\ up' = [up EXCEPT ![n] = Tail(@)]
      /\ reg' = [reg EXCEPT ![n] = None]
      /\ UNCHANGED <<wrapperVars, sessionVars, down, refused>>
  BY DEF HandleCloseProxy
<1>2. up \in [Names -> Seq(Requests)]
  BY DEF ClientInv, ClientTypeOK
<1>3. /\ up' \in [Names -> Seq(Requests)]
      /\ Head(up[n]) \in Requests
      /\ \A r \in Requests : Queued(n, 1, r) <=> r = Head(up[n])
      /\ \A i \in Nat, r \in Requests : Queued(n, i, r)' <=> i >= 1 /\ Queued(n, i + 1, r)
      /\ \A k \in Names, i \in Nat, r \in Requests :
           k # n => (Queued(k, i, r)' <=> Queued(k, i, r))
  BY <1>1, <1>2, TakenQueue
<1>4. Head(up[n]) = CloseProxy
  BY <1>1, <1>3, RequestFacts
<1>5. ClientTypeOK'
  <2>1. reg' \in [Names -> Gens \cup {None}]
    BY <1>1 DEF ClientInv, ClientTypeOK
  <2> QED
    BY <1>1, <1>3, <2>1 DEF ClientInv, ClientTypeOK, wrapperVars, sessionVars
<1>6. ASSUME NEW k \in Names, NEW h \in Gens
      PROVE  OrderAt(k, h)'
  <2>1. FreshAt(k, h) /\ StoppedAt(k, h) /\ ListedAt(k, h) /\ AskedAt(k, h)
    BY DEF ClientInv, OrderAt
  <2>2. /\ NewProxy(h) \in Requests /\ CloseProxy \in Requests /\ NewProxy(h) # CloseProxy
        /\ None # h
    BY RequestFacts, WrapperFacts
  <2>3. UNCHANGED <<gen, phase, conn, refused>>
    BY <1>1 DEF wrapperVars, sessionVars
  <2>4. CASE k # n
    <3>1. reg'[k] = reg[k]
      BY <1>1, <2>4 DEF ClientInv, ClientTypeOK
    <3>2. \A i \in Nat : /\ Queued(k, i, NewProxy(h))' <=> Queued(k, i, NewProxy(h))
                         /\ Queued(k, i, CloseProxy)' <=> Queued(k, i, CloseProxy)
      BY <1>3, <2>2, <2>4
    <3>3. FreshAt(k, h)' /\ AskedAt(k, h)'
      BY <2>1, <2>3, <3>1, <3>2 DEF FreshAt, AskedAt
    <3>4. StoppedAt(k, h)' /\ ListedAt(k, h)'
      BY <2>1, <2>3, <3>1, <3>2 DEF StoppedAt, ListedAt
    <3> QED
      BY <3>3, <3>4 DEF OrderAt
  <2>5. CASE k = n
    <3>1. \A i \in Nat : /\ Queued(n, i, NewProxy(h))' <=> i >= 1 /\ Queued(n, i + 1, NewProxy(h))
                         /\ Queued(n, i, CloseProxy)' <=> i >= 1 /\ Queued(n, i + 1, CloseProxy)
      BY <1>3, <2>2
    <3>2. /\ Queued(n, 1, CloseProxy) /\ ~Queued(n, 1, NewProxy(h))
          /\ \A i \in Nat, r \in Requests : Queued(n, i, r) => i >= 1
      <4>1. Queued(n, 1, CloseProxy) /\ ~Queued(n, 1, NewProxy(h))
        BY <1>3, <1>4, <2>2
      <4>2. \A i \in Nat, r \in Requests : Queued(n, i, r) => i >= 1
        BY DEF Queued
      <4> QED
        BY <4>1, <4>2
    <3>3. \A i \in Nat : i > 1 => i - 1 \in Nat /\ i - 1 >= 1 /\ (i - 1) + 1 = i
      OBVIOUS
    <3>4. /\ \A i \in Nat : i > 1 /\ Queued(n, i, CloseProxy) => Queued(n, i - 1, CloseProxy)'
          /\ \A i \in Nat : i > 1 /\ Queued(n, i, NewProxy(h)) => Queued(n, i - 1, NewProxy(h))'
      BY <3>1, <3>3
    <3>5. reg'[n] = None
      BY <1>1 DEF ClientInv, ClientTypeOK
    <3>6. FreshAt(n, h)'
      BY <2>1, <2>2, <2>3, <2>5, <3>1, <3>5 DEF FreshAt
    <3>7. StoppedAt(n, h)'
      <4>1. ASSUME conn = "open", phase[<<n, h>>] = "closed",
                   NEW i \in Nat, Queued(n, i, NewProxy(h))'
            PROVE  \E j \in Nat : j > i /\ Queued(n, j, CloseProxy)'
        <5>1. PICK j \in Nat : j > i + 1 /\ Queued(n, j, CloseProxy)
          BY <2>1, <2>5, <3>1, <4>1 DEF StoppedAt
        <5> QED
          BY <3>3, <3>4, <5>1
      <4> QED
        BY <2>2, <2>3, <3>5, <4>1 DEF StoppedAt
    <3>8. ListedAt(n, h)'
      <4>1. ASSUME phase[<<n, h>>] \notin {"none", "closed"},
                   NEW i \in Nat, NEW j \in Nat, Queued(n, i, NewProxy(h))', j > i
            PROVE  ~Queued(n, j, CloseProxy)'
        <5>1. Queued(n, i + 1, NewProxy(h)) /\ i + 1 \in Nat /\ j + 1 \in Nat /\ j + 1 > i + 1
          <6>1. Queued(n, i + 1, NewProxy(h))
            BY <3>1, <4>1
          <6>2. i + 1 \in Nat /\ j + 1 \in Nat /\ j + 1 > i + 1
            BY <4>1
          <6> QED
            BY <6>1, <6>2
        <5> QED
          BY <2>1, <2>5, <3>1, <4>1, <5>1 DEF ListedAt
      <4> QED
        BY <2>2, <2>3, <3>5, <4>1 DEF ListedAt
    <3>9. AskedAt(n, h)'
      <4>1. ASSUME conn = "open", phase[<<n, h>>] \in {"wait start", "start error", "running"}
            PROVE  reg[n] # h
        BY <2>1, <2>5, <3>2, <4>1 DEF ListedAt
      <4>2. \A i \in Nat : Queued(n, i, NewProxy(h)) => i > 1
        <5>1. \A i \in Nat : Queued(n, i, NewProxy(h)) => i >= 1 /\ i # 1
          BY <2>2, <3>2
        <5> QED
          BY <5>1
      <4> QED
        BY <2>1, <2>3, <2>5, <3>3, <3>4, <4>1, <4>2 DEF AskedAt
    <3> QED
      BY <2>5, <3>6, <3>7, <3>8, <3>9 DEF OrderAt
  <2> QED
    BY <2>4, <2>5
<1> QED
  BY <1>5, <1>6 DEF ClientInv

LEMMA ServerEndsInv == ASSUME ClientInv, ServerEnds PROVE ClientInv'
<1>1. /\ conn = "closed" /\ up' = [n \in Names |-> <<>>] /\ reg' = [n \in Names |-> None]
      /\ UNCHANGED <<wrapperVars, sessionVars, down, refused>>
  BY DEF ServerEnds
<1>2. \A n \in Names, i \in Nat, r \in Requests : ~Queued(n, i, r)'
  BY <1>1 DEF Queued
<1>3. \A n \in Names : up'[n] = <<>> /\ reg'[n] = None
  BY <1>1
<1>4. up' \in [Names -> Seq(Requests)] /\ reg' \in [Names -> Gens \cup {None}]
  BY <1>1
<1>5. ClientTypeOK'
  BY <1>1, <1>4 DEF ClientInv, ClientTypeOK, wrapperVars, sessionVars
<1>6. ASSUME NEW n \in Names, NEW g \in Gens
      PROVE  OrderAt(n, g)'
  <2>1. FreshAt(n, g) /\ g # None /\ NewProxy(g) \in Requests /\ conn' = "closed"
        /\ UNCHANGED <<gen, phase>>
    BY <1>1, RequestFacts, WrapperFacts DEF ClientInv, OrderAt, wrapperVars, sessionVars
  <2> QED
    BY <1>2, <1>3, <2>1 DEF OrderAt, FreshAt, StoppedAt, ListedAt, AskedAt
<1> QED
  BY <1>5, <1>6 DEF ClientInv

-----------------------------------------------------------------------------
(* The theorems.                                                           *)

LEMMA ClientInitInv == ASSUME ClientInit PROVE ClientInv
<1>1. \A n \in Names, i \in Nat, r \in Requests : ~Queued(n, i, r)
  BY DEF ClientInit, Queued
<1>2. ClientTypeOK
  <2>1. /\ phase \in [Wrappers -> Phases] /\ refused \in [Wrappers -> BOOLEAN]
        /\ \A w \in Wrappers : phase[w] = "none" /\ proxies[w[1]] = None /\ w[2] # None
    BY WrapperFacts DEF ClientInit, Phases
  <2>2. sends \in [Wrappers -> 0..MaxSend]
    BY ClientBounds DEF ClientInit, ClientBounds
  <2>3. up \in [Names -> Seq(Requests)] /\ down \in [Names -> Seq(BOOLEAN)]
    BY DEF ClientInit
  <2> QED
    BY <2>1, <2>2, <2>3 DEF ClientInit, ClientTypeOK
<1>3. ASSUME NEW n \in Names, NEW g \in Gens
      PROVE  OrderAt(n, g)
  <2>1. /\ phase[<<n, g>>] = "none" /\ gen[n] = None /\ reg[n] = None
        /\ g > None /\ g # None /\ NewProxy(g) \in Requests
    BY RequestFacts, WrapperFacts DEF ClientInit, None
  <2> QED
    BY <1>1, <2>1 DEF OrderAt, FreshAt, StoppedAt, ListedAt, AskedAt
<1> QED
  BY <1>2, <1>3 DEF ClientInv

LEMMA ClientStepInv == ASSUME ClientInv, [ClientNext]_clientVars PROVE ClientInv'
<1>1. CASE \E c \in [Names -> Cfgs \cup {NoCfg}] : UpdateAll(c)
  BY <1>1, UpdateAllInv
<1>2. CASE \E w \in Wrappers : CheckWorker(w)
  BY <1>2, CheckWorkerInv
<1>3. CASE \E n \in Names : HandleNewProxy(n) \/ HandleCloseProxy(n)
  BY <1>3, HandleNewProxyInv, HandleCloseProxyInv
<1>4. CASE SetRunningStatus
  BY <1>4, SetRunningStatusInv
<1>5. CASE LoseConn \/ HandlePong \/ HeartbeatWorker \/ CloseSession
  BY <1>5, SessionStepInv DEF HandlePong, HeartbeatWorker, CloseSession
<1>6. CASE \/ \E n \in Names : StartProxy(n)
           \/ DispatcherDone
           \/ \E k \in WorkConns :
                \/ HandleReqWorkConn(k) \/ GetWorkConnFromPool(k) \/ ReadNatHoleSid(k)
                \/ HandlerStep(k) \/ GiveUp(k) \/ TunnelEnds(k)
  BY <1>6, SessionStepInv
<1>7. CASE Worker
  <2>1. /\ CloseManager /\ UNCHANGED <<reading, conn>>
        /\ worker' \in {"run", "ended", "done"} /\ closing' \in BOOLEAN
    BY <1>7 DEF Worker, ClientInv, ClientTypeOK
  <2> QED
    BY <2>1, CloseManagerInv
<1>8. CASE GracefulClose
  <2>1. /\ CloseManager /\ UNCHANGED <<reading, conn>>
        /\ worker' \in {"run", "ended", "done"} /\ closing' \in BOOLEAN
    BY <1>8 DEF GracefulClose, ClientInv, ClientTypeOK
  <2> QED
    BY <2>1, CloseManagerInv
<1>9. CASE ServerEnds
  BY <1>9, ServerEndsInv
<1>10. CASE UNCHANGED clientVars
  <2>1. UNCHANGED <<proxies, gen, cfg, phase, sends, reading, conn, worker, closing, up, down,
                    reg, refused>>
    BY <1>10 DEF clientVars, wrapperVars, sessionVars, netVars
  <2>2. ClientTypeOK'
    BY <2>1 DEF ClientInv, ClientTypeOK
  <2>3. ASSUME NEW n \in Names, NEW g \in Gens PROVE OrderAt(n, g)'
    <3>1. OrderAt(n, g)
      BY DEF ClientInv
    <3> QED
      BY <2>1, <3>1 DEF OrderAt, FreshAt, StoppedAt, ListedAt, AskedAt, Queued
  <2> QED
    BY <2>2, <2>3 DEF ClientInv
<1> QED
  BY <1>1, <1>2, <1>3, <1>4, <1>5, <1>6, <1>7, <1>8, <1>9, <1>10 DEF ClientNext

(***************************************************************************)
(* The inductive invariant: UpdateAll, Close and the check workers keep a  *)
(* wrapper's CloseProxy behind all its NewProxy messages and before those  *)
(* of its successor, through any losses of the connection.                 *)
(***************************************************************************)
THEOREM ClientInvariance == ClientSpec => []ClientInv
<1>1. ClientInit => ClientInv
  BY ClientInitInv
<1>2. ClientInv /\ [ClientNext]_clientVars => ClientInv'
  BY ClientStepInv
<1> QED
  BY <1>1, <1>2, PTL DEF ClientSpec

(***************************************************************************)
(* The manager's map, the wrappers' phases and the session keep their      *)
(* types, and the manager lists exactly the wrapper of a name that is      *)
(* neither unmade nor stopped.                                             *)
(***************************************************************************)
THEOREM ClientTypeCorrect == ClientSpec => []ClientTypeOK
<1>1. ClientInv => ClientTypeOK
  BY DEF ClientInv
<1> QED
  BY <1>1, ClientInvariance, PTL

(***************************************************************************)
(* For any numbers of reloads, retries, refusals and names: with nothing   *)
(* of a name on the way, a proxy the server has registered under it is the *)
(* one the manager lists.                                                  *)
(***************************************************************************)
THEOREM NoOrphans == ClientSpec => []NoOrphanRegistration
<1>1. ASSUME ClientInv PROVE NoOrphanRegistration
  <2> SUFFICES ASSUME NEW n \in Names, Quiet(n), reg[n] # None
               PROVE  reg[n] = proxies[n]
    BY DEF NoOrphanRegistration
  <2>1. PICK g \in Gens : reg[n] = g
    BY <1>1 DEF ClientInv, ClientTypeOK
  <2>2. conn = "open" /\ \A i \in Nat, r \in Requests : ~Queued(n, i, r)
    BY DEF Quiet, Queued
  <2>3. phase[<<n, g>>] # "none" /\ phase[<<n, g>>] # "closed"
    BY <1>1, <2>1, <2>2, RequestFacts DEF ClientInv, OrderAt, FreshAt, StoppedAt
  <2> QED
    BY <1>1, <2>1, <2>3, WrapperFacts DEF ClientInv, ClientTypeOK
<1> QED
  BY <1>1, ClientInvariance, PTL

(***************************************************************************)
(* SetRunningStatus cannot tell whose answer it got, yet a wrapper that is *)
(* running once everything has been read is registered, or the server has  *)
(* refused its last request.                                               *)
(***************************************************************************)
THEOREM RunningIsRegistered == ClientSpec => []RunningUnlessRefused
<1>1. ASSUME ClientInv PROVE RunningUnlessRefused
  <2> SUFFICES ASSUME NEW w \in Wrappers, Quiet(w[1]), phase[w] = "running"
               PROVE  reg[w[1]] = w[2] \/ refused[w]
    BY DEF RunningUnlessRefused
  <2>1. PICK n \in Names, g \in Gens : w = <<n, g>> /\ w[1] = n /\ w[2] = g
    BY WrapperFacts
  <2>2. conn = "open" /\ \A i \in Nat, r \in Requests : ~Queued(n, i, r)
    BY <2>1 DEF Quiet, Queued
  <2>3. AskedAt(n, g) /\ NewProxy(g) \in Requests /\ phase[<<n, g>>] = "running"
    BY <1>1, <2>1, RequestFacts DEF ClientInv, OrderAt
  <2> QED
    BY <2>1, <2>2, <2>3 DEF AskedAt
<1> QED
  BY <1>1, ClientInvariance, PTL

=============================================================================
