------------------------------ MODULE Analyzer ------------------------------
(***************************************************************************)
(* The behaviour analyzer of the hole punching coordinator,                *)
(* pkg/nathole/analysis.go, with the steps of Controller.analysis and      *)
(* Controller.HandleReport that call it.                                   *)
(*                                                                         *)
(* A handler is a goroutine that serves one NAT hole session after the     *)
(* other.  It looks its pair of peers up under Analyzer.mu, asks the       *)
(* record found for a recommendation under the record's own mutex, and     *)
(* later credits the recommendation in the same two steps; Clean may run   *)
(* anywhere in between, so a handler can hold a record that is no longer   *)
(* in the map.                                                             *)
(***************************************************************************)
EXTENDS NatFeature

CONSTANTS
  Handlers,    \* concurrent sessions
  Records,     \* objects of type makeHoleRecords
  NoRecord,
  Pairs,       \* pairs of client and visitor that meet
  Punchable,   \* those that can punch a hole
  NoPair,
  MaxVisits    \* bound on the number of sessions

ASSUME AnalyzerConstants ==
  /\ NoRecord \notin Records
  /\ NoPair \notin Pairs
  /\ MaxVisits \in Nat

VARIABLES
  records,     \* Analyzer.records
  scores,      \* scores[r]: the scores of record r
  aged,        \* aged[r]: not used for dataReserveDuration
  credited,    \* credited[r]: r has had a success (history)
  pc,          \* where a handler is
  pair,        \* the client and the visitor of its session
  ref,         \* the record it holds
  choice,      \* the score entry it was recommended
  visits       \* number of sessions so far

recordVars == <<records, scores, aged, credited>>
sessionVars == <<pair, visits>>
vars == <<recordVars, pc, sessionVars, ref, choice>>

Keys == {analysisKey(p[1], p[2]) : p \in Pairs}
Entry == [Mode : Modes, Index : 1 .. 10, Score : {n \in Int : n <= 10}]
NoEntry == [Mode |-> 0, Index |-> 1, Score |-> 0]

Key(h) == analysisKey(pair[h][1], pair[h][2])
cNatFeature(h) == ClassifyNATFeature(pair[h][1])
vNatFeature(h) == ClassifyNATFeature(pair[h][2])

(***************************************************************************)
(* The values of the variables.  No score ever exceeds 10, however often a *)
(* behaviour is reported successful.                                       *)
(***************************************************************************)
AnalyzerTypeOK ==
  /\ records \in [Keys -> Records \cup {NoRecord}]
  /\ \A r \in Records : \A i \in Indices(scores[r]) : scores[r][i] \in Entry
  /\ aged \in [Records -> BOOLEAN]
  /\ credited \in [Records -> BOOLEAN]
  /\ pc \in [Handlers ->
              {"idle", "fetched", "advised", "crediting", "reported"}]
  /\ pair \in [Handlers -> Pairs \cup {NoPair}]
  /\ ref \in [Handlers -> Records \cup {NoRecord}]
  /\ choice \in [Handlers -> Entry]
  /\ visits \in 0 .. MaxVisits

Init ==
  /\ records = [k \in Keys |-> NoRecord]
  /\ scores = [r \in Records |-> <<>>]
  /\ aged = [r \in Records |-> FALSE]
  /\ credited = [r \in Records |-> FALSE]
  /\ pc = [h \in Handlers |-> "idle"]
  /\ pair = [h \in Handlers |-> NoPair]
  /\ ref = [h \in Handlers |-> NoRecord]
  /\ choice = [h \in Handlers |-> NoEntry]
  /\ visits = 0

-----------------------------------------------------------------------------
Unused(r) ==
  /\ \A k \in Keys : records[k] # r
  /\ \A h \in Handlers : ref[h] # r

\* A session of the pair p: classify the peers and find or create the record
\* of their key.
Fetch(h, p) ==
  LET k == analysisKey(p[1], p[2]) IN
  /\ pc[h] = "idle"
  /\ visits < MaxVisits
  /\ visits' = visits + 1
  /\ pair' = [pair EXCEPT ![h] = p]
  /\ pc' = [pc EXCEPT ![h] = "fetched"]
  /\ UNCHANGED choice
  /\ \/ /\ records[k] # NoRecord
        /\ ref' = [ref EXCEPT ![h] = records[k]]
        /\ UNCHANGED recordVars
     \/ \E r \in Records :
          /\ records[k] = NoRecord
          /\ Unused(r)
          /\ records' = [records EXCEPT ![k] = r]
          /\ scores' = [scores EXCEPT ![r] =
               newMakeHoleRecords(ClassifyNATFeature(p[1]),
                                  ClassifyNATFeature(p[2]))]
          /\ aged' = [aged EXCEPT ![r] = FALSE]
          /\ credited' = [credited EXCEPT ![r] = FALSE]
          /\ ref' = [ref EXCEPT ![h] = r]

WithScore(r, i, n) ==
  scores' = [scores EXCEPT ![r] =
               [j \in Indices(scores[r]) |->
                  [Mode |-> scores[r][j].Mode,
                   Index |-> scores[r][j].Index,
                   Score |-> IF j = i THEN n ELSE scores[r][j].Score]]]

FirstMax_First(r, i) == i = 1

\* slices.MaxFunc: the first of the entries with the highest score.
FirstMax(r, i) ==
  /\ i \in Indices(scores[r])
  /\ \A j \in Indices(scores[r]) :
       /\ scores[r][j].Score <= scores[r][i].Score
       /\ j < i => scores[r][j].Score < scores[r][i].Score

recommand(h) ==
  LET r == ref[h] IN
  /\ pc[h] = "fetched"
  /\ \E i \in Indices(scores[r]) :
       /\ FirstMax(r, i)
       /\ WithScore(r, i, scores[r][i].Score - 1)
       /\ choice' = [choice EXCEPT ![h] = scores[r][i]]
  /\ aged' = [aged EXCEPT ![r] = FALSE]
  /\ pc' = [pc EXCEPT ![h] = "advised"]
  /\ ref' = [ref EXCEPT ![h] = NoRecord]
  /\ UNCHANGED <<records, credited, sessionVars>>

\* HandleReport with success: look the record up again.
ReportSuccess(h) ==
  /\ pc[h] = "advised"
  /\ pair[h] \in Punchable
  /\ ref' = [ref EXCEPT ![h] = records[Key(h)]]
  /\ pc' = [pc EXCEPT ![h] = IF records[Key(h)] = NoRecord THEN "reported"
                                                           ELSE "crediting"]
  /\ UNCHANGED <<recordVars, sessionVars, choice>>

Names(r, i, h) ==
  /\ i \in Indices(scores[r])
  /\ scores[r][i].Mode = choice[h].Mode
  /\ scores[r][i].Index = choice[h].Index

Reward(n) == IF n + 2 > 10 THEN 10 ELSE n + 2

reportSuccess(h) ==
  LET r == ref[h] IN
  /\ pc[h] = "crediting"
  /\ \/ \E i \in Indices(scores[r]) :
          /\ Names(r, i, h)
          /\ WithScore(r, i, Reward(scores[r][i].Score))
     \/ /\ \A i \in Indices(scores[r]) : ~Names(r, i, h)
        /\ UNCHANGED scores
  /\ aged' = [aged EXCEPT ![r] = FALSE]
  /\ credited' = [credited EXCEPT ![r] = TRUE]
  /\ pc' = [pc EXCEPT ![h] = "reported"]
  /\ ref' = [ref EXCEPT ![h] = NoRecord]
  /\ UNCHANGED <<records, sessionVars, choice>>

\* The session is over, with or without a report.
EndSession(h) ==
  /\ pc[h] \in {"advised", "reported"}
  /\ pc' = [pc EXCEPT ![h] = "idle"]
  /\ choice' = [choice EXCEPT ![h] = NoEntry]
  /\ pair' = [pair EXCEPT ![h] = NoPair]
  /\ UNCHANGED <<recordVars, visits, ref>>

\* A record in the map grows old while no session uses it: sessions last
\* minutes, records are kept for hours.
Age(r) ==
  /\ \E k \in Keys : records[k] = r
  /\ \A h \in Handlers : pc[h] = "idle"
  /\ ~aged[r]
  /\ aged' = [aged EXCEPT ![r] = TRUE]
  /\ UNCHANGED <<records, scores, credited, pc, sessionVars, ref, choice>>

Old(k) == records[k] # NoRecord /\ aged[records[k]]

Clean ==
  /\ \E k \in Keys : Old(k)
  /\ records' = [k \in Keys |-> IF Old(k) THEN NoRecord ELSE records[k]]
  /\ UNCHANGED <<scores, aged, credited, pc, sessionVars, ref, choice>>

Done ==
  /\ visits = MaxVisits
  /\ \A h \in Handlers : pc[h] = "idle"
  /\ UNCHANGED vars

Next ==
  \/ \E h \in Handlers :
       \/ \E p \in Pairs : Fetch(h, p)
       \/ recommand(h)
       \/ ReportSuccess(h)
       \/ reportSuccess(h)
       \/ EndSession(h)
  \/ \E r \in Records : Age(r)
  \/ Clean
  \/ Done

Spec == Init /\ [][Next]_vars

-----------------------------------------------------------------------------
Advised(h) == pc[h] \in {"advised", "crediting", "reported"}

ClientSends(h) ==
  clientRole(choice[h].Mode, choice[h].Index, cNatFeature(h)) = "sender"

SenderFeature(h) == IF ClientSends(h) THEN cNatFeature(h) ELSE vNatFeature(h)
ReceiverFeature(h) == IF ClientSends(h) THEN vNatFeature(h) ELSE cNatFeature(h)

(***************************************************************************)
(* The roles suit the session's own peers although the record may have     *)
(* been created for another session with the same key: in mode 1 a HardNAT *)
(* sends, in mode 2 a HardNAT receives, in mode 4 the sender's ports       *)
(* change regularly.                                                       *)
(***************************************************************************)
RolesFit ==
  \A h \in Handlers :
    Advised(h) =>
      /\ choice[h].Mode = 1 => Hard(SenderFeature(h))
      /\ choice[h].Mode = 2 => Hard(ReceiverFeature(h))
      /\ choice[h].Mode = 4 => SenderFeature(h).RegularPortsChange

(***************************************************************************)
(* reportSuccess finds the behaviour that was recommended, also when the   *)
(* record was cleaned and created anew since: no success is lost to a      *)
(* record of another kind.                                                 *)
(***************************************************************************)
CreditFindsEntry ==
  \A h \in Handlers :
    pc[h] = "crediting" =>
      \E i \in Indices(scores[ref[h]]) : Names(ref[h], i, h)

(***************************************************************************)
(* Recommendations go round: as long as nothing has succeeded, no          *)
(* behaviour of a record is tried twice more than another.                 *)
(***************************************************************************)
TriedInRounds ==
  \A r \in Records :
    ~credited[r] =>
      \A i, j \in Indices(scores[r]) :
        scores[r][i].Score <= scores[r][j].Score + 1

\* The comment on mode 0: "both EasyNAT, PublicNetwork is always receiver".
PublicNetworkReceives ==
  \A h \in Handlers :
    /\ Advised(h)
    /\ choice[h].Mode = 0
    /\ ~Hard(cNatFeature(h)) /\ ~Hard(vNatFeature(h))
    /\ cNatFeature(h).PublicNetwork # vNatFeature(h).PublicNetwork
    => ReceiverFeature(h).PublicNetwork
=============================================================================
