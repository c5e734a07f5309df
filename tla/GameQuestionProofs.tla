------------------------- MODULE GameQuestionProofs -------------------------
(***************************************************************************)
(* Proofs about GameState: a question is put with no answers in the box,   *)
(* and a deal leaves nobody without a team or opponents, for every set of  *)
(* players and either build.                                               *)
(***************************************************************************)
EXTENDS GameStateProofs

\* Nothing is published before there is a client to publish with.
Quiet == mqttClient = "nil" => announced = <<>>

\* What is said by a list of no, one, two or three messages.
LEMMA SaidOf ==
  /\ Said(<<>>) = {}
  /\ \A a : Said(<<a>>) = {a.typ}
  /\ \A a, b : Said(<<a, b>>) = {a.typ, b.typ}
  /\ \A a, b, c : Said(<<a, b, c>>) = {a.typ, b.typ, c.typ}
BY DEF Said

\* What the messages of the evaluations say.
LEMMA MsgSays == \A typ, about : Msg(typ, about).typ = typ
BY DEF Msg

LEMMA QuestionsSay ==
  /\ \A ps : Said(<<NewRoundMsg(ps)>>) = {"ny runda"}
  /\ \A l : Said(<<LeaderMsg(l)>>) = {"val av ledare"}
  /\ \A l : Said(<<GameStartMsg, LeaderMsg(l)>>) = {"spelstart", "val av ledare"}
  /\ \A typ, ps : Said(MissionMsgs(typ, ps)) = {typ, "saboterare", "val att sparka"}
  /\ \A kicked, l : Said(<<KickResultMsg(kicked), LeaderMsg(l)>>)
                       \subseteq {"/myndigheten", "sparka avslogs", "val av ledare"}
<1>1. \A ps : NewRoundMsg(ps).typ = "ny runda"
  BY MsgSays DEF NewRoundMsg
<1>2. \A l : LeaderMsg(l).typ = "val av ledare"
  BY MsgSays DEF LeaderMsg
<1>3. GameStartMsg.typ = "spelstart"
  BY MsgSays DEF GameStartMsg
<1>4. \A kicked : KickResultMsg(kicked).typ \in {"/myndigheten", "sparka avslogs"}
  BY MsgSays DEF KickResultMsg
<1>5. \A typ, ps : Said(MissionMsgs(typ, ps)) = {typ, "saboterare", "val att sparka"}
  <2>1. ASSUME NEW typ, NEW ps
        PROVE  Said(MissionMsgs(typ, ps)) = {typ, "saboterare", "val att sparka"}
    <3> DEFINE a == Msg(typ, {leader})
               b == Msg("saboterare", Saboteurs(ps))
               c == Msg("val att sparka", {leader})
    <3>1. a.typ = typ /\ b.typ = "saboterare" /\ c.typ = "val att sparka"
      BY MsgSays
    <3>2. MissionMsgs(typ, ps) = <<a, b, c>>
      BY DEF MissionMsgs
    <3> HIDE DEF a, b, c
    <3>3. Said(<<a, b, c>>) = {a.typ, b.typ, c.typ}
      BY SaidOf
    <3> QED
      BY <3>1, <3>2, <3>3
  <2> QED
    BY <2>1
<1>6. \A l : Said(<<GameStartMsg, LeaderMsg(l)>>) = {"spelstart", "val av ledare"}
  <2>1. ASSUME NEW l
        PROVE  Said(<<GameStartMsg, LeaderMsg(l)>>) = {"spelstart", "val av ledare"}
    <3> DEFINE b == LeaderMsg(l)
    <3>1. b.typ = "val av ledare"
      BY <1>2
    <3> HIDE DEF b
    <3>2. Said(<<GameStartMsg, b>>) = {GameStartMsg.typ, b.typ}
      BY SaidOf
    <3> QED
      BY <1>3, <3>1, <3>2 DEF b
  <2> QED
    BY <2>1
<1>7. \A kicked, l : Said(<<KickResultMsg(kicked), LeaderMsg(l)>>)
                        \subseteq {"/myndigheten", "sparka avslogs", "val av ledare"}
  <2>1. ASSUME NEW kicked, NEW l
        PROVE  Said(<<KickResultMsg(kicked), LeaderMsg(l)>>)
                 \subseteq {"/myndigheten", "sparka avslogs", "val av ledare"}
    <3> DEFINE a == KickResultMsg(kicked)
               b == LeaderMsg(l)
    <3>1. a.typ \in {"/myndigheten", "sparka avslogs"} /\ b.typ = "val av ledare"
      BY <1>2, <1>4
    <3> HIDE DEF a, b
    <3>2. Said(<<a, b>>) = {a.typ, b.typ}
      BY SaidOf
    <3> QED
      BY <3>1, <3>2 DEF a, b
  <2> QED
    BY <2>1
<1>8. \A ps : Said(<<NewRoundMsg(ps)>>) = {"ny runda"}
  BY <1>1, SaidOf
<1>9. \A l : Said(<<LeaderMsg(l)>>) = {"val av ledare"}
  BY <1>2, SaidOf
<1> QED
  BY <1>5, <1>6, <1>7, <1>8, <1>9

\* The client is assigned once, and stays.
LEMMA QuietNext == Quiet /\ [Next]_vars => Quiet'
<1> SUFFICES ASSUME Quiet, [Next]_vars
             PROVE  Quiet'
  OBVIOUS
<1>1. ASSUME NEW p \in PlayerIds, AddPlayer(p)
      PROVE  Quiet'
  BY <1>1 DEF AddPlayer, Quiet
<1>2. ASSUME NEW p \in PlayerIds, AddDuplicate(p)
      PROVE  Quiet'
  BY <1>2 DEF AddDuplicate, Quiet
<1>3. ASSUME NEW p \in PlayerIds, NEW val \in Vals, Uplink(p, val)
      PROVE  Quiet'
  BY <1>3 DEF Uplink, Quiet
<1>4. CASE AssignClient
  BY <1>4 DEF AssignClient, Quiet
<1>5. CASE StartTooFew
  BY <1>5 DEF StartTooFew, Quiet
<1>6. CASE StartGame
  BY <1>6 DEF StartGame, Quiet
<1>7. CASE UNCHANGED vars
  BY <1>7 DEF vars, Quiet
<1> QED
  BY <1>1, <1>2, <1>3, <1>4, <1>5, <1>6, <1>7 DEF Next

LEMMA AlwaysQuiet == Spec => []Quiet
<1>1. Init => Quiet
  BY DEF Init, Quiet
<1> QED
  BY <1>1, QuietNext, PTL DEF Spec

-----------------------------------------------------------------------------
(* Questions *)

\* No answer but a start's says that a game begins.
LEMMA UplinkSays ==
  ASSUME NEW p \in PlayerIds, NEW val \in Vals, Uplink(p, val)
  PROVE  ~Restarts
<1>1. CASE LeaderVote(p, val)
  <2> DEFINE ps == ProcessLeaderVote(p, val)
  <2>1. \/ announced' = <<>>
        \/ announced' = <<NewRoundMsg(ps)>>
        \/ announced' = <<LeaderMsg(leader')>>
    BY <1>1 DEF LeaderVote, EvaluateLeaderVote, Recorded
  <2> HIDE DEF ps
  <2> QED
    <3>1. Said(announced') \subseteq {"ny runda", "val av ledare"}
      <4>1. Said(<<NewRoundMsg(ps)>>) = {"ny runda"}
        BY QuestionsSay
      <4>2. Said(<<LeaderMsg(leader')>>) = {"val av ledare"}
        BY QuestionsSay
      <4>3. Said(<<>>) = {}
        BY SaidOf
      <4> QED
        BY <2>1, <4>1, <4>2, <4>3
    <3> QED
      BY <3>1 DEF Restarts
<1>2. CASE MissionDecision(p, val)
  <2> DEFINE ps == ProcessMissionDecision(p, val)
  <2>1. \/ announced' = <<>>
        \/ announced' = MissionMsgs("uppdrag saboterat", ps)
        \/ announced' = MissionMsgs("uppdrag lyckades", ps)
    BY <1>2 DEF MissionDecision, EvaluateMission, Recorded
  <2> HIDE DEF ps
  <2> QED
    <3>1. Said(announced') \subseteq {"uppdrag saboterat", "uppdrag lyckades",
                                     "saboterare", "val att sparka"}
      <4>1. Said(MissionMsgs("uppdrag saboterat", ps)) =
              {"uppdrag saboterat", "saboterare", "val att sparka"}
        BY QuestionsSay
      <4>2. Said(MissionMsgs("uppdrag lyckades", ps)) =
              {"uppdrag lyckades", "saboterare", "val att sparka"}
        BY QuestionsSay
      <4>3. Said(<<>>) = {}
        BY SaidOf
      <4> QED
        BY <2>1, <4>1, <4>2, <4>3
    <3> QED
      BY <3>1 DEF Restarts
<1>3. CASE KickVote(p, val)
  <2> DEFINE ps == ProcessKickVote(p, val)
  <2>1. \/ announced' = <<>>
        \/ announced' = <<KickResultMsg(Carried(ps)), LeaderMsg(leader')>>
    BY <1>3 DEF KickVote, EvaluateKickVote, Recorded
  <2> HIDE DEF ps
  <2> QED
    <3>1. Said(announced') \subseteq {"/myndigheten", "sparka avslogs", "val av ledare"}
      <4>1. Said(<<KickResultMsg(Carried(ps)), LeaderMsg(leader')>>)
              \subseteq {"/myndigheten", "sparka avslogs", "val av ledare"}
        BY QuestionsSay
      <4>2. Said(<<>>) = {}
        BY SaidOf
      <4> QED
        BY <2>1, <4>1, <4>2
    <3> QED
      BY <3>1 DEF Restarts
<1>4. CASE Ignored
  BY <1>4, SaidOf DEF Ignored, Restarts
<1> QED
  BY <1>1, <1>2, <1>3, <1>4 DEF Uplink

\* A ballot that closes leaves nobody with a vote.
LEMMA CleanLeaderVote ==
  ASSUME Inv, NEW p \in Seated, NEW val \in Vals, LeaderVote(p, val)
  PROVE  QuestionPutClean
<1> DEFINE ps == ProcessLeaderVote(p, val)
<1>1. IF AllVoted(ps) THEN EvaluateLeaderVote(ps) ELSE Recorded(ps)
  BY DEF LeaderVote
<1>2. ps \in [Seated -> Player]
  <2>1. players \in [Seated -> Player]
    BY DEF Inv, TypeOK
  <2> QED
    BY <2>1, ProcessedVote
<1> HIDE DEF ps
<1>3. CASE AllVoted(ps)
  <2>1. /\ players' = ClearBallot(ps)
        /\ announced' \in {<<NewRoundMsg(ps)>>, <<LeaderMsg(leader')>>}
    BY <1>1, <1>3 DEF EvaluateLeaderVote
  <2>2. "val att sparka" \notin Said(announced')
    BY <2>1, QuestionsSay
  <2>3. \A q \in Seated' : players'[q].leaderVote = NONE_VOTE /\ ~players'[q].votedLeader
    BY <1>2, <2>1, ClearedBallot DEF Seated
  <2> QED
    BY <2>2, <2>3 DEF QuestionPutClean
<1>4. CASE ~AllVoted(ps)
  BY <1>1, <1>4, SaidOf DEF Recorded, QuestionPutClean
<1> QED
  BY <1>3, <1>4

\* The kick vote after a mission finds no votes, since nobody votes during a
\* mission, and no decisions, which the evaluation has cleared.
LEMMA CleanMissionDecision ==
  ASSUME Inv, NEW p \in Seated, NEW val \in Vals, MissionDecision(p, val)
  PROVE  QuestionPutClean
<1> DEFINE ps == ProcessMissionDecision(p, val)
<1>1. /\ phase = "MISSION"
      /\ IF AllHaveDecision(ps) THEN EvaluateMission(ps) ELSE Recorded(ps)
  BY DEF MissionDecision
<1>2. /\ ps \in [Seated -> Player]
      /\ \A q \in Seated : /\ ps[q].leaderVote = players[q].leaderVote
                          /\ ps[q].votedLeader = players[q].votedLeader
  <2>1. players \in [Seated -> Player]
    BY DEF Inv, TypeOK
  <2> QED
    BY <2>1, ProcessedDecision
<1>3. \A q \in Seated : players[q].leaderVote = NONE_VOTE /\ ~players[q].votedLeader
  BY <1>1 DEF Inv, PlayersFitThePhase
<1> HIDE DEF ps
<1>4. CASE AllHaveDecision(ps)
  <2>1. players' = ClearDecisions(ps)
    BY <1>1, <1>4 DEF EvaluateMission
  <2>2. /\ Seated' = Seated
        /\ \A q \in Seated : /\ players'[q].leaderVote = ps[q].leaderVote
                            /\ players'[q].votedLeader = ps[q].votedLeader
                            /\ ~players'[q].decisionMade
    BY <1>2, <2>1, ClearedDecisions DEF Seated
  <2>3. \A q \in Seated' : players'[q].leaderVote = NONE_VOTE /\ ~players'[q].votedLeader
    BY <1>2, <1>3, <2>2
  <2>4. \A q \in Seated' : ~players'[q].decisionMade
    BY <2>2
  <2> QED
    BY <2>3, <2>4 DEF QuestionPutClean
<1>5. CASE ~AllHaveDecision(ps)
  BY <1>1, <1>5, SaidOf DEF Recorded, QuestionPutClean
<1> QED
  BY <1>4, <1>5

LEMMA CleanKickVote ==
  ASSUME Inv, NEW p \in Seated, NEW val \in Vals, KickVote(p, val)
  PROVE  QuestionPutClean
<1> DEFINE ps == ProcessKickVote(p, val)
<1>1. IF AllVoted(ps) THEN EvaluateKickVote(ps) ELSE Recorded(ps)
  BY DEF KickVote
<1>2. ps \in [Seated -> Player]
  <2>1. players \in [Seated -> Player]
    BY DEF Inv, TypeOK
  <2> QED
    BY <2>1, ProcessedVote
<1> HIDE DEF ps
<1>3. CASE AllVoted(ps)
  <2>1. /\ players' = ClearBallot(ps) \/ players' = Without(ClearBallot(ps), leader)
        /\ announced' = <<KickResultMsg(Carried(ps)), LeaderMsg(leader')>>
    BY <1>1, <1>3 DEF EvaluateKickVote
  <2>2. "val att sparka" \notin Said(announced')
    BY <2>1, QuestionsSay
  <2>3. DOMAIN ClearBallot(ps) = Seated
    BY <1>2, ClearedBallot
  <2>4. Seated' \subseteq Seated /\ \A q \in Seated' : players'[q] = ClearBallot(ps)[q]
    BY <2>1, <2>3 DEF Without, Seated
  <2>5. \A q \in Seated' : players'[q].leaderVote = NONE_VOTE /\ ~players'[q].votedLeader
    <3>1. \A q \in Seated : /\ ClearBallot(ps)[q].leaderVote = NONE_VOTE
                              /\ ~ClearBallot(ps)[q].votedLeader
      BY <1>2, ClearedBallot
    <3> QED
      BY <2>4, <3>1
  <2> QED
    BY <2>2, <2>5 DEF QuestionPutClean
<1>4. CASE ~AllVoted(ps)
  BY <1>1, <1>4, SaidOf DEF Recorded, QuestionPutClean
<1> QED
  BY <1>3, <1>4

\* What every section but a start and an answer publishes is no question.
LEMMA OthersSay ==
  ASSUME Quiet,
         \/ AssignClient
         \/ \E p \in PlayerIds : AddPlayer(p) \/ AddDuplicate(p)
         \/ StartTooFew
  PROVE  Said(announced') \subseteq {"DEBUG_NEW_PLAYER_JOINED"}
<1>1. announced' \in {<<>>, <<Msg("DEBUG_NEW_PLAYER_JOINED", {})>>}
  BY DEF Quiet, AssignClient, AddPlayer, AddDuplicate, StartTooFew
<1> QED
  BY <1>1, SaidOf DEF Msg

LEMMA CleanNext == Inv /\ Quiet /\ [Next]_vars => [QuestionPutClean]_vars
<1> SUFFICES ASSUME Inv, Quiet, Next
             PROVE  QuestionPutClean
  OBVIOUS
<1>1. CASE \E p \in PlayerIds, val \in Vals : Uplink(p, val)
  <2> SUFFICES ASSUME NEW p \in PlayerIds, NEW val \in Vals, Uplink(p, val)
               PROVE  QuestionPutClean
    BY <1>1
  <2>1. CASE Ignored
    BY <2>1, SaidOf DEF Ignored, QuestionPutClean
  <2> QED
    BY <2>1, CleanLeaderVote, CleanMissionDecision, CleanKickVote DEF Uplink
<1>2. CASE StartGame
  <2>1. \E l : announced' = <<GameStartMsg, LeaderMsg(l)>>
    BY <1>2 DEF StartGame
  <2>2. Restarts
    BY <2>1, QuestionsSay DEF Restarts
  <2> QED
    BY <2>2 DEF QuestionPutClean
<1>3. CASE \/ AssignClient
           \/ \E p \in PlayerIds : AddPlayer(p) \/ AddDuplicate(p)
           \/ StartTooFew
  BY <1>3, OthersSay DEF QuestionPutClean
<1> QED
  BY <1>1, <1>2, <1>3 DEF Next

\* No vote or decision given to one question is counted for the next, restarts
\* aside.
THEOREM QuestionsPutClean == Spec => QuestionsStartClean
BY CleanNext, Invariance, AlwaysQuiet, PTL DEF Spec, QuestionsStartClean

-----------------------------------------------------------------------------
(* The deal *)

\* The table: both teams together are everybody, SSS is never empty, GHG is not
\* from two players on, and has the majority in the production build.
LEMMA DealTable ==
  ASSUME NEW n \in Nat \ {0}
  PROVE  /\ GhgCount(n) \in 0..n
         /\ SssCount(n) = n - GhgCount(n)
         /\ GhgCount(n) < n
         /\ n >= 2 => GhgCount(n) >= 1
         /\ n \in 5..11 /\ ~DebugBuild => GhgCount(n) > n - GhgCount(n)
<1>1. CASE n \in 5..11 /\ ~DebugBuild
  <2>1. n \in {5, 6, 7, 8, 9, 10, 11}
    BY <1>1
  <2>2. \/ n = 5 /\ GhgCount(n) = 3 /\ SssCount(n) = 2
        \/ n = 6 /\ GhgCount(n) = 4 /\ SssCount(n) = 2
        \/ n = 7 /\ GhgCount(n) = 4 /\ SssCount(n) = 3
        \/ n = 8 /\ GhgCount(n) = 5 /\ SssCount(n) = 3
        \/ n = 9 /\ GhgCount(n) = 6 /\ SssCount(n) = 3
        \/ n = 10 /\ GhgCount(n) = 6 /\ SssCount(n) = 4
        \/ n = 11 /\ GhgCount(n) = 7 /\ SssCount(n) = 4
    BY <1>1, <2>1 DEF GhgCount, SssCount
  <2> QED
    BY <2>2
<1>2. CASE ~(n \in 5..11 /\ ~DebugBuild)
  <2>1. GhgCount(n) = n \div 2 /\ SssCount(n) = n - n \div 2
    BY <1>2 DEF GhgCount, SssCount
  <2> QED
    BY <1>2, <2>1
<1> QED
  BY <1>1, <1>2

\* Every place in the shuffled order has one player, and a player the team of
\* its place.
LEMMA DealtByPlace ==
  ASSUME Inv, NEW n \in Nat \ {0}, n = Cardinality(Seated), NEW ids \in Bijection(1..n, Seated)
  PROVE  /\ DOMAIN Dealt(players, ids) = Seated
         /\ \A i \in 1..n : Dealt(players, ids)[ids[i]].team =
                              IF i <= GhgCount(n) THEN "GHG" ELSE "SSS"
<1>1. players \in [Seated -> Player]
  BY DEF Inv, TypeOK
<1> DEFINE place(p) == CHOOSE i \in 1..n : ids[i] = p
<1>2. Dealt(players, ids) =
        [p \in Seated |-> [players[p] EXCEPT !.team = DealtTeam(place(p), n, players[p].team)]]
  BY DEF Dealt, Seated
<1>3. ASSUME NEW i \in 1..n
      PROVE  Dealt(players, ids)[ids[i]].team = IF i <= GhgCount(n) THEN "GHG" ELSE "SSS"
  <2>1. ids[i] \in Seated
    BY DEF Bijection, Injection
  <2>2. place(ids[i]) = i
    <3>1. \A j \in 1..n : ids[j] = ids[i] => j = i
      BY DEF Bijection, Injection, IsInjective
    <3> QED
      BY <3>1
  <2> HIDE DEF place
  <2>3. Dealt(players, ids)[ids[i]].team = DealtTeam(i, n, players[ids[i]].team)
    BY <1>1, <1>2, <2>1, <2>2 DEF Player
  <2> QED
    BY <2>3, DealTable DEF DealtTeam
<1> QED
  BY <1>2, <1>3

\* The players in the places I of the shuffled order.
InPlaces(ids, I) == {ids[i] : i \in I}

\* There are as many players as places.
LEMMA PlacesCount ==
  ASSUME NEW n \in Nat, NEW S, NEW ids \in Bijection(1..n, S), NEW I \in SUBSET (1..n)
  PROVE  Cardinality(InPlaces(ids, I)) = Cardinality(I)
<1> DEFINE f == [i \in I |-> ids[i]]
           T == InPlaces(ids, I)
<1>1. f \in Bijection(I, T)
  <2>1. f \in [I -> T]
    BY DEF InPlaces
  <2>2. \A i, j \in I : f[i] = f[j] => i = j
    BY DEF Bijection, Injection, IsInjective
  <2>3. \A t \in T : \E i \in I : f[i] = t
    BY DEF InPlaces
  <2> HIDE DEF f, T
  <2> QED
    BY <2>1, <2>2, <2>3 DEF Bijection, Injection, Surjection, IsInjective
<1>2. IsFiniteSet(I)
  <2>1. IsFiniteSet(1..n)
    BY FS_Interval
  <2> QED
    BY <2>1, FS_Subset
<1>3. ExistsBijection(I, T)
  BY <1>1 DEF ExistsBijection
<1> HIDE DEF T
<1>4. Cardinality(T) = Cardinality(I)
  BY <1>2, <1>3, FS_Bijection
<1> QED
  BY <1>4 DEF T

\* A start deals as many players to each side as the table says.
TableObeyed ==
  Restarts =>
    /\ Cardinality(Side("GHG")') = GhgCount(Cardinality(Seated'))
    /\ Cardinality(Side("SSS")') = SssCount(Cardinality(Seated'))

\* A start deals.
LEMMA StartDeals ==
  ASSUME Inv, StartGame
  PROVE  TeamsDealt /\ TableObeyed
<1> DEFINE n == Cardinality(Seated)
<1>1. n \in Nat \ {0}
  BY SeatedFinite DEF StartGame, Inv
<1>2. PICK ids \in Bijection(1..n, Seated) : players' = Dealt(players, ids)
  BY DEF StartGame, Shuffles
<1>3. /\ Seated' = Seated
      /\ \A i \in 1..n : players'[ids[i]].team = IF i <= GhgCount(n) THEN "GHG" ELSE "SSS"
  <2>1. DOMAIN Dealt(players, ids) = Seated
    BY <1>1, DealtByPlace
  <2>2. \A i \in 1..n : Dealt(players, ids)[ids[i]].team =
                          IF i <= GhgCount(n) THEN "GHG" ELSE "SSS"
    BY <1>1, DealtByPlace
  <2> QED
    BY <1>2, <2>1, <2>2 DEF Seated
<1> HIDE DEF n
<1> DEFINE g == GhgCount(n)
<1>4. /\ g \in 0..n /\ g < n
      /\ n >= 2 => g >= 1
      /\ n \in 5..11 /\ ~DebugBuild => g > n - g
  BY <1>1, DealTable
<1>5. /\ \A i \in 1..n : ids[i] \in Seated
      /\ \A p \in Seated : \E i \in 1..n : ids[i] = p
  BY <1>2 DEF Bijection, Injection, Surjection
<1>6. \A i \in 1..n : players'[ids[i]].team = IF i <= g THEN "GHG" ELSE "SSS"
  BY <1>3
<1> HIDE DEF g
<1>7. Side("NOTEAM")' = {}
  BY <1>3, <1>5, <1>6 DEF Side
<1>8. Side("GHG")' = InPlaces(ids, 1..g)
  BY <1>1, <1>3, <1>4, <1>5, <1>6 DEF Side, InPlaces
<1>9. Side("SSS")' = InPlaces(ids, (g + 1)..n)
  BY <1>1, <1>3, <1>4, <1>5, <1>6 DEF Side, InPlaces
<1>10. Side("SSS")' # {}
  <2>1. n \in (g + 1)..n
    BY <1>1, <1>4
  <2> QED
    BY <1>9, <2>1 DEF InPlaces
<1>11. n >= 2 => Side("GHG")' # {}
  <2>1. n >= 2 => 1 \in 1..g
    BY <1>1, <1>4
  <2> QED
    BY <1>8, <2>1 DEF InPlaces
<1>12. Cardinality(Side("GHG")') = g /\ Cardinality(Side("SSS")') = n - g
  <2>1. 1..g \in SUBSET (1..n) /\ (g + 1)..n \in SUBSET (1..n) /\ n \in Nat
    BY <1>1, <1>4
  <2>2. Cardinality(1..g) = g /\ Cardinality((g + 1)..n) = n - g
    BY <1>1, <1>4, FS_Interval
  <2>3. Cardinality(Side("GHG")') = g
    <3> DEFINE I == 1..g
    <3>1. I \in SUBSET (1..n)
      BY <2>1
    <3> HIDE DEF I
    <3>2. Cardinality(InPlaces(ids, I)) = Cardinality(I)
      BY <1>2, <2>1, <3>1, PlacesCount
    <3> QED
      BY <1>8, <2>2, <3>2 DEF I
  <2>4. Cardinality(Side("SSS")') = n - g
    <3> DEFINE I == (g + 1)..n
    <3>1. I \in SUBSET (1..n)
      BY <2>1
    <3> HIDE DEF I
    <3>2. Cardinality(InPlaces(ids, I)) = Cardinality(I)
      BY <1>2, <2>1, <3>1, PlacesCount
    <3> QED
      BY <1>9, <2>2, <3>2 DEF I
  <2> QED
    BY <2>3, <2>4
<1>13. Cardinality(Seated') = n
  BY <1>3 DEF n
<1>14. g = GhgCount(n) /\ n - g = SssCount(n)
  BY <1>1, DealTable DEF g
<1>15. TeamsDealt
  BY <1>1, <1>4, <1>7, <1>10, <1>11, <1>12, <1>13 DEF TeamsDealt
<1>16. TableObeyed
  BY <1>12, <1>13, <1>14 DEF TableObeyed
<1> QED
  BY <1>15, <1>16

LEMMA DealNext == Inv /\ Quiet /\ [Next]_vars => [TeamsDealt /\ TableObeyed]_vars
<1> SUFFICES ASSUME Inv, Quiet, Next
             PROVE  TeamsDealt /\ TableObeyed
  OBVIOUS
<1>1. CASE \E p \in PlayerIds, val \in Vals : Uplink(p, val)
  BY <1>1, UplinkSays DEF TeamsDealt, TableObeyed
<1>2. CASE StartGame
  BY <1>2, StartDeals
<1>3. CASE \/ AssignClient
           \/ \E p \in PlayerIds : AddPlayer(p) \/ AddDuplicate(p)
           \/ StartTooFew
  BY <1>3, OthersSay DEF TeamsDealt, TableObeyed, Restarts
<1> QED
  BY <1>1, <1>2, <1>3 DEF Next

\* However many players there are, a deal leaves nobody without a team, gives
\* both sides players where there are two, and GHG the majority from five on.
THEOREM EverybodyIsDealt == Spec => DealIsComplete
<1>1. Inv /\ Quiet /\ [Next]_vars => [TeamsDealt]_vars
  BY DealNext
<1> QED
  BY <1>1, Invariance, AlwaysQuiet, PTL DEF Spec, DealIsComplete

\* However the players are shuffled, and however often the game is started anew,
\* the sides have the sizes initGameLogic tabulates.
THEOREM DealsByTheTable == Spec => [][TableObeyed]_vars
<1>1. Inv /\ Quiet /\ [Next]_vars => [TableObeyed]_vars
  BY DealNext
<1> QED
  BY <1>1, Invariance, AlwaysQuiet, PTL DEF Spec

=============================================================================
