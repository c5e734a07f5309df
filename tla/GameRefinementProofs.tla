------------------------ MODULE GameRefinementProofs ------------------------
(***************************************************************************)
(* Proofs about the steps of GameState: who may close a ballot and with    *)
(* what outcome, and that the handlers implement GameRounds.               *)
(***************************************************************************)
EXTENDS GameStateProofs

-----------------------------------------------------------------------------
(* The vote that closes a ballot *)

\* A ballot that a vote completes was missing that vote only.
LEMMA ClosingVote ==
  ASSUME Inv, phase \in {"LEADER_VOTE", "KICK_VOTE"}, NEW p \in Seated, NEW val \in Vals,
         NEW ps, ps = ProcessLeaderVote(p, val) \/ ps = ProcessKickVote(p, val),
         AllVoted(ps)
  PROVE  /\ Unvoted = {p}
         /\ players[p].leaderVote = NONE_VOTE
<1>1. players \in [Seated -> Player]
  BY DEF Inv, TypeOK
<1>2. ps \in [Seated -> Player] /\ \A q \in Seated \ {p} : ps[q] = players[q]
  BY <1>1, ProcessedVote
<1>3. Unvoted \subseteq {p}
  BY <1>2 DEF AllVoted, Unvoted
<1>4. Unvoted # {}
  BY DEF Inv, SomeoneAwaited
<1> QED
  BY <1>3, <1>4 DEF Unvoted, Inv, PlayersFitThePhase

\* The vote that completes the ballot moves each tally by one at most.
LEMMA TallyBefore ==
  ASSUME Inv, phase \in {"LEADER_VOTE", "KICK_VOTE"}, NEW p \in Seated, NEW val \in Vals,
         NEW ps, ps = ProcessLeaderVote(p, val) \/ ps = ProcessKickVote(p, val),
         AllVoted(ps), NEW v \in {"ok", "neka"}
  PROVE  /\ VoteCount(ps, v) \in Nat /\ VoteCount(players, v) \in Nat
         /\ VoteCount(players, v) <= VoteCount(ps, v)
         /\ VoteCount(ps, v) <= VoteCount(players, v) + 1
<1> DEFINE Box(f) == {q \in Seated : f[q].leaderVote = v}
<1>1. players \in [Seated -> Player]
  BY DEF Inv, TypeOK
<1>2. ps \in [Seated -> Player] /\ \A q \in Seated \ {p} : ps[q] = players[q]
  BY <1>1, ProcessedVote
<1>3. players[p].leaderVote = NONE_VOTE
  BY ClosingVote
<1>4. /\ IsFiniteSet(Box(ps)) /\ Cardinality(Box(ps)) \in Nat
      /\ IsFiniteSet(Box(players)) /\ Cardinality(Box(players)) \in Nat
  <2>1. IsFiniteSet(Seated)
    BY SeatedFinite DEF Inv
  <2>2. Box(ps) \subseteq Seated /\ Box(players) \subseteq Seated
    OBVIOUS
  <2> HIDE DEF Box
  <2> QED
    BY <2>1, <2>2, FS_Subset, FS_CardinalityType
<1>5. Box(players) = Box(ps) \ {p}
  BY <1>2, <1>3, NoneDiffers
<1>6. /\ VoteCount(ps, v) = Cardinality(Box(ps))
      /\ VoteCount(players, v) = Cardinality(Box(players))
  BY <1>1, <1>2 DEF VoteCount
<1> HIDE DEF Box
<1>7. \/ Cardinality(Box(players)) = Cardinality(Box(ps))
      \/ Cardinality(Box(players)) = Cardinality(Box(ps)) - 1
  BY <1>4, <1>5, FS_RemoveElement
<1> QED
  BY <1>4, <1>6, <1>7

\* When it carries the ballot, the votes already in did not speak against it.
LEMMA CarriedBefore ==
  ASSUME Inv, phase \in {"LEADER_VOTE", "KICK_VOTE"}, NEW p \in Seated, NEW val \in Vals,
         NEW ps, ps = ProcessLeaderVote(p, val) \/ ps = ProcessKickVote(p, val),
         AllVoted(ps), Carried(ps)
  PROVE  VoteCount(players, "ok") >= VoteCount(players, "neka")
BY TallyBefore DEF Carried

\* No more votes are counted than there are players.
LEMMA VotesFit ==
  ASSUME NEW S, IsFiniteSet(S), NEW f \in [S -> Player]
  PROVE  VoteCount(f, "ok") + VoteCount(f, "neka") <= Cardinality(S)
<1> DEFINE yes == {q \in S : f[q].leaderVote = "ok"}
           no == {q \in S : f[q].leaderVote = "neka"}
<1>1. yes \cup no \subseteq S /\ yes \cap no = {}
  OBVIOUS
<1>2. VoteCount(f, "ok") = Cardinality(yes) /\ VoteCount(f, "neka") = Cardinality(no)
  BY DEF VoteCount
<1> HIDE DEF yes, no
<1>3. IsFiniteSet(yes) /\ IsFiniteSet(no)
  BY <1>1, FS_Subset
<1>4. Cardinality(yes \cup no) = Cardinality(yes) + Cardinality(no) - Cardinality(yes \cap no)
  BY <1>3, FS_Union
<1>5. Cardinality(yes \cap no) = 0
  BY <1>1, FS_EmptySet
<1>6. Cardinality(yes \cup no) <= Cardinality(S)
  BY <1>1, FS_Subset
<1>7. Cardinality(yes) \in Nat /\ Cardinality(no) \in Nat /\ Cardinality(S) \in Nat
  BY <1>3, FS_CardinalityType
<1> QED
  BY <1>2, <1>4, <1>5, <1>6, <1>7

\* When more than half of the players have voted OK, the ballot carries.
LEMMA MajorityBefore ==
  ASSUME Inv, phase \in {"LEADER_VOTE", "KICK_VOTE"}, NEW p \in Seated, NEW val \in Vals,
         NEW ps, ps = ProcessLeaderVote(p, val) \/ ps = ProcessKickVote(p, val),
         AllVoted(ps), OkMajority
  PROVE  Carried(ps)
<1>1. players \in [Seated -> Player]
  BY DEF Inv, TypeOK
<1>2. ps \in [Seated -> Player] /\ \A q \in Seated \ {p} : ps[q] = players[q]
  BY <1>1, ProcessedVote
<1>3. IsFiniteSet(Seated)
  BY SeatedFinite DEF Inv
<1>4. VoteCount(ps, "ok") + VoteCount(ps, "neka") <= Cardinality(Seated)
  BY <1>2, <1>3, VotesFit
<1>5. \A v \in {"ok", "neka"} : /\ VoteCount(ps, v) \in Nat
                                /\ VoteCount(players, v) \in Nat
                                /\ VoteCount(players, v) <= VoteCount(ps, v)
  BY TallyBefore
<1>6. VoteCount(ps, "ok") \in Nat /\ VoteCount(ps, "neka") \in Nat
  BY <1>5
<1>7. VoteCount(players, "ok") \in Nat /\ VoteCount(players, "ok") <= VoteCount(ps, "ok")
  BY <1>5
<1>8. Cardinality(Seated) \in Nat
  BY <1>3, FS_CardinalityType
<1> QED
  BY <1>4, <1>6, <1>7, <1>8 DEF OkMajority, Carried

\* An answer is the ballot of the player, or leaves the ballot as it was.
LEMMA BallotAfter ==
  ASSUME players \in [Seated -> Player], NEW p \in Seated, NEW val \in Vals,
         NEW ps, ps = ProcessLeaderVote(p, val) \/ ps = ProcessKickVote(p, val)
  PROVE  ps[p].leaderVote \in {"ok", "neka", players[p].leaderVote}
<1>1. players[p] \in Player
  OBVIOUS
<1>2. CASE ps = ProcessLeaderVote(p, val)
  BY <1>1, <1>2 DEF ProcessLeaderVote, Player
<1>3. CASE ps = ProcessKickVote(p, val)
  BY <1>1, <1>3 DEF ProcessKickVote, Player
<1> QED
  BY <1>2, <1>3

\* An answer that is recorded does not undo a majority, unless it takes an OK
\* back.
LEMMA MajorityKept ==
  ASSUME Inv, NEW p \in Seated, NEW val \in Vals,
         NEW ps, ps = ProcessLeaderVote(p, val) \/ ps = ProcessKickVote(p, val),
         players' = ps, OkMajority, ~TakesBack(p)
  PROVE  OkMajority'
<1> DEFINE Box(f) == {q \in Seated : f[q].leaderVote = "ok"}
<1>1. players \in [Seated -> Player]
  BY DEF Inv, TypeOK
<1>2. ps \in [Seated -> Player] /\ \A q \in Seated \ {p} : ps[q] = players[q]
  BY <1>1, ProcessedVote
<1>3. ps[p].leaderVote \in {"ok", "neka", players[p].leaderVote}
  BY <1>1, BallotAfter
<1>4. Box(players) \subseteq Box(ps) /\ Box(ps) \subseteq Seated
  BY <1>2, <1>3 DEF TakesBack
<1>5. Seated' = Seated /\ DOMAIN ps = Seated
  BY <1>2 DEF Seated
<1>6. VoteCount(players, "ok") = Cardinality(Box(players))
      /\ VoteCount(players', "ok") = Cardinality(Box(ps))
  BY <1>5 DEF VoteCount, Seated
<1> HIDE DEF Box
<1>7. IsFiniteSet(Seated)
  BY SeatedFinite DEF Inv
<1>8. IsFiniteSet(Box(ps)) /\ Cardinality(Box(players)) <= Cardinality(Box(ps))
  BY <1>4, <1>7, FS_Subset
<1>9. /\ Cardinality(Box(players)) \in Nat /\ Cardinality(Box(ps)) \in Nat
      /\ Cardinality(Seated) \in Nat
  BY <1>4, <1>7, <1>8, FS_Subset, FS_CardinalityType
<1> QED
  BY <1>5, <1>6, <1>8, <1>9 DEF OkMajority

\* There is no majority while no vote is open.
LEMMA MajorityIsOpen ==
  ASSUME Inv, OkMajority
  PROVE  phase \in {"LEADER_VOTE", "KICK_VOTE"}
<1> SUFFICES ASSUME phase \notin {"LEADER_VOTE", "KICK_VOTE"}
             PROVE  FALSE
  OBVIOUS
<1>1. \A q \in Seated : players[q].leaderVote = NONE_VOTE
  BY DEF Inv, PlayersFitThePhase
<1>2. {q \in Seated : players[q].leaderVote = "ok"} = {}
  BY <1>1, NoneDiffers
<1>3. VoteCount(players, "ok") = 0
  BY <1>2, FS_EmptySet DEF VoteCount, Seated
<1>4. Cardinality(Seated) \in Nat
  BY SeatedFinite, FS_CardinalityType DEF Inv
<1> QED
  BY <1>3, <1>4 DEF OkMajority

-----------------------------------------------------------------------------
(* What each section does to the players, to those awaited and to the leader *)

\* What is seen of the game when the phase, the players and the leader stay.
LEMMA RoundsStutter ==
  ASSUME UNCHANGED <<phase, players, leader>>
  PROVE  UNCHANGED Rounds!vars
BY DEF Rounds!vars, Awaited, Seated, Unvoted, Undecided

LEMMA RoundsAddPlayer ==
  ASSUME Inv, NEW p \in PlayerIds, AddPlayer(p)
  PROVE  Rounds!Join(p)
<1>1. /\ Seated' = Seated \cup {p}
      /\ p \notin Seated
      /\ players'[p] = NewPlayer
      /\ \A q \in Seated : players'[q] = players[q]
  BY DEF AddPlayer, Joined, Seated
<1>2. ~NewPlayer.votedLeader /\ ~NewPlayer.decisionMade
  BY DEF NewPlayer
<1>3. Unvoted' = Unvoted \cup {p} /\ Undecided' = Undecided \cup {p}
  BY <1>1, <1>2 DEF Unvoted, Undecided
<1>4. phase' = phase /\ leader' = leader
  BY DEF AddPlayer
<1> QED
  BY <1>1, <1>3, <1>4 DEF Rounds!Join, Awaited

\* A start keeps the answers given, and opens the leader vote.
LEMMA RoundsStartGame ==
  ASSUME Inv, StartGame
  PROVE  Rounds!Deal
<1>1. PICK ids \in Shuffles(Seated) : players' = Dealt(players, ids) /\ leader' = ids[1]
  BY DEF StartGame
<1>2. leader' \in Seated
  BY <1>1, FirstShuffled DEF StartGame, Inv
<1>3. players \in [Seated -> Player]
  BY DEF Inv, TypeOK
<1>4. /\ players' \in [Seated -> Player]
      /\ \A p \in Seated : /\ players'[p].votedLeader = players[p].votedLeader
                          /\ players'[p].leaderVote = players[p].leaderVote
                          /\ players'[p].decision = players[p].decision
                          /\ players'[p].decisionMade = players[p].decisionMade
  BY <1>1, <1>3, DealtMap
<1>5. Seated' = Seated
  BY <1>4 DEF Seated
<1>6. Unvoted' = Unvoted
  BY <1>4, <1>5 DEF Unvoted
<1>7. phase' = "LEADER_VOTE"
  BY DEF StartGame
<1>8. phase \notin {"LEADER_VOTE", "KICK_VOTE"} => Unvoted = Seated
  BY DEF Inv, PlayersFitThePhase, Unvoted
<1>9. phase \in {"LEADER_VOTE", "KICK_VOTE"} => Awaited = Unvoted
  BY DEF Awaited
<1>10. Awaited' = Unvoted'
  BY <1>7 DEF Awaited
<1> QED
  BY <1>2, <1>5, <1>6, <1>7, <1>8, <1>9, <1>10 DEF Rounds!Deal

\* An answer recorded while others are awaited: the one who gave it is awaited
\* no longer, if it was.
LEMMA RoundsAnswer ==
  ASSUME Inv, NEW p \in Seated, phase # "IDLE", UNCHANGED <<phase, leader>>,
         Seated' = Seated, Awaited' = Awaited \/ Awaited' = Awaited \ {p},
         Awaited' # {}
  PROVE  Rounds!Answer(p) \/ UNCHANGED Rounds!vars
<1>1. CASE p \in Awaited /\ Awaited' = Awaited \ {p}
  BY <1>1 DEF Rounds!Answer
<1>2. CASE Awaited' = Awaited
  BY <1>2 DEF Rounds!vars
<1> QED
  BY <1>1, <1>2

LEMMA RoundsLeaderVote ==
  ASSUME Inv, NEW p \in Seated, NEW val \in Vals, LeaderVote(p, val)
  PROVE  \/ Rounds!Answer(p)
         \/ Rounds!CloseLeaderVote(p)
         \/ UNCHANGED Rounds!vars
<1> DEFINE ps == ProcessLeaderVote(p, val)
<1>1. phase = "LEADER_VOTE" /\ Awaited = Unvoted
  BY DEF LeaderVote, Awaited
<1>2. ps \in [Seated -> Player] /\ (\A q \in Seated \ {p} : ps[q] = players[q])
      /\ ps[p].votedLeader /\ ps[p].decisionMade = players[p].decisionMade
  <2>1. players \in [Seated -> Player]
    BY DEF Inv, TypeOK
  <2> QED
    BY <2>1, ProcessedVote
<1>3. IF AllVoted(ps) THEN EvaluateLeaderVote(ps) ELSE Recorded(ps)
  BY DEF LeaderVote
<1>4. AllVoted(ps) => Unvoted = {p}
  BY <1>1, ClosingVote
<1> HIDE DEF ps
<1>5. CASE ~AllVoted(ps)
  <2>1. players' = ps /\ UNCHANGED <<phase, leader>>
    BY <1>3, <1>5 DEF Recorded
  <2>2. Seated' = Seated
    BY <1>2, <2>1 DEF Seated
  <2>3. Unvoted' = Unvoted \ {p}
    BY <1>2, <2>1, <2>2 DEF Unvoted
  <2>4. Unvoted' # {}
    BY <1>2, <1>5, <2>1, <2>2 DEF Unvoted, AllVoted
  <2>5. Awaited' = Unvoted'
    BY <1>1, <2>1 DEF Awaited
  <2> QED
    BY <1>1, <2>1, <2>2, <2>3, <2>4, <2>5, RoundsAnswer
<1>6. CASE AllVoted(ps)
  <2>1. players' = ClearBallot(ps)
    BY <1>3, <1>6 DEF EvaluateLeaderVote
  <2>2. \/ phase' = "MISSION" /\ leader' = leader
        \/ phase' = "LEADER_VOTE" /\ leader' \in NextLeaders(DOMAIN ps, leader)
    BY <1>3, <1>6 DEF EvaluateLeaderVote
  <2>3. players' \in [Seated -> Player] /\ Seated' = Seated
    <3>1. players' \in [Seated -> Player]
      BY <1>2, <2>1, ClearedBallot
    <3> QED
      BY <3>1 DEF Seated
  <2>4. \A q \in Seated : ~players'[q].votedLeader
    BY <1>2, <2>1, ClearedBallot
  <2>5. \A q \in Seated : players'[q].decisionMade = players[q].decisionMade
    <3>1. \A q \in Seated : players'[q].decisionMade = ps[q].decisionMade
      BY <1>2, <2>1, ClearedBallot
    <3> QED
      BY <1>2, <3>1
  <2>6. CASE phase' = "MISSION" /\ leader' = leader
    <3>1. Awaited' = Undecided'
      BY <2>6 DEF Awaited
    <3>2. Undecided' = Undecided
      BY <2>3, <2>5 DEF Undecided
    <3>3. Undecided # {} /\ Undecided \subseteq Seated
      BY <1>1 DEF Inv, SomeoneAwaited, Undecided
    <3>4. Awaited' \in (SUBSET Seated) \ {{}}
      BY <3>1, <3>2, <3>3
    <3>5. Awaited = {p}
      BY <1>1, <1>4, <1>6
    <3>6. Rounds!CloseLeaderVote(p)
      BY <1>1, <2>3, <2>6, <3>4, <3>5 DEF Rounds!CloseLeaderVote
    <3> QED
      BY <3>6
  <2>7. CASE phase' = "LEADER_VOTE" /\ leader' \in NextLeaders(DOMAIN ps, leader)
    <3>1. Awaited' = Seated
      BY <2>3, <2>4, <2>7 DEF Awaited, Unvoted
    <3>2. Rounds!Passes(Seated)
      BY <1>2, <2>7 DEF NextLeaders, Rounds!Passes
    <3> QED
      BY <1>1, <1>4, <1>6, <2>3, <2>7, <3>1, <3>2 DEF Rounds!CloseLeaderVote
  <2> QED
    BY <2>2, <2>6, <2>7
<1> QED
  BY <1>5, <1>6

LEMMA RoundsMissionDecision ==
  ASSUME Inv, NEW p \in Seated, NEW val \in Vals, MissionDecision(p, val)
  PROVE  \/ Rounds!Answer(p)
         \/ Rounds!CloseMission(p)
         \/ UNCHANGED Rounds!vars
<1> DEFINE ps == ProcessMissionDecision(p, val)
<1>1. phase = "MISSION" /\ Awaited = Undecided
  BY DEF MissionDecision, Awaited
<1>2. players \in [Seated -> Player]
  BY DEF Inv, TypeOK
<1>3. /\ ps \in [Seated -> Player]
      /\ \A q \in Seated : ps[q] # players[q] => ps[q].decisionMade /\ ps[q].decision # NONE_DECISION
      /\ \A q \in Seated : /\ ps[q].team = players[q].team
                          /\ ps[q].leaderVote = players[q].leaderVote
                          /\ ps[q].votedLeader = players[q].votedLeader
  BY <1>2, ProcessedDecision
<1>4. \A q \in Seated \ {p} : ps[q] = players[q]
  BY <1>2 DEF ProcessMissionDecision
<1>5. IF AllHaveDecision(ps) THEN EvaluateMission(ps) ELSE Recorded(ps)
  BY DEF MissionDecision
<1> HIDE DEF ps
<1>6. CASE ~AllHaveDecision(ps)
  <2>1. players' = ps /\ UNCHANGED <<phase, leader>>
    BY <1>5, <1>6 DEF Recorded
  <2>2. Seated' = Seated
    BY <1>3, <2>1 DEF Seated
  <2>3. Undecided' = Undecided \/ Undecided' = Undecided \ {p}
    <3>1. CASE ps[p] = players[p]
      BY <1>4, <2>1, <2>2, <3>1 DEF Undecided
    <3>2. CASE ps[p] # players[p]
      BY <1>3, <1>4, <2>1, <2>2, <3>2 DEF Undecided
    <3> QED
      BY <3>1, <3>2
  <2>4. Undecided' # {}
    BY <1>3, <1>6, <2>1, <2>2 DEF Undecided, AllHaveDecision
  <2>5. Awaited' = Undecided'
    BY <1>1, <2>1 DEF Awaited
  <2> QED
    BY <1>1, <2>1, <2>2, <2>3, <2>4, <2>5, RoundsAnswer
<1>7. CASE AllHaveDecision(ps)
  <2>1. Undecided \subseteq {p}
    BY <1>3, <1>4, <1>7 DEF AllHaveDecision, Undecided
  <2>2. Undecided # {}
    BY <1>1 DEF Inv, SomeoneAwaited
  <2>3. players' = ClearDecisions(ps) /\ phase' = "KICK_VOTE" /\ leader' = leader
    BY <1>5, <1>7 DEF EvaluateMission
  <2>4. players' \in [Seated -> Player]
    BY <1>3, <2>3, ClearedDecisions
  <2>5. Seated' = Seated
    BY <2>4 DEF Seated
  <2>6. \A q \in Seated : players'[q].votedLeader = players[q].votedLeader
    <3>1. \A q \in Seated : players'[q].votedLeader = ps[q].votedLeader
      BY <1>3, <2>3, ClearedDecisions
    <3> QED
      BY <1>3, <3>1
  <2>7. Unvoted = Seated
    BY <1>1 DEF Inv, PlayersFitThePhase, Unvoted
  <2>8. Awaited' = Seated
    BY <2>3, <2>5, <2>6, <2>7 DEF Awaited, Unvoted
  <2> QED
    BY <1>1, <2>1, <2>2, <2>3, <2>5, <2>8 DEF Rounds!CloseMission
<1> QED
  BY <1>6, <1>7

LEMMA RoundsKickVote ==
  ASSUME Inv, NEW p \in Seated, NEW val \in Vals, KickVote(p, val)
  PROVE  \/ Rounds!Answer(p)
         \/ Rounds!CloseKickVote(p)
         \/ UNCHANGED Rounds!vars
<1> DEFINE ps == ProcessKickVote(p, val)
<1>1. phase = "KICK_VOTE" /\ Awaited = Unvoted
  BY DEF KickVote, Awaited
<1>2. ps \in [Seated -> Player] /\ (\A q \in Seated \ {p} : ps[q] = players[q])
      /\ ps[p].votedLeader
  <2>1. players \in [Seated -> Player]
    BY DEF Inv, TypeOK
  <2> QED
    BY <2>1, ProcessedVote
<1>3. IF AllVoted(ps) THEN EvaluateKickVote(ps) ELSE Recorded(ps)
  BY DEF KickVote
<1>4. AllVoted(ps) => Unvoted = {p}
  BY <1>1, ClosingVote
<1> HIDE DEF ps
<1>5. CASE ~AllVoted(ps)
  <2>1. players' = ps /\ UNCHANGED <<phase, leader>>
    BY <1>3, <1>5 DEF Recorded
  <2>2. Seated' = Seated
    BY <1>2, <2>1 DEF Seated
  <2>3. Unvoted' = Unvoted \ {p}
    BY <1>2, <2>1, <2>2 DEF Unvoted
  <2>4. Unvoted' # {}
    BY <1>2, <1>5, <2>1, <2>2 DEF Unvoted, AllVoted
  <2>5. Awaited' = Unvoted'
    BY <1>1, <2>1 DEF Awaited
  <2> QED
    BY <1>1, <2>1, <2>2, <2>3, <2>4, <2>5, RoundsAnswer
<1>6. CASE AllVoted(ps)
  <2> DEFINE left == IF Carried(ps) THEN Without(ClearBallot(ps), leader)
                                    ELSE ClearBallot(ps)
             stay == IF Carried(ps) THEN Seated \ {leader} ELSE Seated
  <2>1. /\ players' = left
        /\ leader' \in NextLeaders(DOMAIN left, leader)
        /\ phase' = "LEADER_VOTE"
    BY <1>3, <1>6 DEF EvaluateKickVote
  <2>2. left \in [stay -> Player]
    <3>1. ClearBallot(ps) \in [Seated -> Player]
      BY <1>2, ClearedBallot
    <3>2. Without(ClearBallot(ps), leader) \in [Seated \ {leader} -> Player]
      BY <3>1, WithoutOne
    <3> QED
      BY <3>1, <3>2
  <2>3. \A q \in stay : ~left[q].votedLeader
    <3>1. ClearBallot(ps) \in [Seated -> Player]
      BY <1>2, ClearedBallot
    <3>2. \A q \in Seated : ~ClearBallot(ps)[q].votedLeader
      BY <1>2, ClearedBallot
    <3> QED
      BY <3>1, <3>2 DEF Without
  <2>4. stay \in {Seated, Seated \ {leader}}
    OBVIOUS
  <2> HIDE DEF left, stay
  <2>5. Seated' = stay /\ DOMAIN left = stay
    BY <2>1, <2>2 DEF Seated
  <2>6. Awaited' = stay
    BY <2>1, <2>3, <2>5 DEF Awaited, Unvoted
  <2>7. Rounds!Passes(stay)
    BY <2>1, <2>5 DEF NextLeaders, Rounds!Passes
  <2>8. Awaited = {p}
    BY <1>1, <1>4, <1>6
  <2>9. Rounds!CloseKickVote(p)
    BY <1>1, <2>1, <2>4, <2>5, <2>6, <2>7, <2>8 DEF Rounds!CloseKickVote
  <2> QED
    BY <2>9
<1> QED
  BY <1>5, <1>6

LEMMA RoundsNext == Inv /\ [Next]_vars => [Rounds!Next]_(Rounds!vars)
<1> SUFFICES ASSUME Inv, [Next]_vars
             PROVE  Rounds!Next \/ UNCHANGED Rounds!vars
  OBVIOUS
<1>1. CASE \E p \in PlayerIds : AddPlayer(p)
  BY <1>1, RoundsAddPlayer DEF Rounds!Next
<1>2. CASE StartGame
  BY <1>2, RoundsStartGame DEF Rounds!Next
<1>3. ASSUME NEW p \in PlayerIds, NEW val \in Vals, Uplink(p, val)
      PROVE  Rounds!Next \/ UNCHANGED Rounds!vars
  <2>1. p \in Seated
    BY <1>3 DEF Uplink
  <2>2. CASE Ignored
    BY <2>2, RoundsStutter DEF Ignored
  <2> QED
    BY <1>3, <2>1, <2>2, RoundsLeaderVote, RoundsMissionDecision, RoundsKickVote
    DEF Uplink, Rounds!Next
<1>4. CASE AssignClient \/ (\E p \in PlayerIds : AddDuplicate(p)) \/ StartTooFew
           \/ UNCHANGED vars
  <2>1. UNCHANGED <<phase, players, leader>>
    BY <1>4 DEF AssignClient, AddDuplicate, StartTooFew, vars
  <2> QED
    BY <2>1, RoundsStutter
<1> QED
  BY <1>1, <1>2, <1>3, <1>4 DEF Next

\* The handlers implement the rounds of GameRounds: a question is closed by
\* its last answer and by nothing else, and closing it opens the next one.
THEOREM Refinement == Spec => ImplementsRounds
<1>1. Init => Rounds!Init
  BY DEF Init, Rounds!Init, Awaited, Seated
<1> QED
  BY <1>1, Invariance, RoundsNext, PTL DEF Spec, ImplementsRounds, Rounds!Spec

-----------------------------------------------------------------------------
(* Who leaves, and when a mission begins *)

\* The vote that closes a kick vote is the only step that takes a player out,
\* and the vote that closes a leader vote the only one that begins a mission;
\* neither turns what is decided.
LEMMA OutcomeUplink ==
  ASSUME Inv, NEW p \in Seated, NEW val \in Vals,
         LeaderVote(p, val) \/ MissionDecision(p, val) \/ KickVote(p, val) \/ Ignored
  PROVE  KickedByVote /\ ApprovedByVote /\ MajorityStands
<1>1. CASE LeaderVote(p, val)
  <2> DEFINE ps == ProcessLeaderVote(p, val)
  <2>1. phase = "LEADER_VOTE" /\ IF AllVoted(ps) THEN EvaluateLeaderVote(ps) ELSE Recorded(ps)
    BY <1>1 DEF LeaderVote
  <2>2. ps \in [Seated -> Player]
    <3>1. players \in [Seated -> Player]
      BY DEF Inv, TypeOK
    <3> QED
      BY <3>1, ProcessedVote
  <2>3. AllVoted(ps) => Unvoted = {p}
    BY <2>1, ClosingVote
  <2>4. AllVoted(ps) /\ Carried(ps) => VoteCount(players, "ok") >= VoteCount(players, "neka")
    BY <2>1, CarriedBefore
  <2>5. AllVoted(ps) /\ OkMajority => Carried(ps)
    BY <2>1, MajorityBefore
  <2>10. players' = ps /\ OkMajority /\ ~TakesBack(p) => OkMajority'
    BY MajorityKept
  <2> HIDE DEF ps
  <2>6. Seated' = Seated
    BY <2>1, <2>2 DEF EvaluateLeaderVote, Recorded, ClearBallot, Seated
  <2>7. phase' = "MISSION" => AllVoted(ps) /\ Carried(ps)
    BY <2>1 DEF EvaluateLeaderVote, Recorded
  <2>8. ~(AllVoted(ps) /\ ~Carried(ps)) => leader' = leader
    BY <2>1 DEF EvaluateLeaderVote, Recorded
  <2>9. MajorityStands
    <3>1. CASE AllVoted(ps) /\ Carried(ps)
      BY <2>1, <2>8, <3>1 DEF EvaluateLeaderVote, MajorityStands, ClosesInFavour
    <3>2. CASE ~AllVoted(ps)
      BY <2>1, <2>10, <3>2 DEF Recorded, MajorityStands
    <3> QED
      BY <2>5, <3>1, <3>2 DEF MajorityStands
  <2> QED
    BY <2>3, <2>4, <2>6, <2>7, <2>9, FS_Singleton DEF KickedByVote, ApprovedByVote
<1>2. CASE MissionDecision(p, val)
  <2> DEFINE ps == ProcessMissionDecision(p, val)
  <2>1. phase = "MISSION" /\ IF AllHaveDecision(ps) THEN EvaluateMission(ps) ELSE Recorded(ps)
    BY <1>2 DEF MissionDecision
  <2>2. ps \in [Seated -> Player]
    <3>1. players \in [Seated -> Player]
      BY DEF Inv, TypeOK
    <3> QED
      BY <3>1, ProcessedDecision
  <2> HIDE DEF ps
  <2>3. Seated' = Seated
    BY <2>1, <2>2 DEF EvaluateMission, Recorded, ClearDecisions, Seated
  <2>4. ~OkMajority
    BY <2>1, MajorityIsOpen
  <2> QED
    BY <2>1, <2>3, <2>4 DEF KickedByVote, ApprovedByVote, MajorityStands
<1>3. CASE KickVote(p, val)
  <2> DEFINE ps == ProcessKickVote(p, val)
  <2>1. phase = "KICK_VOTE" /\ IF AllVoted(ps) THEN EvaluateKickVote(ps) ELSE Recorded(ps)
    BY <1>3 DEF KickVote
  <2>2. ps \in [Seated -> Player]
    <3>1. players \in [Seated -> Player]
      BY DEF Inv, TypeOK
    <3> QED
      BY <3>1, ProcessedVote
  <2>3. AllVoted(ps) => Unvoted = {p}
    BY <2>1, ClosingVote
  <2>4. AllVoted(ps) /\ Carried(ps) => VoteCount(players, "ok") >= VoteCount(players, "neka")
    BY <2>1, CarriedBefore
  <2>5. AllVoted(ps) /\ OkMajority => Carried(ps)
    BY <2>1, MajorityBefore
  <2>10. players' = ps /\ OkMajority /\ ~TakesBack(p) => OkMajority'
    BY MajorityKept
  <2> HIDE DEF ps
  <2>6. CASE AllVoted(ps) /\ Carried(ps)
    <3>1. players' = Without(ClearBallot(ps), leader)
      BY <2>1, <2>6 DEF EvaluateKickVote
    <3>2. Seated' = Seated \ {leader}
      BY <2>2, <3>1 DEF Without, ClearBallot, Seated
    <3>3. MajorityStands
      BY <2>1, <2>6, <3>2 DEF EvaluateKickVote, MajorityStands, ClosesInFavour
    <3> QED
      BY <2>1, <2>3, <2>4, <2>6, <3>2, <3>3, FS_Singleton DEF KickedByVote, ApprovedByVote
  <2>7. CASE ~(AllVoted(ps) /\ Carried(ps))
    <3>1. players' = ClearBallot(ps) \/ players' = ps
      BY <2>1, <2>7 DEF EvaluateKickVote, Recorded
    <3>2. Seated' = Seated
      BY <2>2, <3>1 DEF ClearBallot, Seated
    <3>3. MajorityStands
      BY <2>1, <2>5, <2>7, <2>10 DEF Recorded, MajorityStands
    <3> QED
      BY <2>1, <3>2, <3>3 DEF KickedByVote, ApprovedByVote
  <2> QED
    BY <2>6, <2>7
<1>4. CASE Ignored
  <2>1. ~OkMajority
    BY <1>4, MajorityIsOpen DEF Ignored
  <2> QED
    BY <1>4, <2>1 DEF Ignored, KickedByVote, ApprovedByVote, MajorityStands, Seated
<1> QED
  BY <1>1, <1>2, <1>3, <1>4

LEMMA OutcomeNext ==
  Inv /\ [Next]_vars => [KickedByVote /\ ApprovedByVote /\ MajorityStands]_vars
<1> SUFFICES ASSUME Inv, Next
             PROVE  KickedByVote /\ ApprovedByVote /\ MajorityStands
  OBVIOUS
<1>1. CASE \E p \in PlayerIds, val \in Vals : Uplink(p, val)
  BY <1>1, OutcomeUplink DEF Uplink
<1>2. CASE \E p \in PlayerIds : AddPlayer(p)
  <2>1. Seated \subseteq Seated' /\ Seated' # Seated /\ phase' = phase /\ leader' = leader
    BY <1>2 DEF AddPlayer, Joined, Seated
  <2> QED
    BY <2>1 DEF KickedByVote, ApprovedByVote, MajorityStands
<1>3. CASE StartGame
  <2>1. Seated' = Seated /\ phase' = "LEADER_VOTE"
    BY <1>3, RoundsStartGame DEF Rounds!Deal
  <2>2. Restarts
    BY <1>3 DEF StartGame, Restarts, Said, GameStartMsg, Msg
  <2> QED
    BY <2>1, <2>2 DEF KickedByVote, ApprovedByVote, MajorityStands
<1>4. CASE AssignClient \/ (\E p \in PlayerIds : AddDuplicate(p)) \/ StartTooFew
  <2>1. UNCHANGED <<players, phase, leader>>
    BY <1>4 DEF AssignClient, AddDuplicate, StartTooFew
  <2> QED
    BY <2>1 DEF KickedByVote, ApprovedByVote, MajorityStands, OkMajority, Seated
<1> QED
  BY <1>1, <1>2, <1>3, <1>4 DEF Next

\* Only the leader is ever taken out of the game, by a kick vote that misses a
\* single vote and does not speak against it.
THEOREM KicksNeedAVote == Spec => OnlyTheLeaderIsKicked
<1>1. Inv /\ [Next]_vars => [KickedByVote]_vars
  BY OutcomeNext
<1> QED
  BY <1>1, Invariance, PTL DEF Spec, OnlyTheLeaderIsKicked

\* A mission begins only from a leader vote that misses a single vote and does
\* not speak against the leader.
THEOREM MissionsNeedAVote == Spec => MissionNeedsApproval
<1>1. Inv /\ [Next]_vars => [ApprovedByVote]_vars
  BY OutcomeNext
<1> QED
  BY <1>1, Invariance, PTL DEF Spec, MissionNeedsApproval

\* An OK of more than half of the players stands until it has carried, unless
\* one of them takes it back, somebody joins or the game is started again.
THEOREM MajoritiesCarry == Spec => MajorityCarries
<1>1. Inv /\ [Next]_vars => [MajorityStands]_vars
  BY OutcomeNext
<1> QED
  BY <1>1, Invariance, PTL DEF Spec, MajorityCarries

=============================================================================
