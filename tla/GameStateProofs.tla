--------------------------- MODULE GameStateProofs ---------------------------
(***************************************************************************)
(* Proofs about GameState, for every set of players and either build.      *)
(***************************************************************************)
EXTENDS GameState, FiniteSetTheorems, TLAPS

\* The inductive invariant: each part needs the others.  SomeoneAwaited needs
\* PlayersFitThePhase to know that a new question finds the box empty, and
\* LeaderIsSeated needs it to know that the first deal makes the leader.
Inv == TypeOK /\ PlayersFitThePhase /\ SomeoneAwaited /\ LeaderIsSeated

-----------------------------------------------------------------------------
(* What the helpers return *)

\* The zero values are no votes and no decisions.
LEMMA NoneDiffers ==
  /\ NONE_VOTE # "ok" /\ NONE_VOTE # "neka"
  /\ NONE_DECISION # "lyckas" /\ NONE_DECISION # "sabotera"
BY DEF NONE_VOTE, NONE_DECISION

\* A deal gives teams only.
LEMMA DealtTeamType ==
  ASSUME NEW i, NEW n, NEW current \in Teams
  PROVE  DealtTeam(i, n, current) \in Teams
BY DEF DealtTeam, Teams

\* The next leader is one of the players, unless nobody is left.
LEMMA NextLeaderSeated ==
  ASSUME NEW ids, NEW current, NEW l \in NextLeaders(ids, current)
  PROVE  /\ ids # {} => l \in ids
         /\ ids = {} => l = current
BY DEF NextLeaders

\* Processing an answer keeps the keys and changes one player only, whose
\* team stays, and whose vote or decision is in the box afterwards.
LEMMA ProcessedVote ==
  ASSUME NEW S, players \in [S -> Player], NEW p \in S, NEW val \in Vals,
         NEW ps, ps = ProcessLeaderVote(p, val) \/ ps = ProcessKickVote(p, val)
  PROVE  /\ ps \in [S -> Player]
         /\ \A q \in S \ {p} : ps[q] = players[q]
         /\ ps[p].votedLeader
         /\ ps[p].team = players[p].team
         /\ ps[p].decision = players[p].decision
         /\ ps[p].decisionMade = players[p].decisionMade
<1> DEFINE marked == [players[p] EXCEPT !.votedLeader = TRUE]
           ok == [marked EXCEPT !.leaderVote = "ok"]
           neka == [marked EXCEPT !.leaderVote = "neka"]
           approved == [ok EXCEPT !.voted_ok = TRUE]
           refused == [neka EXCEPT !.voted_ok = FALSE]
<1>1. players[p] \in Player
  OBVIOUS
<1>2. \A r \in {marked, ok, neka, approved, refused} :
        /\ r \in Player
        /\ r.votedLeader
        /\ r.team = players[p].team
        /\ r.decision = players[p].decision
        /\ r.decisionMade = players[p].decisionMade
  BY <1>1 DEF Player, Votes
<1>3. \E r \in {marked, ok, neka, approved, refused} : ps = [players EXCEPT ![p] = r]
  <2>1. CASE ps = ProcessLeaderVote(p, val)
    BY <1>1, <2>1 DEF ProcessLeaderVote, Player
  <2>2. CASE ps = ProcessKickVote(p, val)
    BY <1>1, <2>2 DEF ProcessKickVote, Player
  <2> QED
    BY <2>1, <2>2
<1> QED
  BY <1>2, <1>3

LEMMA ProcessedDecision ==
  ASSUME players \in [Seated -> Player], NEW p \in Seated, NEW val \in Vals,
         NEW ps, ps = ProcessMissionDecision(p, val)
  PROVE  /\ ps \in [Seated -> Player]
         /\ \A q \in Seated : ps[q] # players[q] => ps[q].decisionMade /\ ps[q].decision # NONE_DECISION
         /\ \A q \in Seated : /\ ps[q].team = players[q].team
                             /\ ps[q].leaderVote = players[q].leaderVote
                             /\ ps[q].votedLeader = players[q].votedLeader
<1> DEFINE decided == [players[p] EXCEPT !.decision = val, !.decisionMade = TRUE]
<1>1. players[p] \in Player
  OBVIOUS
<1>2. CASE val \in {"lyckas", "sabotera"}
  <2>1. /\ decided \in Player
        /\ decided.decisionMade
        /\ decided.decision # NONE_DECISION
        /\ decided.team = players[p].team
        /\ decided.leaderVote = players[p].leaderVote
        /\ decided.votedLeader = players[p].votedLeader
    <3>1. val \in Decisions /\ val # NONE_DECISION
      BY <1>2, NoneDiffers DEF Decisions
    <3>2. decided \in Player
      BY <1>1, <3>1, Zenon DEF Player
    <3>3. decided.decisionMade
      BY <1>1 DEF Player
    <3> QED
      BY <1>1, <3>1, <3>2, <3>3 DEF Player
  <2>2. ps = [players EXCEPT ![p] = decided]
    BY <1>2 DEF ProcessMissionDecision
  <2> QED
    BY <2>1, <2>2
<1>3. CASE val \notin {"lyckas", "sabotera"}
  BY <1>3 DEF ProcessMissionDecision
<1> QED
  BY <1>2, <1>3

\* Emptying the ballot takes the votes away and leaves teams and decisions.
LEMMA ClearedBallot ==
  ASSUME NEW S, NEW ps \in [S -> Player]
  PROVE  /\ ClearBallot(ps) \in [S -> Player]
         /\ \A q \in S : /\ ~ClearBallot(ps)[q].votedLeader
                         /\ ClearBallot(ps)[q].leaderVote = NONE_VOTE
                         /\ ClearBallot(ps)[q].team = ps[q].team
                         /\ ClearBallot(ps)[q].decision = ps[q].decision
                         /\ ClearBallot(ps)[q].decisionMade = ps[q].decisionMade
<1> DEFINE r(q) == [ps[q] EXCEPT !.votedLeader = FALSE, !.leaderVote = NONE_VOTE]
<1>1. ASSUME NEW q \in S
      PROVE  /\ r(q) \in Player
             /\ ~r(q).votedLeader
             /\ r(q).leaderVote = NONE_VOTE
             /\ r(q).team = ps[q].team
             /\ r(q).decision = ps[q].decision
             /\ r(q).decisionMade = ps[q].decisionMade
  <2>1. ps[q] \in Player
    OBVIOUS
  <2>2. NONE_VOTE \in Votes
    BY DEF Votes
  <2>3. r(q) \in Player
    BY <2>1, <2>2, Zenon DEF Player
  <2>4. ~r(q).votedLeader
    BY <2>1 DEF Player
  <2> QED
    BY <2>1, <2>3, <2>4 DEF Player
<1>2. ClearBallot(ps) = [q \in S |-> r(q)]
  BY DEF ClearBallot
<1> HIDE DEF r
<1> QED
  BY <1>1, <1>2

\* Clearing the decisions leaves teams and votes.
LEMMA ClearedDecisions ==
  ASSUME NEW S, NEW ps \in [S -> Player]
  PROVE  /\ ClearDecisions(ps) \in [S -> Player]
         /\ \A q \in S : /\ ~ClearDecisions(ps)[q].decisionMade
                         /\ ClearDecisions(ps)[q].decision = NONE_DECISION
                         /\ ClearDecisions(ps)[q].team = ps[q].team
                         /\ ClearDecisions(ps)[q].leaderVote = ps[q].leaderVote
                         /\ ClearDecisions(ps)[q].votedLeader = ps[q].votedLeader
<1> DEFINE r(q) == [ps[q] EXCEPT !.decisionMade = FALSE, !.decision = NONE_DECISION]
<1>1. ASSUME NEW q \in S
      PROVE  /\ r(q) \in Player
             /\ ~r(q).decisionMade
             /\ r(q).decision = NONE_DECISION
             /\ r(q).team = ps[q].team
             /\ r(q).leaderVote = ps[q].leaderVote
             /\ r(q).votedLeader = ps[q].votedLeader
  <2>1. ps[q] \in Player
    OBVIOUS
  <2>2. NONE_DECISION \in Decisions
    BY DEF Decisions
  <2>3. r(q) \in Player
    BY <2>1, <2>2, Zenon DEF Player
  <2>4. ~r(q).decisionMade
    BY <2>1 DEF Player
  <2> QED
    BY <2>1, <2>3, <2>4 DEF Player
<1>2. ClearDecisions(ps) = [q \in S |-> r(q)]
  BY DEF ClearDecisions
<1> HIDE DEF r
<1> QED
  BY <1>1, <1>2

\* Deleting a name from the map leaves the others as they are.
LEMMA WithoutOne ==
  ASSUME NEW S, NEW ps \in [S -> Player], NEW p
  PROVE  /\ Without(ps, p) \in [S \ {p} -> Player]
         /\ \A q \in S \ {p} : Without(ps, p)[q] = ps[q]
BY DEF Without

\* A deal changes teams only.
LEMMA DealtMap ==
  ASSUME NEW S, NEW ps \in [S -> Player], NEW ids
  PROVE  /\ Dealt(ps, ids) \in [S -> Player]
         /\ \A p \in S : /\ Dealt(ps, ids)[p].votedLeader = ps[p].votedLeader
                         /\ Dealt(ps, ids)[p].leaderVote = ps[p].leaderVote
                         /\ Dealt(ps, ids)[p].decision = ps[p].decision
                         /\ Dealt(ps, ids)[p].decisionMade = ps[p].decisionMade
<1> DEFINE n == Cardinality(DOMAIN ps)
           place(p) == CHOOSE i \in 1..n : ids[i] = p
<1>1. \A p \in S : DealtTeam(place(p), n, ps[p].team) \in Teams
  BY DealtTeamType DEF Player
<1>2. Dealt(ps, ids) = [p \in S |-> [ps[p] EXCEPT !.team = DealtTeam(place(p), n, @)]]
  BY DEF Dealt
<1> HIDE DEF n, place
<1> QED
  BY <1>1, <1>2 DEF Player

\* Messages are announcements, and lists of them sequences of announcements.
LEMMA MsgType ==
  ASSUME NEW typ \in Types, NEW about, about \subseteq PlayerIds \cup {NoPlayer}
  PROVE  Msg(typ, about) \in Announcement
BY DEF Msg, Announcement

LEMMA AnnouncedType ==
  /\ <<>> \in Seq(Announcement)
  /\ \A a, b, c \in Announcement :
       /\ <<a>> \in Seq(Announcement)
       /\ <<a, b>> \in Seq(Announcement)
       /\ <<a, b, c>> \in Seq(Announcement)
OBVIOUS

LEMMA SeatedFinite ==
  ASSUME TypeOK
  PROVE  /\ IsFiniteSet(Seated)
         /\ Cardinality(Seated) \in Nat
         /\ Cardinality(Seated) = 0 <=> Seated = {}
BY PlayerIdsFinite, FS_Subset, FS_CardinalityType, FS_EmptySet DEF TypeOK

\* The first of the shuffled players, who will lead, is one of them.
LEMMA FirstShuffled ==
  ASSUME TypeOK, Cardinality(Seated) >= 1, NEW ids \in Shuffles(Seated)
  PROVE  ids[1] \in Seated
<1>1. 1 \in 1..Cardinality(Seated)
  BY SeatedFinite
<1>2. ids \in [1..Cardinality(Seated) -> Seated]
  BY DEF Shuffles, Bijection, Injection
<1> QED
  BY <1>1, <1>2

-----------------------------------------------------------------------------
(* The inductive invariant holds at first and is kept by every action *)

LEMMA InvInit == Init => Inv
<1> SUFFICES ASSUME Init PROVE Inv
  OBVIOUS
<1>1. Seated = {}
  BY DEF Init, Seated
<1>2. players \in [Seated -> Player]
  BY <1>1 DEF Init, Seated
<1>3. lockLost \in BOOLEAN
  BY DEF Init
<1>4. TypeOK
  BY <1>1, <1>2, <1>3, AnnouncedType DEF Init, TypeOK, Phases
<1> QED
  BY <1>1, <1>4 DEF Init, Inv, PlayersFitThePhase, SomeoneAwaited, LeaderIsSeated

LEMMA InvAssignClient ==
  ASSUME Inv, AssignClient
  PROVE  Inv'
BY DEF Inv, AssignClient, counters, TypeOK, PlayersFitThePhase, SomeoneAwaited,
       LeaderIsSeated, Seated, Unvoted, Undecided

LEMMA InvAddPlayer ==
  ASSUME Inv, NEW p \in PlayerIds, AddPlayer(p)
  PROVE  Inv'
<1> USE DEF AddPlayer, counters
<1>1. /\ NewPlayer \in Player
      /\ ~NewPlayer.votedLeader
      /\ ~NewPlayer.decisionMade
      /\ NewPlayer.leaderVote = NONE_VOTE
      /\ NewPlayer.decision = NONE_DECISION
      /\ NewPlayer.team = "NOTEAM"
  BY DEF NewPlayer, Player, Teams, Votes, Decisions
<1>2. /\ Seated' = Seated \cup {p}
      /\ players' \in [Seated' -> Player]
      /\ players'[p] = NewPlayer
      /\ \A q \in Seated : players'[q] = players[q]
  BY <1>1 DEF Joined, Seated, Inv, TypeOK
<1>3. announced' \in Seq(Announcement)
  <2>1. Msg("DEBUG_NEW_PLAYER_JOINED", {}) \in Announcement
    BY MsgType DEF Types
  <2> QED
    BY <2>1, AnnouncedType
<1>4. TypeOK'
  BY <1>2, <1>3 DEF Inv, TypeOK
<1>5. PlayersFitThePhase'
  BY <1>1, <1>2 DEF Inv, PlayersFitThePhase
<1>6. SomeoneAwaited'
  BY <1>1, <1>2 DEF SomeoneAwaited, Unvoted, Undecided
<1>7. LeaderIsSeated'
  BY <1>1, <1>2 DEF Inv, LeaderIsSeated
<1> QED
  BY <1>4, <1>5, <1>6, <1>7 DEF Inv

\* A section that only loses the lock leaves the game as it is.
LEMMA InvLockLost ==
  ASSUME Inv, UNCHANGED <<phase, players, leader, counters, mqttClient>>,
         announced' = <<>>, lockLost'
  PROVE  Inv'
<1>1. TypeOK'
  BY DEF Inv, counters, TypeOK, Seated
<1> QED
  BY <1>1 DEF Inv, PlayersFitThePhase, SomeoneAwaited, LeaderIsSeated, Seated,
              Unvoted, Undecided

\* A start from any phase: the answers already given stay, and the phase they
\* were given in says that somebody still owes one.
LEMMA InvStartGame ==
  ASSUME Inv, StartGame
  PROVE  Inv'
<1>1. PICK ids \in Shuffles(Seated) :
        /\ players' = Dealt(players, ids)
        /\ leader' = ids[1]
        /\ announced' = <<GameStartMsg, LeaderMsg(ids[1])>>
  BY DEF StartGame
<1>2. leader' \in Seated
  BY <1>1, FirstShuffled DEF StartGame, Inv
<1>3. Seated # {}
  BY <1>2
<1>4. /\ players' \in [Seated -> Player]
      /\ \A p \in Seated : /\ players'[p].votedLeader = players[p].votedLeader
                          /\ players'[p].leaderVote = players[p].leaderVote
                          /\ players'[p].decision = players[p].decision
                          /\ players'[p].decisionMade = players[p].decisionMade
  <2>1. players \in [Seated -> Player]
    BY DEF Inv, TypeOK
  <2>2. players' = Dealt(players, ids)
    BY <1>1
  <2>3. players' \in [Seated -> Player]
    BY <2>1, <2>2, DealtMap
  <2>4. \A p \in Seated : /\ players'[p].votedLeader = players[p].votedLeader
                         /\ players'[p].leaderVote = players[p].leaderVote
                         /\ players'[p].decision = players[p].decision
                         /\ players'[p].decisionMade = players[p].decisionMade
    BY <2>1, <2>2, DealtMap
  <2> QED
    BY <2>3, <2>4
<1>5. Seated' = Seated
  BY <1>4 DEF Seated
<1>6. announced' \in Seq(Announcement)
  <2>1. GameStartMsg \in Announcement
    BY MsgType DEF GameStartMsg, Types
  <2>2. LeaderMsg(ids[1]) \in Announcement
    BY <1>1, <1>2, MsgType DEF LeaderMsg, Types, Inv, TypeOK
  <2> QED
    BY <1>1, <2>1, <2>2, AnnouncedType
<1>7. TypeOK'
  <2>1. lockLost' \in BOOLEAN /\ mqttClient' \in {"nil", "set"}
    BY DEF StartGame, Inv, TypeOK
  <2>2. leader' \in PlayerIds
    BY <1>2 DEF Inv, TypeOK
  <2>3. /\ phase' = "LEADER_VOTE"
        /\ round' = 1
        /\ successCount' = 0
        /\ failureCount' = 0
    BY DEF StartGame
  <2> QED
    BY <1>4, <1>5, <1>6, <2>1, <2>2, <2>3 DEF Inv, TypeOK, Phases
<1>8. PlayersFitThePhase'
  BY <1>4, <1>5 DEF StartGame, Inv, PlayersFitThePhase
<1>9. SomeoneAwaited'
  BY <1>3, <1>4, <1>5
  DEF StartGame, Inv, PlayersFitThePhase, SomeoneAwaited, Unvoted, Undecided, TypeOK, Phases
<1>10. LeaderIsSeated'
  BY <1>2, <1>5 DEF LeaderIsSeated
<1> QED
  BY <1>7, <1>8, <1>9, <1>10 DEF Inv

-----------------------------------------------------------------------------
(* Uplinks *)

\* A vote or a decision that leaves somebody else awaited.
LEMMA InvLeaderVote ==
  ASSUME Inv, NEW p \in Seated, NEW val \in Vals, LeaderVote(p, val),
         UNCHANGED <<round, mqttClient, lockLost>>
  PROVE  Inv'
<1> DEFINE ps == ProcessLeaderVote(p, val)
<1>1. /\ ps \in [Seated -> Player]
      /\ DOMAIN ps = Seated
      /\ \A q \in Seated \ {p} : ps[q] = players[q]
      /\ ps[p].votedLeader
      /\ ps[p].team = players[p].team
      /\ ps[p].decision = players[p].decision
      /\ ps[p].decisionMade = players[p].decisionMade
  BY ProcessedVote DEF Inv, TypeOK
<1>2. phase = "LEADER_VOTE"
  BY DEF LeaderVote
<1>3. IF AllVoted(ps) THEN EvaluateLeaderVote(ps) ELSE Recorded(ps)
  BY DEF LeaderVote
<1> HIDE DEF ps
<1>4. CASE AllVoted(ps)
  <2>1. EvaluateLeaderVote(ps)
    BY <1>3, <1>4
  <2>2. /\ players' \in [Seated -> Player]
        /\ Seated' = Seated
        /\ \A q \in Seated : /\ ~players'[q].votedLeader
                            /\ players'[q].leaderVote = NONE_VOTE
                            /\ players'[q].team = ps[q].team
                            /\ players'[q].decision = ps[q].decision
                            /\ players'[q].decisionMade = ps[q].decisionMade
    <3>1. players' = ClearBallot(ps)
      BY <2>1 DEF EvaluateLeaderVote
    <3>2. players' \in [Seated -> Player]
      BY <1>1, <3>1, ClearedBallot
    <3>3. Seated' = Seated
      BY <3>2 DEF Seated
    <3>4. \A q \in Seated : /\ ~players'[q].votedLeader
                           /\ players'[q].leaderVote = NONE_VOTE
                           /\ players'[q].team = ps[q].team
                           /\ players'[q].decision = ps[q].decision
                           /\ players'[q].decisionMade = ps[q].decisionMade
      BY <1>1, <3>1, ClearedBallot
    <3> QED
      BY <3>2, <3>3, <3>4
  <2>3. \A q \in Seated : /\ ps[q].team = players[q].team
                         /\ ps[q].decision = players[q].decision
                         /\ ps[q].decisionMade = players[q].decisionMade
    BY <1>1
  <2>4. \/ phase' = "MISSION" /\ leader' = leader
        \/ phase' = "LEADER_VOTE" /\ leader' \in Seated
    BY <1>1, <2>1, NextLeaderSeated DEF EvaluateLeaderVote
  <2>5. announced' \in Seq(Announcement)
    <3>1. CASE announced' = <<NewRoundMsg(ps)>>
      <4>1. NewRoundMsg(ps) \in Announcement
        BY <1>1, MsgType DEF NewRoundMsg, Types, Inv, TypeOK
      <4> QED
        BY <3>1, <4>1, AnnouncedType
    <3>2. CASE announced' = <<LeaderMsg(leader')>> /\ leader' \in Seated
      <4>1. LeaderMsg(leader') \in Announcement
        BY <3>2, MsgType DEF LeaderMsg, Types, Inv, TypeOK
      <4> QED
        BY <3>2, <4>1, AnnouncedType
    <3> QED
      BY <1>1, <2>1, <3>1, <3>2, NextLeaderSeated DEF EvaluateLeaderVote
  <2>6. TypeOK'
    BY <2>1, <2>2, <2>4, <2>5 DEF EvaluateLeaderVote, Inv, TypeOK, Phases
  <2>7. PlayersFitThePhase'
    <3>1. ASSUME NEW q \in Seated
          PROVE  players'[q].decisionMade <=> players'[q].decision # NONE_DECISION
      <4>1. players[q].decisionMade <=> players[q].decision # NONE_DECISION
        BY DEF Inv, PlayersFitThePhase
      <4>2. /\ players'[q].decision = players[q].decision
            /\ players'[q].decisionMade = players[q].decisionMade
        BY <2>2, <2>3
      <4> QED
        BY <4>1, <4>2
    <3>2. phase' # "IDLE" /\ Seated' # {}
      BY <2>2, <2>4
    <3>3. mqttClient' = "nil" /\ ~lockLost' => FALSE
      BY <1>2 DEF Inv, PlayersFitThePhase
    <3>4. \A q \in Seated : /\ ~players'[q].votedLeader
                           /\ players'[q].leaderVote = NONE_VOTE
      BY <2>2
    <3>5. phase' \in {"LEADER_VOTE", "MISSION"} /\ Seated' = Seated
      BY <2>2, <2>4
    <3> QED
      BY <3>1, <3>2, <3>3, <3>4, <3>5 DEF PlayersFitThePhase
  <2>8. SomeoneAwaited'
    BY <1>2, <2>2, <2>3, <2>4 DEF Inv, SomeoneAwaited, Unvoted, Undecided
  <2>9. LeaderIsSeated'
    BY <1>2, <2>2, <2>3, <2>4 DEF Inv, LeaderIsSeated
  <2> QED
    BY <2>6, <2>7, <2>8, <2>9 DEF Inv
<1>5. CASE ~AllVoted(ps)
  <2>1. /\ players' = ps
        /\ announced' = <<>>
        /\ UNCHANGED <<phase, leader, successCount, failureCount>>
    BY <1>3, <1>5 DEF Recorded
  <2>2. Seated' = Seated
    BY <1>1, <2>1 DEF Seated
  <2>3. TypeOK'
    BY <1>1, <2>1, <2>2, AnnouncedType DEF Inv, TypeOK
  <2>4. PlayersFitThePhase'
    BY <1>1, <1>2, <2>1, <2>2 DEF Inv, PlayersFitThePhase
  <2>5. SomeoneAwaited'
    BY <1>1, <1>2, <1>5, <2>1, <2>2 DEF Inv, SomeoneAwaited, Unvoted, Undecided, AllVoted
  <2>6. LeaderIsSeated'
    BY <1>1, <2>1, <2>2 DEF Inv, LeaderIsSeated
  <2> QED
    BY <2>3, <2>4, <2>5, <2>6 DEF Inv
<1> QED
  BY <1>4, <1>5

\* The last decision opens the kick vote, where everybody is awaited.
LEMMA InvMissionDecision ==
  ASSUME Inv, NEW p \in Seated, NEW val \in Vals, MissionDecision(p, val),
         UNCHANGED <<round, mqttClient, lockLost>>
  PROVE  Inv'
<1> DEFINE ps == ProcessMissionDecision(p, val)
<1>1. /\ ps \in [Seated -> Player]
      /\ DOMAIN ps = Seated
      /\ \A q \in Seated : ps[q] # players[q] => ps[q].decisionMade /\ ps[q].decision # NONE_DECISION
      /\ \A q \in Seated : /\ ps[q].team = players[q].team
                          /\ ps[q].leaderVote = players[q].leaderVote
                          /\ ps[q].votedLeader = players[q].votedLeader
  <2>1. players \in [Seated -> Player]
    BY DEF Inv, TypeOK
  <2>2. ps = ProcessMissionDecision(p, val)
    OBVIOUS
  <2> HIDE DEF ps
  <2>3. /\ ps \in [Seated -> Player]
        /\ \A q \in Seated : ps[q] # players[q] => ps[q].decisionMade /\ ps[q].decision # NONE_DECISION
        /\ \A q \in Seated : /\ ps[q].team = players[q].team
                            /\ ps[q].leaderVote = players[q].leaderVote
                            /\ ps[q].votedLeader = players[q].votedLeader
    BY <2>1, <2>2, ProcessedDecision
  <2> QED
    BY <2>3
<1>2. phase = "MISSION"
  BY DEF MissionDecision
<1>3. IF AllHaveDecision(ps) THEN EvaluateMission(ps) ELSE Recorded(ps)
  BY DEF MissionDecision
<1>4. \A q \in Seated : ~players[q].votedLeader /\ players[q].leaderVote = NONE_VOTE
  BY <1>2 DEF Inv, PlayersFitThePhase
<1> HIDE DEF ps
<1>5. CASE AllHaveDecision(ps)
  <2>1. EvaluateMission(ps)
    BY <1>3, <1>5
  <2>2. /\ players' = ClearDecisions(ps)
        /\ phase' = "KICK_VOTE"
        /\ leader' = leader
    BY <2>1 DEF EvaluateMission
  <2>3. players' \in [Seated -> Player]
    BY <1>1, <2>2, ClearedDecisions
  <2>4. Seated' = Seated
    BY <2>3 DEF Seated
  <2>5. \A q \in Seated : /\ ~players'[q].decisionMade
                         /\ players'[q].decision = NONE_DECISION
                         /\ players'[q].team = ps[q].team
                         /\ players'[q].leaderVote = ps[q].leaderVote
                         /\ players'[q].votedLeader = ps[q].votedLeader
    BY <1>1, <2>2, ClearedDecisions
  <2>6. announced' \in Seq(Announcement)
    <3>1. /\ Msg("uppdrag saboterat", {leader}) \in Announcement
          /\ Msg("uppdrag lyckades", {leader}) \in Announcement
          /\ Msg("val att sparka", {leader}) \in Announcement
      BY MsgType DEF Types, Inv, TypeOK
    <3>2. Msg("saboterare", Saboteurs(ps)) \in Announcement
      BY <1>1, MsgType DEF Types, Saboteurs, Inv, TypeOK
    <3> QED
      BY <2>1, <3>1, <3>2, AnnouncedType DEF EvaluateMission, MissionMsgs
  <2>7. successCount' \in Nat /\ failureCount' \in Nat
    <3>1. \/ failureCount' = failureCount + 1 /\ successCount' = successCount
          \/ successCount' = successCount + 1 /\ failureCount' = failureCount
      BY <2>1 DEF EvaluateMission
    <3> QED
      BY <3>1 DEF Inv, TypeOK
  <2>8. TypeOK'
    BY <2>2, <2>3, <2>4, <2>6, <2>7 DEF Inv, TypeOK, Phases
  <2>9. PlayersFitThePhase'
    <3>1. Seated' # {} /\ (mqttClient' = "nil" /\ ~lockLost' => FALSE)
      BY <1>2, <2>4 DEF Inv, PlayersFitThePhase
    <3>2. \A q \in Seated' :
            /\ ~players'[q].votedLeader
            /\ players'[q].leaderVote = NONE_VOTE
            /\ ~players'[q].decisionMade
            /\ players'[q].decision = NONE_DECISION
      <4>1. ASSUME NEW q \in Seated
            PROVE  ~players'[q].votedLeader /\ players'[q].leaderVote = NONE_VOTE
        <5>1. /\ players'[q].votedLeader = players[q].votedLeader
              /\ players'[q].leaderVote = players[q].leaderVote
          BY <1>1, <2>5
        <5> QED
          BY <1>4, <5>1
      <4>2. \A q \in Seated : ~players'[q].decisionMade /\ players'[q].decision = NONE_DECISION
        BY <2>5
      <4> QED
        BY <2>4, <4>1, <4>2
    <3>3. phase' = "KICK_VOTE"
      BY <2>2
    <3> QED
      BY <3>1, <3>2, <3>3 DEF PlayersFitThePhase
  <2>10. SomeoneAwaited'
    BY <1>1, <1>4, <2>2, <2>4, <2>5 DEF SomeoneAwaited, Unvoted, Undecided
  <2>11. LeaderIsSeated'
    <3>1. \A q \in Seated : players'[q].team = players[q].team
      BY <1>1, <2>5
    <3> QED
      BY <1>2, <2>2, <2>4, <3>1 DEF Inv, LeaderIsSeated
  <2> QED
    BY <2>8, <2>9, <2>10, <2>11 DEF Inv
<1>6. CASE ~AllHaveDecision(ps)
  <2>1. /\ players' = ps
        /\ announced' = <<>>
        /\ UNCHANGED <<phase, leader, successCount, failureCount>>
    BY <1>3, <1>6 DEF Recorded
  <2>2. Seated' = Seated
    BY <1>1, <2>1 DEF Seated
  <2>3. TypeOK'
    BY <1>1, <2>1, <2>2, AnnouncedType DEF Inv, TypeOK
  <2>4. \A q \in Seated : players'[q].decisionMade <=> players'[q].decision # NONE_DECISION
    BY <1>1, <2>1 DEF Inv, PlayersFitThePhase
  <2>5. PlayersFitThePhase'
    <3>1. Seated' # {} /\ (mqttClient' = "nil" /\ ~lockLost' => FALSE)
      BY <1>2, <2>2 DEF Inv, PlayersFitThePhase
    <3>2. phase' = "MISSION"
      BY <1>2, <2>1
    <3>3. \A q \in Seated : ~players'[q].votedLeader /\ players'[q].leaderVote = NONE_VOTE
      BY <1>1, <1>4, <2>1
    <3> QED
      BY <2>2, <2>4, <3>1, <3>2, <3>3 DEF PlayersFitThePhase
  <2>6. SomeoneAwaited'
    BY <1>1, <1>2, <1>6, <2>1, <2>2 DEF SomeoneAwaited, Undecided, AllHaveDecision
  <2>7. LeaderIsSeated'
    BY <1>1, <2>1, <2>2 DEF Inv, LeaderIsSeated
  <2> QED
    BY <2>3, <2>5, <2>6, <2>7 DEF Inv
<1> QED
  BY <1>5, <1>6

\* The last vote may take the leader out of the map; the next one is picked
\* from those who are left, and all of them are awaited.
LEMMA InvKickVote ==
  ASSUME Inv, NEW p \in Seated, NEW val \in Vals, KickVote(p, val),
         UNCHANGED <<round, mqttClient, lockLost>>
  PROVE  Inv'
<1> DEFINE ps == ProcessKickVote(p, val)
<1>1. /\ ps \in [Seated -> Player]
      /\ DOMAIN ps = Seated
      /\ \A q \in Seated \ {p} : ps[q] = players[q]
      /\ ps[p].votedLeader
      /\ ps[p].team = players[p].team
      /\ ps[p].decision = players[p].decision
      /\ ps[p].decisionMade = players[p].decisionMade
  BY ProcessedVote DEF Inv, TypeOK
<1>2. phase = "KICK_VOTE"
  BY DEF KickVote
<1>3. IF AllVoted(ps) THEN EvaluateKickVote(ps) ELSE Recorded(ps)
  BY DEF KickVote
<1>4. \A q \in Seated : ~ps[q].decisionMade /\ ps[q].decision = NONE_DECISION
  BY <1>1, <1>2 DEF Inv, PlayersFitThePhase
<1> HIDE DEF ps
<1>5. CASE AllVoted(ps)
  <2> DEFINE left == IF Carried(ps) THEN Without(ClearBallot(ps), leader)
                                    ELSE ClearBallot(ps)
             stay == IF Carried(ps) THEN Seated \ {leader} ELSE Seated
  <2>1. /\ players' = left
        /\ leader' \in NextLeaders(DOMAIN left, leader)
        /\ announced' = <<KickResultMsg(Carried(ps)), LeaderMsg(leader')>>
        /\ phase' = "LEADER_VOTE"
        /\ UNCHANGED <<successCount, failureCount>>
    BY <1>3, <1>5 DEF EvaluateKickVote
  <2>2. left \in [stay -> Player]
    <3>1. ClearBallot(ps) \in [Seated -> Player]
      BY <1>1, ClearedBallot
    <3>2. Without(ClearBallot(ps), leader) \in [Seated \ {leader} -> Player]
      BY <3>1, WithoutOne
    <3> QED
      BY <3>1, <3>2
  <2>3. \A q \in stay : /\ ~left[q].votedLeader
                       /\ left[q].leaderVote = NONE_VOTE
                       /\ left[q].team = ps[q].team
                       /\ left[q].decision = ps[q].decision
                       /\ left[q].decisionMade = ps[q].decisionMade
    <3>1. \A q \in stay : left[q] = ClearBallot(ps)[q]
      <4>1. ClearBallot(ps) \in [Seated -> Player]
        BY <1>1, ClearedBallot
      <4>2. \A q \in Seated \ {leader} : Without(ClearBallot(ps), leader)[q] = ClearBallot(ps)[q]
        BY <4>1 DEF Without
      <4> QED
        BY <4>2
    <3>2. \A q \in Seated : /\ ~ClearBallot(ps)[q].votedLeader
                           /\ ClearBallot(ps)[q].leaderVote = NONE_VOTE
                           /\ ClearBallot(ps)[q].team = ps[q].team
                           /\ ClearBallot(ps)[q].decision = ps[q].decision
                           /\ ClearBallot(ps)[q].decisionMade = ps[q].decisionMade
      BY <1>1, ClearedBallot
    <3>3. stay \subseteq Seated
      OBVIOUS
    <3> HIDE DEF left, stay
    <3> QED
      BY <3>1, <3>2, <3>3
  <2> HIDE DEF left
  <2>4. Seated' = stay
    BY <2>1, <2>2 DEF Seated
  <2>5. stay \subseteq Seated
    OBVIOUS
  <2>6. DOMAIN left = stay
    BY <2>2
  <2> HIDE DEF stay
  <2>7. /\ stay # {} => leader' \in stay
        /\ stay = {} => leader' = leader
    BY <2>1, <2>6, NextLeaderSeated
  <2>8. leader' \in PlayerIds \cup {NoPlayer}
    BY <2>5, <2>7 DEF Inv, TypeOK
  <2>9. announced' \in Seq(Announcement)
    <3>1. KickResultMsg(Carried(ps)) \in Announcement
      BY MsgType DEF KickResultMsg, Types
    <3>2. LeaderMsg(leader') \in Announcement
      BY <2>8, MsgType DEF LeaderMsg, Types
    <3> QED
      BY <2>1, <3>1, <3>2, AnnouncedType
  <2>10. TypeOK'
    BY <2>1, <2>2, <2>4, <2>5, <2>8, <2>9 DEF Inv, TypeOK, Phases
  <2>11. \A q \in Seated' : /\ ~players'[q].votedLeader
                           /\ players'[q].leaderVote = NONE_VOTE
                           /\ ~players'[q].decisionMade
                           /\ players'[q].decision = NONE_DECISION
    BY <1>4, <2>1, <2>3, <2>4, <2>5
  <2>12. PlayersFitThePhase'
    BY <1>2, <2>1, <2>11 DEF Inv, PlayersFitThePhase
  <2>13. SomeoneAwaited'
    BY <2>1, <2>11 DEF SomeoneAwaited, Unvoted, Undecided
  <2>14. LeaderIsSeated'
    BY <2>4, <2>7 DEF LeaderIsSeated
  <2> QED
    BY <2>10, <2>12, <2>13, <2>14 DEF Inv
<1>6. CASE ~AllVoted(ps)
  <2>1. /\ players' = ps
        /\ announced' = <<>>
        /\ UNCHANGED <<phase, leader, successCount, failureCount>>
    BY <1>3, <1>6 DEF Recorded
  <2>2. Seated' = Seated
    BY <1>1, <2>1 DEF Seated
  <2>3. TypeOK'
    BY <1>1, <2>1, <2>2, AnnouncedType DEF Inv, TypeOK
  <2>4. PlayersFitThePhase'
    BY <1>1, <1>2, <2>1, <2>2 DEF Inv, PlayersFitThePhase
  <2>5. SomeoneAwaited'
    BY <1>1, <1>2, <1>6, <2>1, <2>2 DEF SomeoneAwaited, Unvoted, AllVoted
  <2>6. LeaderIsSeated'
    BY <1>1, <2>1, <2>2 DEF Inv, LeaderIsSeated
  <2> QED
    BY <2>3, <2>4, <2>5, <2>6 DEF Inv
<1> QED
  BY <1>5, <1>6

LEMMA InvUplink ==
  ASSUME Inv, NEW p \in PlayerIds, NEW val \in Vals, Uplink(p, val)
  PROVE  Inv'
<1>1. p \in Seated /\ UNCHANGED <<round, mqttClient, lockLost>>
  BY DEF Uplink
<1>2. CASE Ignored
  <2>1. UNCHANGED <<phase, players, leader, successCount, failureCount>> /\ announced' = <<>>
    BY <1>2 DEF Ignored
  <2>2. TypeOK'
    BY <1>1, <2>1, AnnouncedType DEF Inv, TypeOK, Seated
  <2> QED
    BY <1>1, <2>1, <2>2 DEF Inv, PlayersFitThePhase, SomeoneAwaited, LeaderIsSeated,
                            Seated, Unvoted, Undecided
<1> QED
  BY <1>1, <1>2, InvLeaderVote, InvMissionDecision, InvKickVote DEF Uplink

LEMMA InvNext == Inv /\ [Next]_vars => Inv'
<1> SUFFICES ASSUME Inv, [Next]_vars
             PROVE  Inv'
  OBVIOUS
<1>1. CASE AssignClient
  BY <1>1, InvAssignClient
<1>2. CASE \E p \in PlayerIds : AddPlayer(p)
  BY <1>2, InvAddPlayer
<1>3. CASE \E p \in PlayerIds : AddDuplicate(p)
  <2>1. /\ UNCHANGED <<phase, players, leader, counters, mqttClient>>
        /\ announced' = <<>>
        /\ lockLost'
    BY <1>3 DEF AddDuplicate
  <2> QED
    BY <2>1, InvLockLost
<1>4. CASE StartTooFew
  <2>1. /\ UNCHANGED <<phase, players, leader, counters, mqttClient>>
        /\ announced' = <<>>
        /\ lockLost'
    BY <1>4 DEF StartTooFew
  <2> QED
    BY <2>1, InvLockLost
<1>5. CASE StartGame
  BY <1>5, InvStartGame
<1>6. CASE \E p \in PlayerIds, val \in Vals : Uplink(p, val)
  BY <1>6, InvUplink
<1>7. CASE UNCHANGED vars
  BY <1>7 DEF vars, Inv, TypeOK, PlayersFitThePhase, SomeoneAwaited, LeaderIsSeated,
              Seated, Unvoted, Undecided
<1> QED
  BY <1>1, <1>2, <1>3, <1>4, <1>5, <1>6, <1>7 DEF Next

\* Invariance: the four parts hold in every state of every execution.
THEOREM Invariance == Spec => []Inv
BY InvInit, InvNext, PTL DEF Spec

\* The variables keep their types.
THEOREM TypeCorrect == Spec => []TypeOK
<1>1. Inv => TypeOK
  BY DEF Inv
<1> QED
  BY <1>1, Invariance, PTL

\* No ballot is ever left complete and unevaluated: however joins, restarts
\* and votes interleave, the open question still waits for a seated player.
THEOREM NeverWaitingForNobody == Spec => []SomeoneAwaited
<1>1. Inv => SomeoneAwaited
  BY DEF Inv
<1> QED
  BY <1>1, Invariance, PTL

\* A running game with a dealt player left is led by one of its players.
THEOREM AlwaysLed == Spec => []LeaderIsSeated
<1>1. Inv => LeaderIsSeated
  BY DEF Inv
<1> QED
  BY <1>1, Invariance, PTL

\* Votes, decisions and teams exist only in the phases they belong to.
THEOREM PhaseDiscipline == Spec => []PlayersFitThePhase
<1>1. Inv => PlayersFitThePhase
  BY DEF Inv
<1> QED
  BY <1>1, Invariance, PTL

=============================================================================
