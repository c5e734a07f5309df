------------------------------ MODULE GameState ------------------------------
(***************************************************************************)
(* The game kept by the Go server (mqtt-docker/mqtts.go, https.go and      *)
(* game_logic_*.go): the fields of `gameState` and every critical section  *)
(* that changes them.  Each action is one section executed under           *)
(* gameState.Mutex, from its Lock to its Unlock, so a step is atomic for   *)
(* every other user of the mutex.  Module Server splits the handlers into  *)
(* the sections they take and runs them concurrently.                      *)
(*                                                                         *)
(* The section that never reaches its Unlock is modelled too: it sets      *)
(* lockLost, after which no section can start.                             *)
(***************************************************************************)
EXTENDS Integers, Sequences, FiniteSets, Functions

CONSTANTS PlayerIds,    \* the names certificates are issued for
          NoPlayer,     \* LeaderID before the first game
          DebugBuild    \* game_logic_debug.go (TRUE) or game_logic_prod.go

ASSUME PlayerIdsFinite == IsFiniteSet(PlayerIds)
ASSUME DebugBuildType == DebugBuild \in BOOLEAN

VARIABLES phase,        \* gameState.Phase
          players,      \* gameState.Players: a map from names to players
          leader,       \* gameState.LeaderID
          round,        \* gameState.Round
          successCount, \* gameState.SuccessCount
          failureCount, \* gameState.FailureCount
          announced,    \* what the last section published for everybody
          mqttClient,   \* "nil" until startBrokerClient assigns the variable
          lockLost      \* a section ended without Unlock

vars == <<phase, players, leader, round, successCount, failureCount,
          announced, mqttClient, lockLost>>

-----------------------------------------------------------------------------
Phases == {"IDLE", "LEADER_VOTE", "MISSION", "EVALUATE", "KICK_VOTE"}
Teams == {"NOTEAM", "GHG", "SSS"}
NONE_VOTE == ""
Votes == {NONE_VOTE, "ok", "neka"}
NONE_DECISION == ""
Decisions == {NONE_DECISION, "lyckas", "sabotera"}

\* The values of "val" the handlers distinguish; "other" is every other text,
\* among them the "sabotage" and "starta" the firmware can send.
Vals == {"ok", "neka", "lyckas", "sabotera", "other"}

Player == [team: Teams, votedLeader: BOOLEAN, leaderVote: Votes,
           voted_ok: BOOLEAN, decision: Decisions, decisionMade: BOOLEAN]

NewPlayer == [team |-> "NOTEAM", votedLeader |-> FALSE,
              leaderVote |-> NONE_VOTE, voted_ok |-> FALSE,
              decision |-> NONE_DECISION, decisionMade |-> FALSE]

Types == {"spelstart", "val av ledare", "ny runda", "uppdrag saboterat",
          "uppdrag lyckades", "val att sparka", "sparka ledare",
          "sparka avslogs", "/myndigheten", "DEBUG_NEW_PLAYER_JOINED",
          "saboterare"}

Announcement == [typ: Types, about: SUBSET (PlayerIds \cup {NoPlayer})]
Msg(typ, about) == [typ |-> typ, about |-> about]

\* The names of the players in the game.
Seated == DOMAIN players

-----------------------------------------------------------------------------
(* Helpers on a map of players, shared by the handlers *)

\* Mutants: a player has voted once there is a ballot; half the votes will do.
AllVoted_ByBallot(ps) == \A p \in DOMAIN ps : ps[p].leaderVote # NONE_VOTE
AllVoted_Quorum(ps) ==
  2 * Cardinality({p \in DOMAIN ps : ps[p].votedLeader}) > Cardinality(DOMAIN ps)

\* allVoted: no player is without a vote.
AllVoted(ps) == \A p \in DOMAIN ps : ps[p].votedLeader

\* Mutant: one decision is enough.
AllHaveDecision_Any(ps) == \E p \in DOMAIN ps : ps[p].decisionMade

AllHaveDecision(ps) == \A p \in DOMAIN ps : ps[p].decisionMade

VoteCount(ps, v) == Cardinality({p \in DOMAIN ps : ps[p].leaderVote = v})

\* Mutant: a tie carries.
Carried_OnTie(ps) == VoteCount(ps, "ok") >= VoteCount(ps, "neka")

\* Mutant: more than two thirds of the players must be for it.
Carried_TwoThirds(ps) == 3 * VoteCount(ps, "ok") > 2 * Cardinality(DOMAIN ps)

\* More OK than NEKA; players who voted something else count for neither.
Carried(ps) == VoteCount(ps, "ok") > VoteCount(ps, "neka")

\* Mutant: the ballot itself is not reset.
ClearBallot_KeepVote(ps) ==
  [p \in DOMAIN ps |-> [ps[p] EXCEPT !.votedLeader = FALSE]]

ClearBallot(ps) ==
  [p \in DOMAIN ps |->
     [ps[p] EXCEPT !.votedLeader = FALSE, !.leaderVote = NONE_VOTE]]

ClearDecisions(ps) ==
  [p \in DOMAIN ps |->
     [ps[p] EXCEPT !.decisionMade = FALSE, !.decision = NONE_DECISION]]

\* Mutant: a leader who is gone is not replaced.
NextLeaders_KeepGone(ids, current) ==
  IF current \notin ids THEN {current}
  ELSE IF ids # {current} THEN ids \ {current} ELSE ids

\* pickNextLeader over a map iterated in an order Go leaves open: any other
\* player; anyone when the leader is no longer in the map.
NextLeaders(ids, current) ==
  IF ids = {} THEN {current}
  ELSE IF current \in ids /\ ids # {current} THEN ids \ {current}
  ELSE ids

\* The orders rand.Shuffle can leave the players in.
Shuffles(ids) == Bijection(1..Cardinality(ids), ids)

\* initGameLogic: the number of GHG and of SSS players among n.
GhgCount(n) ==
  IF ~DebugBuild /\ n \in 5..11
  THEN CASE n = 5 -> 3 [] n = 6 -> 4 [] n = 7 -> 4 [] n = 8 -> 5
         [] n = 9 -> 6 [] n = 10 -> 6 [] n = 11 -> 7
  ELSE n \div 2

\* Mutant: one SSS player too few when the number is odd.
SssCount_Half(n) ==
  IF ~DebugBuild /\ n \in 5..11
  THEN CASE n = 5 -> 2 [] n = 6 -> 2 [] n = 7 -> 3 [] n = 8 -> 3
         [] n = 9 -> 3 [] n = 10 -> 4 [] n = 11 -> 4
  ELSE n \div 2

SssCount(n) ==
  IF ~DebugBuild /\ n \in 5..11
  THEN CASE n = 5 -> 2 [] n = 6 -> 2 [] n = 7 -> 3 [] n = 8 -> 3
         [] n = 9 -> 3 [] n = 10 -> 4 [] n = 11 -> 4
  ELSE n - n \div 2

DealtTeam(i, n, current) ==
  IF i <= GhgCount(n) THEN "GHG"
  ELSE IF i <= GhgCount(n) + SssCount(n) THEN "SSS"
  ELSE current

\* Every player gets the team of its place in the shuffled order.
Dealt(ps, ids) ==
  LET n == Cardinality(DOMAIN ps)
      place(p) == CHOOSE i \in 1..n : ids[i] = p
  IN  [p \in DOMAIN ps |->
         [ps[p] EXCEPT !.team = DealtTeam(place(p), n, @)]]

Saboteurs(ps) == {p \in DOMAIN ps : ps[p].decision = "sabotera"}

-----------------------------------------------------------------------------
(* What the handlers publish for everybody *)

\* announceGameStart, announceLeader and announceNewRound, which approves the
\* players whose voted_ok is set.
GameStartMsg == Msg("spelstart", {})
LeaderMsg(l) == Msg("val av ledare", {l})
NewRoundMsg(ps) == Msg("ny runda", {p \in DOMAIN ps : ps[p].voted_ok})

\* announceMissionResult and, right after it, announceKickVote.
MissionMsgs(typ, ps) == <<Msg(typ, {leader}), Msg("saboterare", Saboteurs(ps)),
                          Msg("val att sparka", {leader})>>

\* announceKickResult: for a kick it hands PublishMyndigheten the topic as the
\* format, and only the format is published.
KickResultMsg(kicked) ==
  IF kicked THEN Msg("/myndigheten", {}) ELSE Msg("sparka avslogs", {})

-----------------------------------------------------------------------------
Init ==
  /\ phase = "IDLE"
  /\ players = [p \in {} |-> NewPlayer]
  /\ leader = NoPlayer
  /\ round = 0
  /\ successCount = 0
  /\ failureCount = 0
  /\ announced = <<>>
  /\ mqttClient = "nil"
  /\ lockLost = FALSE

counters == <<round, successCount, failureCount>>

\* startBrokerClient: mqttClient = mqtt.NewClient(opts).
AssignClient ==
  /\ mqttClient = "nil"
  /\ mqttClient' = "set"
  /\ UNCHANGED <<phase, players, leader, counters, announced, lockLost>>

-----------------------------------------------------------------------------
(* addPlayer, called by spelare_csr_handler in every phase *)

Joined(p) == [q \in Seated \cup {p} |-> IF q = p THEN NewPlayer ELSE players[q]]

\* A new name.  With a nil client the first publish panics after the insert,
\* and the panic leaves the handler without Unlock.
AddPlayer(p) ==
  /\ ~lockLost
  /\ p \notin Seated
  /\ players' = Joined(p)
  /\ \/ /\ mqttClient = "set"
        /\ announced' = <<Msg("DEBUG_NEW_PLAYER_JOINED", {})>>
        /\ UNCHANGED lockLost
     \/ /\ mqttClient = "nil"
        /\ lockLost' = TRUE
        /\ announced' = <<>>
  /\ UNCHANGED <<phase, leader, counters, mqttClient>>

\* A name already in the map: the early return skips the Unlock.
AddDuplicate(p) ==
  /\ ~lockLost
  /\ p \in Seated
  /\ lockLost' = TRUE
  /\ announced' = <<>>
  /\ UNCHANGED <<phase, players, leader, counters, mqttClient>>

-----------------------------------------------------------------------------
(* start_handler after it has locked the game; no phase is refused *)

\* Without players the error path returns without Unlock.
StartTooFew ==
  /\ ~lockLost
  /\ Cardinality(Seated) < 1
  /\ lockLost' = TRUE
  /\ announced' = <<>>
  /\ UNCHANGED <<phase, players, leader, counters, mqttClient>>

\* announceGameStart and initGameLogic, which ends in announceLeader.  Whoever
\* is in the game joined in a section that published, so there is a client.
StartGame ==
  /\ ~lockLost
  /\ Cardinality(Seated) >= 1
  /\ mqttClient = "set"
  /\ phase' = "LEADER_VOTE"
  /\ \E ids \in Shuffles(Seated) :
       /\ players' = Dealt(players, ids)
       /\ leader' = ids[1]
       /\ announced' = <<GameStartMsg, LeaderMsg(ids[1])>>
  /\ round' = 1
  /\ successCount' = 0
  /\ failureCount' = 0
  /\ UNCHANGED <<mqttClient, lockLost>>

-----------------------------------------------------------------------------
(* handleUplink's second section: process the value, then progressGame *)

\* processLeaderVote: a value that is no vote still marks the player as voted
\* and leaves leaderVote and voted_ok as they were.
ProcessLeaderVote(p, val) ==
  [players EXCEPT ![p] =
     CASE val = "ok" -> [players[p] EXCEPT !.votedLeader = TRUE,
                                           !.leaderVote = "ok", !.voted_ok = TRUE]
       [] val = "neka" -> [players[p] EXCEPT !.votedLeader = TRUE,
                                             !.leaderVote = "neka", !.voted_ok = FALSE]
       [] OTHER -> [players[p] EXCEPT !.votedLeader = TRUE]]

\* Mutant: the value is stored as it came.
ProcessMissionDecision_Raw(p, val) ==
  [players EXCEPT ![p] = [players[p] EXCEPT !.decision = val,
                                                 !.decisionMade = TRUE]]

\* processMissionDecision: a value that is no decision changes nothing.
ProcessMissionDecision(p, val) ==
  IF val \in {"lyckas", "sabotera"}
  THEN [players EXCEPT ![p] = [players[p] EXCEPT !.decision = val,
                                                 !.decisionMade = TRUE]]
  ELSE players

\* processKickVote: as the leader vote, but voted_ok stays.
ProcessKickVote(p, val) ==
  [players EXCEPT ![p] =
     IF val \in {"ok", "neka"}
     THEN [players[p] EXCEPT !.votedLeader = TRUE, !.leaderVote = val]
     ELSE [players[p] EXCEPT !.votedLeader = TRUE]]

\* evaluateLeaderVote with announceNewRound or pickNextLeader, announceLeader.
EvaluateLeaderVote(ps) ==
  /\ players' = ClearBallot(ps)
  /\ \/ /\ Carried(ps)
        /\ phase' = "MISSION"
        /\ announced' = <<NewRoundMsg(ps)>>
        /\ UNCHANGED leader
     \/ /\ ~Carried(ps)
        /\ leader' \in NextLeaders(DOMAIN ps, leader)
        /\ announced' = <<LeaderMsg(leader')>>
        /\ phase' = "LEADER_VOTE"
  /\ UNCHANGED <<successCount, failureCount>>

\* evaluateMission: sssCount is declared and never counted, so the threshold
\* is 0 div 2.
SabotageThreshold == LET sssCount == 0 IN sssCount \div 2

EvaluateMission(ps) ==
  /\ players' = ClearDecisions(ps)
  /\ \/ /\ Cardinality(Saboteurs(ps)) >= SabotageThreshold
        /\ failureCount' = failureCount + 1
        /\ announced' = MissionMsgs("uppdrag saboterat", ps)
        /\ UNCHANGED successCount
     \/ /\ Cardinality(Saboteurs(ps)) < SabotageThreshold
        /\ successCount' = successCount + 1
        /\ announced' = MissionMsgs("uppdrag lyckades", ps)
        /\ UNCHANGED failureCount
  /\ phase' = "KICK_VOTE"
  /\ UNCHANGED leader

Without(ps, p) == [q \in DOMAIN ps \ {p} |-> ps[q]]

\* evaluateKickVote: the leader leaves when the vote carries; then
\* pickNextLeader over those who remain, and announceLeader.
EvaluateKickVote(ps) ==
  LET left == IF Carried(ps) THEN Without(ClearBallot(ps), leader)
                             ELSE ClearBallot(ps)
  IN  /\ players' = left
      /\ leader' \in NextLeaders(DOMAIN left, leader)
      /\ announced' = <<KickResultMsg(Carried(ps)), LeaderMsg(leader')>>
      /\ phase' = "LEADER_VOTE"
      /\ UNCHANGED <<successCount, failureCount>>

\* The value is stored and the question stays open.
Recorded(ps) ==
  /\ players' = ps
  /\ announced' = <<>>
  /\ UNCHANGED <<phase, leader, successCount, failureCount>>

LeaderVote(p, val) ==
  /\ phase = "LEADER_VOTE"
  /\ LET ps == ProcessLeaderVote(p, val)
     IN  IF AllVoted(ps) THEN EvaluateLeaderVote(ps) ELSE Recorded(ps)

MissionDecision(p, val) ==
  /\ phase = "MISSION"
  /\ LET ps == ProcessMissionDecision(p, val)
     IN  IF AllHaveDecision(ps) THEN EvaluateMission(ps) ELSE Recorded(ps)

KickVote(p, val) ==
  /\ phase = "KICK_VOTE"
  /\ LET ps == ProcessKickVote(p, val)
     IN  IF AllVoted(ps) THEN EvaluateKickVote(ps) ELSE Recorded(ps)

\* Phase IDLE has no case: the value is ignored.
Ignored ==
  /\ phase = "IDLE"
  /\ announced' = <<>>
  /\ UNCHANGED <<phase, players, leader, successCount, failureCount>>

Uplink(p, val) ==
  /\ ~lockLost
  /\ mqttClient = "set"
  /\ p \in Seated
  /\ LeaderVote(p, val) \/ MissionDecision(p, val) \/ KickVote(p, val) \/ Ignored
  /\ UNCHANGED <<round, mqttClient, lockLost>>

-----------------------------------------------------------------------------
Next ==
  \/ AssignClient
  \/ \E p \in PlayerIds : AddPlayer(p)
  \/ \E p \in PlayerIds : AddDuplicate(p)
  \/ StartTooFew
  \/ StartGame
  \/ \E p \in PlayerIds, val \in Vals : Uplink(p, val)

Spec == Init /\ [][Next]_vars

-----------------------------------------------------------------------------
(* Properties *)

\* Every variable keeps the type the Go declarations give it.
TypeOK ==
  /\ phase \in Phases \ {"EVALUATE"}
  /\ Seated \subseteq PlayerIds
  /\ players \in [Seated -> Player]
  /\ leader \in PlayerIds \cup {NoPlayer}
  /\ round \in 0..1
  /\ successCount \in Nat
  /\ failureCount \in Nat
  /\ announced \in Seq(Announcement)
  /\ mqttClient \in {"nil", "set"}
  /\ lockLost \in BOOLEAN

Unvoted == {p \in Seated : ~players[p].votedLeader}
Undecided == {p \in Seated : ~players[p].decisionMade}

\* The game is never left waiting for nobody: between two sections, some seated
\* player still owes the vote or the decision the phase is waiting for.  A
\* ballot that is complete must have been evaluated by the uplink that
\* completed it (progressGame), because nothing else ever evaluates it; and
\* decisions kept across a restart never fill the next mission completely.
SomeoneAwaited ==
  Seated # {} =>
    /\ phase \in {"LEADER_VOTE", "KICK_VOTE"} => Unvoted # {}
    /\ phase \in {"LEADER_VOTE", "MISSION"} => Undecided # {}

\* A running game is led by one of its players, whoever was kicked, as long as
\* anybody who was dealt a team is left (evaluateKickVote deletes the leader
\* before pickNextLeader looks for its successor).
LeaderIsSeated ==
  (phase # "IDLE" /\ \E p \in Seated : players[p].team # "NOTEAM")
    => leader \in Seated

\* What the phase says of the players: nobody has voted while no vote is open,
\* nobody has decided before a mission could be, nobody has a team before the
\* first deal, no mission or kick vote runs without players, and nobody is in
\* the game before there is a client to publish with, so that a start never
\* panics with the phase assigned and nothing dealt.
PlayersFitThePhase ==
  /\ \A p \in Seated :
       /\ players[p].leaderVote # NONE_VOTE => players[p].votedLeader
       /\ players[p].votedLeader => phase \in {"LEADER_VOTE", "KICK_VOTE"}
       /\ players[p].decisionMade => phase \in {"LEADER_VOTE", "MISSION"}
       /\ players[p].decisionMade <=> players[p].decision # NONE_DECISION
       /\ players[p].team # "NOTEAM" => phase # "IDLE"
  /\ phase \in {"MISSION", "KICK_VOTE"} => Seated # {}
  /\ mqttClient = "nil" /\ ~lockLost => Seated = {}

Said(msgs) == {msgs[i].typ : i \in DOMAIN msgs}
About(msgs, typ) == UNION {msgs[i].about : i \in {j \in DOMAIN msgs : msgs[j].typ = typ}}

Restarts == "spelstart" \in Said(announced')

KickedByVote ==
  \A p \in Seated \ Seated' :
    /\ p = leader
    /\ phase = "KICK_VOTE"
    /\ Cardinality(Unvoted) = 1
    /\ VoteCount(players, "ok") >= VoteCount(players, "neka")

\* Only evaluateKickVote removes a player, and only the leader, once a single
\* vote is missing and the votes already in do not speak against it.
OnlyTheLeaderIsKicked == [][KickedByVote]_vars

ApprovedByVote ==
  phase = "LEADER_VOTE" /\ phase' = "MISSION" =>
    /\ Cardinality(Unvoted) = 1
    /\ VoteCount(players, "ok") >= VoteCount(players, "neka")

\* A proposed leader gets a mission only when a single vote is missing and the
\* votes already in do not speak against it.
MissionNeedsApproval == [][ApprovedByVote]_vars

OkMajority == 2 * VoteCount(players, "ok") > Cardinality(Seated)

TakesBack(p) == players[p].leaderVote = "ok" /\ players'[p].leaderVote = "neka"

ClosesInFavour ==
  \/ phase = "LEADER_VOTE" /\ phase' = "MISSION" /\ leader' = leader
  \/ phase = "KICK_VOTE" /\ phase' = "LEADER_VOTE" /\ leader \notin Seated'

MajorityStands ==
  OkMajority /\ ~Restarts =>
    \/ ClosesInFavour
    \/ /\ UNCHANGED <<phase, leader>>
       /\ \/ OkMajority'
          \/ Seated' \ Seated # {}
          \/ \E p \in Seated : TakesBack(p)

\* An OK of more than half of all the players stands until the vote closes, and
\* the vote then closes in its favour: the proposed leader gets the mission, or
\* the leader is removed.  Short of a restart it is undone only by a player who
\* takes an OK back, which a repeated vote may, or by one who joins; what the
\* others answer, how often, in which order and with which text, does not
\* matter.
MajorityCarries == [][MajorityStands]_vars

QuestionPutClean ==
  ~Restarts =>
    /\ Said(announced') \cap {"val av ledare", "ny runda", "val att sparka"} # {}
         => \A p \in Seated' : players'[p].leaderVote = NONE_VOTE /\ ~players'[p].votedLeader
    /\ "val att sparka" \in Said(announced')
         => \A p \in Seated' : ~players'[p].decisionMade

\* A question is put with no answers in the box: no vote or decision given to
\* one question is counted for the next.  A restart is the exception, it
\* clears nothing.
QuestionsStartClean == [][QuestionPutClean]_vars

Side(t) == {p \in Seated : players[p].team = t}

TeamsDealt ==
  Restarts =>
    /\ Side("NOTEAM")' = {}
    /\ Side("SSS")' # {}
    /\ Cardinality(Seated') >= 2 => Side("GHG")' # {}
    /\ Cardinality(Seated') \in 5..11 /\ ~DebugBuild
         => Cardinality(Side("GHG")') > Cardinality(Side("SSS")')

\* initGameLogic deals everybody a team and leaves nobody without opponents:
\* there is an SSS player, and with two players or more a GHG player, who in
\* the production build are the majority from five players on.
DealIsComplete == [][TeamsDealt]_vars

Awaited == CASE phase = "MISSION" -> Undecided
             [] phase = "IDLE" -> {}
             [] OTHER -> Unvoted

Rounds == INSTANCE GameRounds WITH stage <- phase, seated <- Seated,
                                   awaited <- Awaited

\* The handlers implement the rounds of GameRounds: each question is closed by
\* its last answer and by nothing else, and closing it opens the next one.
ImplementsRounds == Rounds!Spec

-----------------------------------------------------------------------------
(* What comments and messages of the source say, and the code does not do *)

\* mqtts.go:421-422 says of a failed mission: "Players chose to sabotage the
\* mission".  The list of saboteurs published with it names somebody.
SabotageHasSaboteur ==
  "uppdrag saboterat" \in Said(announced) => About(announced, "saboterare") # {}


=============================================================================
