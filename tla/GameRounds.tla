------------------------------ MODULE GameRounds ------------------------------
(***************************************************************************)
(* What the game promises, without ballots or counters: at any time one    *)
(* question is open (a leader vote, a mission, a vote to kick the leader)  *)
(* and some of the seated players still owe it an answer.  A question      *)
(* closes exactly when the last of them answers, and its closing opens the *)
(* next one.  GameState is shown to implement this specification.          *)
(***************************************************************************)
CONSTANTS PlayerIds,  \* everybody who may join
          NoPlayer    \* the leader before the first game

VARIABLES stage,      \* the question that is open
          seated,     \* the players of the game
          awaited,    \* those who still owe an answer to the open question
          leader      \* the player the question is about

vars == <<stage, seated, awaited, leader>>

Stages == {"IDLE", "LEADER_VOTE", "MISSION", "KICK_VOTE"}

Init ==
  /\ stage = "IDLE"
  /\ seated = {}
  /\ awaited = {}
  /\ leader = NoPlayer

\* Who joins a running game owes an answer to the question that is open.
Join(p) ==
  /\ p \notin seated
  /\ seated' = seated \cup {p}
  /\ awaited' = IF stage = "IDLE" THEN {} ELSE awaited \cup {p}
  /\ UNCHANGED <<stage, leader>>

\* A game starts, or starts again: votes already cast stay cast.
Deal ==
  /\ seated # {}
  /\ stage' = "LEADER_VOTE"
  /\ awaited' = IF stage \in {"LEADER_VOTE", "KICK_VOTE"} THEN awaited ELSE seated
  /\ leader' \in seated
  /\ UNCHANGED seated

\* An answer that is not the last one.
Answer(p) ==
  /\ stage # "IDLE"
  /\ p \in awaited
  /\ awaited # {p}
  /\ awaited' = awaited \ {p}
  /\ UNCHANGED <<stage, seated, leader>>

\* The lead passes to another of the players, if there is another.
Passes(ids) ==
  IF ids \subseteq {leader} THEN leader' = leader
  ELSE leader' \in ids \ {leader}

\* The last answer to a leader vote: the mission begins, or another leader is
\* proposed.  Decisions left over from a game that was started again count for
\* the mission, but never all of them.
CloseLeaderVote(p) ==
  /\ stage = "LEADER_VOTE"
  /\ awaited = {p}
  /\ \/ /\ stage' = "MISSION"
        /\ awaited' \in (SUBSET seated) \ {{}}
        /\ UNCHANGED leader
     \/ /\ stage' = "LEADER_VOTE"
        /\ awaited' = seated
        /\ Passes(seated)
  /\ UNCHANGED seated

CloseMission(p) ==
  /\ stage = "MISSION"
  /\ awaited = {p}
  /\ stage' = "KICK_VOTE"
  /\ awaited' = seated
  /\ UNCHANGED <<seated, leader>>

\* The last answer to a vote to kick: at most the leader leaves.
CloseKickVote(p) ==
  /\ stage = "KICK_VOTE"
  /\ awaited = {p}
  /\ stage' = "LEADER_VOTE"
  /\ seated' \in {seated, seated \ {leader}}
  /\ awaited' = seated'
  /\ Passes(seated')

Next ==
  \/ \E p \in PlayerIds : Join(p)
  \/ Deal
  \/ \E p \in PlayerIds : Answer(p)
  \/ \E p \in PlayerIds : CloseLeaderVote(p)
  \/ \E p \in PlayerIds : CloseMission(p)
  \/ \E p \in PlayerIds : CloseKickVote(p)

Spec == Init /\ [][Next]_vars

=============================================================================
