------------------------------ MODULE MCServer ------------------------------
(* Small instances of Server for TLC. *)
EXTENDS Server

CONSTANT MaxMissions  \* bound on the missions counted in one game

MCNext == ServerNext /\ successCount' + failureCount' <= MaxMissions

MCSpec == ServerInit /\ [][MCNext]_serverVars

MCFair == MCSpec /\ Fairness

\* Everybody has joined before the broker was reached and was subscribed then,
\* and somebody holds the name given to each address.
TableInit ==
  /\ phase = "IDLE"
  /\ players = [p \in PlayerIds |-> NewPlayer]
  /\ leader = NoPlayer
  /\ round = 0
  /\ successCount = 0
  /\ failureCount = 0
  /\ announced = <<Msg("DEBUG_NEW_PLAYER_JOINED", {})>>
  /\ mqttClient = "set"
  /\ lockLost = FALSE
  /\ broker = "done"
  /\ toVisit = {}
  /\ link = "open"
  /\ subscribed = PlayerIds
  /\ \E p \in PlayerIds : ipToName = [c \in Conns |-> p]
  /\ job = [h \in Handlers |-> IdleJob]
  /\ inbox = <<>>
  /\ uplink = NoMessage
  /\ cooling = {}
  /\ crashed = FALSE

\* From there on nobody asks for a name or a certificate.
TableNext ==
  /\ MCNext
  /\ \A h \in Handlers : job'[h].at \in {"idle", "start", "deal"}

TableSpec ==
  /\ TableInit /\ [][TableNext]_serverVars
  /\ Fairness
  /\ \A p \in Attentive : SF_serverVars(Answer(p))

=============================================================================
