----------------------------- MODULE MCGameState -----------------------------
(* Small instances of GameState for TLC. *)
EXTENDS GameState

CONSTANT MaxMissions  \* bound on the missions counted in one game

\* The steps that keep within the bound: the two counters are the only
\* variables that grow.
MCNext == Next /\ successCount' + failureCount' <= MaxMissions

MCSpec == Init /\ [][MCNext]_vars

\* The server has its client before the first request comes in.
ServedSpec == Init /\ [][MCNext /\ (mqttClient = "nil" => AssignClient)]_vars

\* Registering and starting only, for a table large enough for the production
\* build to use its table of teams.
DealNext ==
  \/ AssignClient
  \/ \E p \in PlayerIds : AddPlayer(p)
  \/ \E p \in PlayerIds : AddDuplicate(p)
  \/ StartTooFew
  \/ StartGame

DealSpec == Init /\ [][DealNext]_vars

=============================================================================
