------------------------------ MODULE MCSystem ------------------------------
(* Small instances of System for TLC. *)
EXTENDS System, TLC

CONSTANTS MaxMissions,  \* bound on the missions counted in one game
          LinkHolds,    \* the link to the broker is not lost
          Steady        \* devices that are answered each time, and not reset

\* A steady device gets a name before a certificate, and that before a start.
KeepsSteady(d) ==
  /\ dev'[d] = NewDevice => dev[d] = NewDevice
  /\ dev'[d].step # "register" => dev'[d].name # Unnamed
  /\ dev'[d].step = "certificate" => dev'[d].cert # {}

\* The devices are switched on when the server has reached the broker; what
\* comes in before that, run server_http has.  Nobody chooses before a start or
\* within the cooldown of an earlier choice, as in server_answers, and
\* nothing is followed beyond the loss of the lock.
MCNext ==
  /\ ~lockLost
  /\ SystemNext
  /\ broker # "done" => UNCHANGED dev
  /\ \A d \in Steady : KeepsSteady(d)
  /\ phase = "IDLE" => inbox' = <<>>
  /\ \A i \in DOMAIN inbox' : inbox'[i].from \notin cooling'
  /\ successCount' + failureCount' <= MaxMissions
  /\ LinkHolds => link' # "lost"

MCSpec == SystemInit /\ [][MCNext]_systemVars

\* No property tells one handler from another.
AlikeHandlers == Permutations(Handlers)

=============================================================================
