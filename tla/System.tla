------------------------------- MODULE System -------------------------------
(***************************************************************************)
(* The server with the devices of its players.  Each device goes through   *)
(* the steps of Client, which module Device implements; its requests are   *)
(* served by the handlers of Server, its choices come in as uplinks.       *)
(*                                                                         *)
(* A request comes over a connection of its own, whose address is chosen   *)
(* by the network: any text host+port, one seen before included.  The      *)
(* answer of a handler leaves when the handler returns, since it fits the  *)
(* buffer of net/http; a panic drops it.  A device that stops waiting, or  *)
(* resets, does not stop the handler.                                      *)
(***************************************************************************)
EXTENDS Server

CONSTANTS Devices,
          NoDevice,   \* nobody waits for the handler any more
          Unnamed,    \* the empty name, which is never given out
          Choices     \* what players choose at the console

ASSUME SystemConstants ==
  /\ Unnamed \in PlayerIds
  /\ NoDevice \notin Devices
  /\ Choices \subseteq {"ok", "neka", "lyckas", "sabotage", "starta"}

VARIABLES dev,        \* how far each device is
          serving,    \* the device that waits for each handler's answer
          kicked,     \* history: the players removed and not back
          disturbed   \* history: a subscription was thrown away or forgotten

historyVars == <<kicked, disturbed>>
systemVars == <<serverVars, dev, serving, historyVars>>

NewDevice == [step |-> "register", waiting |-> FALSE, name |-> Unnamed, cert |-> {}]

\* After a request comes the next step, whatever the answer was.
After == [register |-> "csr", csr |-> "certificate", start |-> "play"]

DeviceState == [step: {"register", "csr", "certificate", "start", "play"},
                waiting: BOOLEAN, name: PlayerIds, cert: SUBSET PlayerIds]

SystemInit ==
  /\ ServerInit
  /\ dev = [d \in Devices |-> NewDevice]
  /\ serving = [h \in Handlers |-> NoDevice]
  /\ kicked = {}
  /\ disturbed = FALSE

\* The handlers that d waited for go on for nobody.
Abandoned(d) == [h \in Handlers |-> IF serving[h] = d THEN NoDevice ELSE serving[h]]

-----------------------------------------------------------------------------
(* The devices *)

\* The request d makes at its step, as a handler receives it.
Posts(d, h) ==
  \/ dev[d].step = "register" /\ \E c \in Conns : PostSpelare(h, c)
  \/ dev[d].step = "csr" /\ PostCsr(h, dev[d].name)
  \/ dev[d].step = "start" /\ \E c \in Conns : PostStart(h, c)

\* The request comes to a handler, or is lost, or is refused unread.
Asks(d) ==
  /\ dev[d].step \in DOMAIN After
  /\ ~dev[d].waiting
  /\ dev' = [dev EXCEPT ![d].waiting = TRUE]
  /\ \/ \E h \in Handlers : Posts(d, h) /\ serving' = [serving EXCEPT ![h] = d]
     \/ UNCHANGED <<serverVars, serving>>
  /\ UNCHANGED historyVars

\* The device goes on without having asked.
Skips(d) ==
  /\ dev[d].step \in DOMAIN After
  /\ ~dev[d].waiting
  /\ dev' = [dev EXCEPT ![d].step = After[dev[d].step]]
  /\ UNCHANGED <<serverVars, serving, historyVars>>

\* Mutant: the handler ends with the connection.
Ends_Cancel(d) ==
  /\ dev[d].waiting
  /\ dev' = [dev EXCEPT ![d].waiting = FALSE, ![d].step = After[dev[d].step]]
  /\ serving' = Abandoned(d)
  /\ job' = [h \in Handlers |-> IF serving[h] = d THEN IdleJob ELSE job[h]]
  /\ UNCHANGED <<vars, brokerVars, ipToName, uplinkVars, crashed, historyVars>>

\* Mutant: the device asks again for what it was not answered in time.
Ends_Retry(d) ==
  /\ dev[d].waiting
  /\ \/ dev' = [dev EXCEPT ![d].waiting = FALSE, ![d].step = After[dev[d].step]]
     \/ dev' = [dev EXCEPT ![d].waiting = FALSE]
  /\ serving' = Abandoned(d)
  /\ UNCHANGED <<serverVars, historyVars>>

\* The request has been answered, has failed or has timed out.
Ends(d) ==
  /\ dev[d].waiting
  /\ dev' = [dev EXCEPT ![d].waiting = FALSE, ![d].step = After[dev[d].step]]
  /\ serving' = Abandoned(d)
  /\ UNCHANGED <<serverVars, historyVars>>

\* Mutant: the device goes on to the start without its certificate.
MovesOn_Uncertified(d) ==
  /\ dev[d].step = "certificate"
  /\ dev' = [dev EXCEPT ![d].step = "start"]
  /\ UNCHANGED <<serverVars, serving, historyVars>>

MovesOn(d) ==
  /\ dev[d].step = "certificate"
  /\ dev[d].cert # {}
  /\ dev' = [dev EXCEPT ![d].step = "start"]
  /\ UNCHANGED <<serverVars, serving, historyVars>>

\* The device resets.  Its player stays in the game.
Resets(d) ==
  /\ dev' = [dev EXCEPT ![d] = NewDevice]
  /\ serving' = Abandoned(d)
  /\ UNCHANGED <<serverVars, historyVars>>

\* What the server makes of a choice: it does not know "sabotage", nor "starta".
Val(c) == IF c \in Vals THEN c ELSE "other"

ASSUME ChoicesAreSent == \A c \in Choices : Val(c) \in SentVals

\* Mutant: the broker lets a device write to every topic.
Chooses_AnyTopic(d) ==
  /\ dev[d].step = "play"
  /\ \E p \in PlayerIds, c \in Choices : Publish(p, Val(c))
  /\ UNCHANGED <<dev, serving, historyVars>>

\* The firmware connects with its name as client id, and the broker lets a
\* client write to the uplink topic of its own id: the name is the one the
\* device is certified for.
Chooses(d) ==
  /\ dev[d].step = "play"
  /\ dev[d].cert = {dev[d].name}
  /\ \E c \in Choices : Publish(dev[d].name, Val(c))
  /\ UNCHANGED <<dev, serving, historyVars>>

-----------------------------------------------------------------------------
(* The server *)

\* Mutant: a refusal is taken for a name.
Answered_Refusal(h, d) ==
  /\ mqttClient = "set"
  /\ \/ /\ job[h].at \in {"spelare", "subscribe"}
        /\ dev' = [dev EXCEPT ![d].name = job[h].name]
     \/ /\ job[h].at = "csr"
        /\ dev' = [dev EXCEPT ![d].cert = {job[h].name}]

\* A name or a certificate reaches the device that waits for it, unless the
\* handler panics for want of a client.
Answered(h, d) ==
  /\ mqttClient = "set"
  /\ \/ /\ job[h].at = "subscribe"
        /\ dev' = [dev EXCEPT ![d].name = job[h].name]
     \/ /\ job[h].at = "csr"
        /\ dev' = [dev EXCEPT ![d].cert = {job[h].name}]

\* Mutant: a written answer leaves at once, before the subscription.
AnswerLeaves_Written(h) ==
  \/ /\ job'[h].at = "subscribe" /\ serving[h] # NoDevice
     /\ dev' = [dev EXCEPT ![serving[h]].name = job'[h].name]
     /\ serving' = [serving EXCEPT ![h] = NoDevice]
  \/ /\ job'[h].at # "idle"
     /\ UNCHANGED <<dev, serving>>
  \/ /\ job'[h].at = "idle"
     /\ (serving[h] # NoDevice /\ Answered(h, serving[h])) \/ UNCHANGED dev
     /\ serving' = [serving EXCEPT ![h] = NoDevice]

\* When a handler returns its answer goes to the device that still waits for
\* it, or is lost.
AnswerLeaves(h) ==
  \/ /\ job'[h].at # "idle"
     /\ UNCHANGED <<dev, serving>>
  \/ /\ job'[h].at = "idle"
     /\ (serving[h] # NoDevice /\ Answered(h, serving[h])) \/ UNCHANGED dev
     /\ serving' = [serving EXCEPT ![h] = NoDevice]

\* One step of a handler.  The name that is drawn is not empty.
Handles(h) ==
  /\ HandlerStep(h)
  /\ job'[h].at = "storing" => job'[h].name # Unnamed
  /\ AnswerLeaves(h)
  /\ disturbed' = (disturbed \/ (job[h].at = "subscribe" /\ link # "open"))
  /\ kicked' = kicked \ Seated'

\* The other goroutines: a loss of the link forgets every subscription.
ServerGoesOn ==
  /\ \/ BrokerNext
     \/ CheckUplink
     \/ ApplyUplink
     \/ \E p \in PlayerIds : CooldownEnds(p)
     \/ \E h \in Handlers : NamesRace(h)
     \/ PlayersRace
  /\ disturbed' = (disturbed \/ link' = "lost")
  /\ kicked' = kicked \cup (Seated \ Seated')
  /\ UNCHANGED <<dev, serving>>

-----------------------------------------------------------------------------
DeviceStep(d) ==
  \/ Asks(d)
  \/ Skips(d)
  \/ Ends(d)
  \/ MovesOn(d)
  \/ Resets(d)
  \/ Chooses(d)

SystemNext ==
  \/ \E d \in Devices : DeviceStep(d)
  \/ \E h \in Handlers : Handles(h)
  \/ ServerGoesOn

SystemSpec == SystemInit /\ [][SystemNext]_systemVars

-----------------------------------------------------------------------------
(* Properties *)

\* Every variable System adds keeps its type.
SystemTypeOK ==
  /\ dev \in [Devices -> DeviceState]
  /\ serving \in [Handlers -> Devices \cup {NoDevice}]
  /\ kicked \subseteq PlayerIds
  /\ disturbed \in BOOLEAN

\* A device with a certificate has its player in the game, or the player was
\* kicked out: although the handler writes the certificate before it adds the
\* player, and goes on when the device has stopped waiting, nobody comes to
\* the start certified and absent.
CertifiedIsSeated == \A d \in Devices : dev[d].cert \subseteq Seated \cup kicked

\* handleUplink drops the messages of whom it does not find in the game.  They
\* are only those of players who were kicked out: no message overtakes the
\* addPlayer of its sender, though the certificate is written before it.
StrangersWereKicked == \A i \in DOMAIN inbox : inbox[i].from \in Seated \cup kicked

\* A start without players loses the lock.  None is on its way before somebody
\* was in the game: who asks for a start was certified first, and stays in the
\* game or was kicked out, even when the device has since been reset.
StartsHavePlayers ==
  \A h \in Handlers : job[h].at \in {"start", "deal"} => Seated \cup kicked # {}

\* The server hears everybody who plays under a name it gave out, unless the
\* link to the broker was down at a subscription or lost: a device learns its
\* name only once the server has subscribed to it, so that a player cannot be
\* in the game before.  Who was given no name plays under the empty one.
MuteHasCause == disturbed \/ Seated \subseteq subscribed \cup {Unnamed}

\* The server between these devices is the one of module Server.
ImplementsServer == ServerSpec

Registration(d) ==
  INSTANCE Client WITH Names <- PlayerIds, NoName <- Unnamed,
    step <- dev[d].step, waiting <- dev[d].waiting,
    name <- dev[d].name, cert <- dev[d].cert

\* Each device keeps to its part, whatever the server answers, and when: no
\* answer reaches a device that has stopped waiting for it and asked for
\* something else, and a certificate is for the name the device then has.
ImplementsClients ==
  /\ \A d \in Devices : Registration(d)!Init
  /\ [][\A d \in Devices : [Registration(d)!Next]_(dev[d])]_dev

-----------------------------------------------------------------------------
(* What an answer of the server says, and the code does not do *)

\* https.go:153 answers a start with "You haven't registered to play!": whoever
\* is told so was given no name.
OnlyStrangersAreRefused ==
  [][\A h \in Handlers :
       /\ job[h].at = "start" /\ job'[h].at = "idle"
       /\ job[h].conn \notin DOMAIN ipToName
       /\ serving[h] # NoDevice
       => dev[serving[h]].name = Unnamed]_systemVars

\* serial.c:76 prints "Choice: SABOTAGE" and publishes the choice: once it is
\* handled in a mission, it is the player's decision, or was counted as such
\* in the mission it closed.  Where Choices has no other text the server does
\* not know, such a choice is told by its value.
SabotageIsDecided ==
  [][/\ phase = "MISSION"
     /\ uplink.val = Val("sabotage")
     /\ uplink' = NoMessage
     => uplink.from \in Saboteurs(players') \cup About(announced', "saboterare")]_systemVars

=============================================================================
