---------------------------- MODULE SystemProofs ----------------------------
(***************************************************************************)
(* Proofs about System, for every set of devices, players, addresses and   *)
(* handlers: the server between its devices is the server of Server, each  *)
(* device keeps to Client, and what a device holds fits the game.          *)
(***************************************************************************)
EXTENDS System, ServerProofs

\* The steps of a handler that serves a device at each of its steps.
StepsAt(step) ==
  CASE step = "register" -> {"spelare", "lookup", "storing", "subscribe"}
    [] step = "csr" -> {"csr"}
    [] step = "start" -> {"start", "deal"}
    [] OTHER -> {}

\* A handler serves what its device is waiting for; a device waits only after
\* a request, and has one name when it asks for the certificate of that name.
ServesFit ==
  \A h \in Handlers : serving[h] # NoDevice =>
    LET d == dev[serving[h]]
    IN  /\ d.waiting
        /\ job[h].at \in StepsAt(d.step)
        /\ job[h].at = "csr" => job[h].name = d.name

AskersWait == \A d \in Devices : dev[d].waiting => dev[d].step \in DOMAIN After

\* Who may be in the game while nothing was disturbed.
Forwarded == subscribed \cup {Unnamed}

\* Names come from the server, after the subscription; and only named devices
\* ask for a certificate, and with it for a seat.
NamesAreHeard ==
  ~disturbed =>
    /\ \A d \in Devices : dev[d].name \in Forwarded
    /\ \A h \in Handlers : job[h].at = "csr" => job[h].name \in Forwarded
    /\ Seated \subseteq Forwarded

\* The way to a start leads past a certificate.
StartersCertified == \A d \in Devices : dev[d].step = "start" => dev[d].cert # {}

SystemInv ==
  /\ ServerInv
  /\ SystemTypeOK
  /\ ServesFit
  /\ AskersWait
  /\ CertifiedIsSeated
  /\ StartersCertified
  /\ StrangersWereKicked
  /\ StartsHavePlayers
  /\ NamesAreHeard

-----------------------------------------------------------------------------
(* The server *)

\* What the devices and the network do to the server is a step of Server.
LEMMA StepOfTheServer ==
  ASSUME SystemTypeOK, [SystemNext]_systemVars
  PROVE  [ServerNext]_serverVars
<1>1. CASE UNCHANGED systemVars
  BY <1>1 DEF systemVars
<1>2. ASSUME NEW d \in Devices, Asks(d)
      PROVE  [ServerNext]_serverVars
  <2>1. dev[d].name \in PlayerIds
    BY DEF SystemTypeOK, DeviceState
  <2>2. CASE UNCHANGED serverVars
    BY <2>2
  <2>3. ASSUME NEW h \in Handlers, Posts(d, h)
        PROVE  Request(h)
    BY <2>1, <2>3 DEF Posts, Request
  <2> QED
    BY <1>2, <2>2, <2>3 DEF Asks, ServerNext
<1>3. ASSUME NEW d \in Devices, Skips(d) \/ Ends(d) \/ MovesOn(d) \/ Resets(d)
      PROVE  UNCHANGED serverVars
  BY <1>3 DEF Skips, Ends, MovesOn, Resets
<1>4. ASSUME NEW d \in Devices, Chooses(d)
      PROVE  UplinkNext
  <2>1. dev[d].name \in PlayerIds
    BY DEF SystemTypeOK, DeviceState
  <2>2. PICK c \in Choices : Publish(dev[d].name, Val(c))
    BY <1>4 DEF Chooses
  <2> QED
    BY <2>1, <2>2, ChoicesAreSent DEF UplinkNext
<1>5. ASSUME NEW h \in Handlers, Handles(h)
      PROVE  HandlerStep(h)
  BY <1>5 DEF Handles
<1>6. CASE ServerGoesOn
  BY <1>6 DEF ServerGoesOn, ServerNext, UplinkNext
<1> QED
  BY <1>1, <1>2, <1>3, <1>4, <1>5, <1>6 DEF SystemNext, DeviceStep, ServerNext

\* A step of a handler changes its own job only, and goes on with the same
\* request or ends it.
LEMMA JobGoesOn ==
  ASSUME ServerInv, NEW h \in Handlers, HandlerStep(h)
  PROVE  /\ \A g \in Handlers \ {h} : job'[g] = job[g]
         /\ \/ job'[h].at = "idle"
            \/ job[h].at \in {"spelare", "lookup", "storing"}
               /\ job'[h].at \in {"lookup", "storing", "subscribe"}
            \/ job[h].at = "start" /\ job'[h].at = "deal"
         /\ job[h].at # "idle"
<1>1. job \in [Handlers -> Job] /\ job[h] \in Job
  BY DEF ServerInv, OwnTypes
<1>2. CASE RefuseId(h) \/ SubscribeUplink(h) \/ JoinGame(h) \/ RefuseStart(h) \/ DealGame(h)
  BY <1>1, <1>2 DEF RefuseId, SubscribeUplink, JoinGame, RefuseStart, DealGame, Finish, IdleJob
<1>3. CASE AllowId(h) \/ StoreName(h) \/ AllowStart(h)
  BY <1>1, <1>3 DEF AllowId, StoreName, AllowStart, Goto, Job
<1>4. CASE LookUpName(h)
  BY <1>1, <1>4 DEF LookUpName, Job
<1> QED
  BY <1>2, <1>3, <1>4 DEF HandlerStep

-----------------------------------------------------------------------------
(* Types *)

\* An answer changes the name or the certificate of one device, to the name the
\* handler has; and only a handler that subscribes or signs gives one.
LEMMA AnswerGiven ==
  ASSUME SystemTypeOK, ServerInv, NEW h \in Handlers, Handles(h)
  PROVE  /\ serving' \in [Handlers -> Devices \cup {NoDevice}]
         /\ \A g \in Handlers \ {h} : serving'[g] = serving[g]
         /\ job'[h].at = "idle" => serving'[h] = NoDevice
         /\ job'[h].at # "idle" => serving' = serving /\ dev' = dev
         /\ \/ dev' = dev
            \/ /\ job[h].at = "subscribe" /\ serving[h] \in Devices
               /\ dev' = [dev EXCEPT ![serving[h]].name = job[h].name]
               /\ job[h].name \in PlayerIds
            \/ /\ job[h].at = "csr" /\ serving[h] \in Devices
               /\ dev' = [dev EXCEPT ![serving[h]].cert = {job[h].name}]
               /\ job[h].name \in PlayerIds
<1>1. AnswerLeaves(h)
  BY DEF Handles
<1>2. job[h].at \in {"subscribe", "csr"} => job[h].name \in PlayerIds
  BY DEF ServerInv, JobsFit
<1>3. serving \in [Handlers -> Devices \cup {NoDevice}]
  BY DEF SystemTypeOK
<1>4. CASE job'[h].at # "idle"
  BY <1>1, <1>3, <1>4 DEF AnswerLeaves
<1>5. CASE job'[h].at = "idle"
  <2>1. /\ serving' = [serving EXCEPT ![h] = NoDevice]
        /\ (serving[h] # NoDevice /\ Answered(h, serving[h])) \/ UNCHANGED dev
    BY <1>1, <1>5 DEF AnswerLeaves
  <2> QED
    BY <1>2, <1>3, <1>5, <2>1 DEF Answered
<1> QED
  BY <1>4, <1>5

\* What a step of a device does to the devices and whom handlers serve.
LEMMA DeviceMoves ==
  ASSUME SystemTypeOK, AskersWait, NEW d \in Devices, DeviceStep(d)
  PROVE  /\ dev' \in [Devices -> DeviceState]
         /\ \A e \in Devices \ {d} : dev'[e] = dev[e]
         /\ serving' \in [Handlers -> Devices \cup {NoDevice}]
         /\ UNCHANGED historyVars
<1>1. dev \in [Devices -> DeviceState] /\ dev[d] \in DeviceState
      /\ serving \in [Handlers -> Devices \cup {NoDevice}]
  BY DEF SystemTypeOK
<1>2. CASE Asks(d)
  <2>1. dev' = [dev EXCEPT ![d].waiting = TRUE]
        /\ (\/ \E h \in Handlers : serving' = [serving EXCEPT ![h] = d]
            \/ serving' = serving)
    BY <1>2 DEF Asks
  <2>2. [dev[d] EXCEPT !.waiting = TRUE] \in DeviceState
    BY <1>1 DEF DeviceState
  <2> QED
    BY <1>1, <1>2, <2>1, <2>2 DEF Asks
<1>3. CASE Skips(d) \/ MovesOn(d)
  <2>1. PICK next \in {"csr", "certificate", "start", "play"} :
          dev' = [dev EXCEPT ![d].step = next]
    BY <1>3 DEF Skips, MovesOn, After
  <2>2. [dev[d] EXCEPT !.step = next] \in DeviceState
    BY <1>1 DEF DeviceState
  <2> QED
    BY <1>1, <1>3, <2>1, <2>2 DEF Skips, MovesOn
<1>4. CASE Ends(d)
  <2>1. PICK next \in {"csr", "certificate", "play"} : next = After[dev[d].step]
    BY <1>4 DEF Ends, AskersWait, After
  <2>2. [dev[d] EXCEPT !.waiting = FALSE, !.step = next] \in DeviceState
    BY <1>1 DEF DeviceState
  <2>3. dev' = [dev EXCEPT ![d] = [dev[d] EXCEPT !.waiting = FALSE, !.step = next]]
    BY <1>1, <1>4, <2>1 DEF Ends
  <2> QED
    BY <1>1, <1>4, <2>2, <2>3 DEF Ends, Abandoned
<1>5. CASE Resets(d)
  <2>1. NewDevice \in DeviceState
    BY SystemConstants DEF NewDevice, DeviceState
  <2> QED
    BY <1>1, <1>5, <2>1 DEF Resets, Abandoned
<1>6. CASE Chooses(d)
  BY <1>1, <1>6 DEF Chooses
<1> QED
  BY <1>2, <1>3, <1>4, <1>5, <1>6 DEF DeviceStep

\* Everything System adds keeps its type.
LEMMA TypesStep ==
  ASSUME SystemTypeOK, AskersWait, ServerInv, ServerInv', [SystemNext]_systemVars
  PROVE  SystemTypeOK'
<1>1. Seated \subseteq PlayerIds /\ Seated' \subseteq PlayerIds
  BY DEF ServerInv, Inv, TypeOK
<1>2. CASE UNCHANGED systemVars
  BY <1>2 DEF systemVars, historyVars, SystemTypeOK
<1>3. ASSUME NEW d \in Devices, DeviceStep(d)
      PROVE  SystemTypeOK'
  BY <1>3, DeviceMoves DEF SystemTypeOK, historyVars
<1>4. ASSUME NEW h \in Handlers, Handles(h)
      PROVE  SystemTypeOK'
  <2>1. dev \in [Devices -> DeviceState]
    BY DEF SystemTypeOK
  <2>2. dev' \in [Devices -> DeviceState]
    <3>1. ASSUME NEW d \in Devices, NEW n \in PlayerIds
          PROVE  [dev[d] EXCEPT !.name = n] \in DeviceState
                 /\ [dev[d] EXCEPT !.cert = {n}] \in DeviceState
      BY <2>1 DEF DeviceState
    <3>2. CASE dev' = dev
      BY <2>1, <3>2
    <3>3. ASSUME serving[h] \in Devices, job[h].name \in PlayerIds,
                 dev' \in {[dev EXCEPT ![serving[h]].name = job[h].name],
                           [dev EXCEPT ![serving[h]].cert = {job[h].name}]}
          PROVE  dev' \in [Devices -> DeviceState]
      BY <2>1, <3>1, <3>3
    <3> QED
      BY <1>4, <3>2, <3>3, AnswerGiven
  <2>3. disturbed' \in BOOLEAN
    BY <1>4, Zenon DEF Handles
  <2>4. kicked' \subseteq PlayerIds
    BY <1>4 DEF Handles, SystemTypeOK
  <2> QED
    BY <1>4, <2>2, <2>3, <2>4, AnswerGiven DEF SystemTypeOK
<1>5. CASE ServerGoesOn
  <2>1. disturbed' \in BOOLEAN
    BY <1>5, Zenon DEF ServerGoesOn
  <2>2. kicked' \subseteq PlayerIds /\ UNCHANGED <<dev, serving>>
    BY <1>1, <1>5 DEF ServerGoesOn, SystemTypeOK
  <2> QED
    BY <2>1, <2>2 DEF SystemTypeOK
<1> QED
  BY <1>2, <1>3, <1>4, <1>5 DEF SystemNext

-----------------------------------------------------------------------------
(* Whom the handlers serve *)

\* Only a device that waits is served, so that nobody serves one that does not.
LEMMA UnservedWaitsNot ==
  ASSUME ServesFit, NEW d \in Devices, ~dev[d].waiting
  PROVE  \A h \in Handlers : serving[h] # d
BY SystemConstants DEF ServesFit

\* The steps of a device.
LEMMA ServesDevice ==
  ASSUME SystemTypeOK, ServerInv, ServesFit, AskersWait, NEW d \in Devices, DeviceStep(d)
  PROVE  ServesFit' /\ AskersWait'
<1>1. dev \in [Devices -> DeviceState] /\ job \in [Handlers -> Job]
      /\ serving \in [Handlers -> Devices \cup {NoDevice}]
  BY DEF SystemTypeOK, ServerInv, OwnTypes
<1> USE SystemConstants
<1>2. CASE Asks(d)
  <2>1. dev' = [dev EXCEPT ![d].waiting = TRUE] /\ dev[d].step \in DOMAIN After
    BY <1>2 DEF Asks
  <2>2. AskersWait'
    BY <1>1, <2>1 DEF AskersWait
  <2>3. \A h \in Handlers : serving[h] # d
    BY <1>2, UnservedWaitsNot DEF Asks
  <2>4. CASE UNCHANGED <<serverVars, serving>>
    <3>1. job' = job /\ serving' = serving
      BY <2>4 DEF serverVars, requestVars
    <3>2. ASSUME NEW h \in Handlers, serving[h] # NoDevice
          PROVE  dev'[serving[h]] = dev[serving[h]]
      BY <1>1, <2>1, <2>3, <3>2
    <3> QED
      BY <2>2, <3>1, <3>2 DEF ServesFit
  <2>5. ASSUME NEW h \in Handlers, Posts(d, h), serving' = [serving EXCEPT ![h] = d]
        PROVE  ServesFit'
    <3>1. /\ \A g \in Handlers \ {h} : job'[g] = job[g]
          /\ job'[h].at \in StepsAt(dev[d].step)
          /\ job'[h].at = "csr" => job'[h].name = dev[d].name
      BY <1>1, <2>5 DEF Posts, PostSpelare, PostCsr, PostStart, StepsAt, Job
    <3>2. dev'[d].waiting /\ dev'[d].step = dev[d].step /\ dev'[d].name = dev[d].name
      BY <1>1, <2>1 DEF DeviceState
    <3>3. ASSUME NEW g \in Handlers \ {h}, serving[g] # NoDevice
          PROVE  dev'[serving[g]] = dev[serving[g]]
      BY <1>1, <2>1, <2>3, <3>3
    <3> QED
      BY <1>1, <2>5, <3>1, <3>2, <3>3 DEF ServesFit
  <2> QED
    BY <1>2, <2>2, <2>4, <2>5 DEF Asks
<1>3. CASE Skips(d) \/ MovesOn(d)
  <2>1. ~dev[d].waiting
    BY <1>3 DEF Skips, MovesOn, AskersWait, After
  <2>2. /\ job' = job /\ serving' = serving
        /\ dev'[d].waiting = dev[d].waiting
    BY <1>1, <1>3 DEF Skips, MovesOn, serverVars, requestVars, DeviceState
  <2>3. AskersWait'
    BY <1>3, <2>1, <2>2, DeviceMoves DEF DeviceStep, AskersWait
  <2>4. ASSUME NEW h \in Handlers, serving[h] # NoDevice
        PROVE  dev'[serving[h]] = dev[serving[h]]
    BY <1>1, <1>3, <2>1, <2>4, UnservedWaitsNot, DeviceMoves DEF DeviceStep
  <2> QED
    BY <2>2, <2>3, <2>4 DEF ServesFit
<1>4. CASE Ends(d) \/ Resets(d)
  <2>1. job' = job /\ serving' = Abandoned(d)
    BY <1>4 DEF Ends, Resets, serverVars, requestVars
  <2>2. dev'[d].waiting = FALSE
    BY <1>1, <1>4 DEF Ends, Resets, NewDevice, DeviceState
  <2>3. AskersWait'
    BY <1>4, <2>2, DeviceMoves DEF DeviceStep, AskersWait
  <2>4. ASSUME NEW h \in Handlers, serving'[h] # NoDevice
        PROVE  serving'[h] = serving[h] /\ dev'[serving[h]] = dev[serving[h]]
    BY <1>1, <1>4, <2>1, <2>4, DeviceMoves DEF Abandoned, DeviceStep
  <2> QED
    BY <2>1, <2>3, <2>4 DEF ServesFit
<1>5. CASE Chooses(d)
  BY <1>5 DEF Chooses, Publish, ServesFit, AskersWait, requestVars
<1> QED
  BY <1>2, <1>3, <1>4, <1>5 DEF DeviceStep

\* The steps of a handler.
LEMMA ServesHandler ==
  ASSUME SystemTypeOK, ServerInv, ServesFit, AskersWait, NEW h \in Handlers, Handles(h)
  PROVE  ServesFit' /\ AskersWait'
<1> USE SystemConstants
<1>0. \A g \in Handlers \ {h} : serving'[g] = serving[g] /\ job'[g] = job[g]
  <2>1. HandlerStep(h)
    BY DEF Handles
  <2>2. \A g \in Handlers \ {h} : job'[g] = job[g]
    BY <2>1, JobGoesOn
  <2>3. \A g \in Handlers \ {h} : serving'[g] = serving[g]
    BY AnswerGiven
  <2> QED
    BY <2>2, <2>3
<1>1. dev \in [Devices -> DeviceState] /\ serving \in [Handlers -> Devices \cup {NoDevice}]
  BY DEF SystemTypeOK
<1>2. \A d \in Devices : /\ dev'[d].waiting = dev[d].waiting
                         /\ dev'[d].step = dev[d].step
                         /\ dev'[d].name # dev[d].name => job[h].at = "subscribe" /\ serving[h] = d
  <2>1. CASE dev' = dev
    BY <2>1
  <2>2. CASE dev' # dev
    BY <1>1, <2>2, AnswerGiven DEF DeviceState
  <2> QED
    BY <2>1, <2>2
<1>3. AskersWait'
  BY <1>2 DEF AskersWait
<1>4. ASSUME NEW g \in Handlers, serving'[g] # NoDevice
      PROVE  /\ dev'[serving'[g]].waiting
             /\ job'[g].at \in StepsAt(dev'[serving'[g]].step)
             /\ job'[g].at = "csr" => job'[g].name = dev'[serving'[g]].name
  <2>1. CASE g # h
    <3>1. serving'[g] = serving[g] /\ job'[g] = job[g]
      BY <1>0, <2>1
    <3>2. serving[g] # NoDevice /\ serving[g] \in Devices
      BY <1>1, <1>4, <3>1
    <3>3. serving[h] = serving[g] => ~(job[g].at = "csr" /\ job[h].at = "subscribe")
      BY <3>2 DEF ServesFit, StepsAt
    <3>4. job[g].at = "csr" => dev'[serving[g]].name = dev[serving[g]].name
      BY <1>2, <3>2, <3>3
    <3> QED
      BY <1>2, <1>4, <3>1, <3>2, <3>4 DEF ServesFit
  <2>2. CASE g = h
    <3>1. job'[h].at # "idle"
      BY <1>4, <2>2, AnswerGiven
    <3>2. serving' = serving /\ dev' = dev
      BY <3>1, AnswerGiven
    <3>3. \/ /\ job[h].at \in {"spelare", "lookup", "storing"}
             /\ job'[h].at \in {"lookup", "storing", "subscribe"}
          \/ job[h].at = "start" /\ job'[h].at = "deal"
      BY <3>1, JobGoesOn DEF Handles
    <3> QED
      BY <1>4, <2>2, <3>2, <3>3 DEF ServesFit, StepsAt
  <2> QED
    BY <2>1, <2>2
<1> QED
  BY <1>3, <1>4 DEF ServesFit

\* The other goroutines leave both alone.
LEMMA ServesOther ==
  ASSUME ServesFit, AskersWait, ServerGoesOn \/ UNCHANGED systemVars
  PROVE  ServesFit' /\ AskersWait'
<1>1. job' = job /\ UNCHANGED <<dev, serving>>
  BY DEF ServerGoesOn, BrokerNext, AssignBroker, ConnectFails, ConnectSucceeds, Resubscribe,
    ResubscribeEnds, LinkLost, Reconnect, Crash, CheckUplink, ApplyUplink, CooldownEnds,
    NamesRace, PlayersRace, requestVars, systemVars, serverVars
<1> QED
  BY <1>1 DEF ServesFit, AskersWait

-----------------------------------------------------------------------------
(* What the devices hold fits the game *)

\* A handler does not remove players, and one that signs adds its player.
LEMMA HandlersSeat ==
  ASSUME ServerInv, NEW h \in Handlers, HandlerStep(h)
  PROVE  /\ Seated \subseteq Seated'
         /\ Seated' \subseteq Seated \cup {job[h].name}
         /\ job[h].at # "csr" => Seated' = Seated
         /\ job[h].at = "csr" => job[h].name \in Seated'
<1>1. CASE JoinGame(h)
  <2>1. /\ Seated' \in {Seated, Seated \cup {job[h].name}}
        /\ job[h].name \in Seated' /\ job[h].at = "csr"
    BY <1>1 DEF JoinGame, AddPlayer, AddDuplicate, Joined, Seated
  <2> QED
    BY <2>1
<1>2. CASE DealGame(h)
  BY <1>2 DEF DealGame, StartTooFew, StartGame, Dealt, Seated
<1>3. CASE RefuseId(h) \/ AllowId(h) \/ LookUpName(h) \/ StoreName(h)
           \/ SubscribeUplink(h) \/ RefuseStart(h) \/ AllowStart(h)
  BY <1>3 DEF RefuseId, AllowId, LookUpName, StoreName, SubscribeUplink,
    RefuseStart, AllowStart, vars, Seated
<1> QED
  BY <1>1, <1>2, <1>3 DEF HandlerStep

\* A device neither seats nor subscribes anybody, and forgets at most.
LEMMA DeviceForgets ==
  ASSUME SystemTypeOK, NEW d \in Devices, DeviceStep(d)
  PROVE  /\ UNCHANGED <<players, subscribed, link, uplink, kicked, disturbed>>
         /\ dev'[d].name \in {dev[d].name, Unnamed}
         /\ dev'[d].cert \in {dev[d].cert, {}}
<1>1. dev \in [Devices -> DeviceState]
  BY DEF SystemTypeOK
<1>2. CASE Asks(d)
  BY <1>1, <1>2 DEF Asks, Posts, PostSpelare, PostCsr, PostStart, DeviceState, historyVars,
    serverVars, vars, brokerVars, uplinkVars
<1>3. CASE Skips(d) \/ MovesOn(d)
  BY <1>1, <1>3 DEF Skips, MovesOn, DeviceState, historyVars, serverVars, vars, brokerVars,
    uplinkVars
<1>4. CASE Ends(d) \/ Resets(d)
  BY <1>1, <1>4 DEF Ends, Resets, NewDevice, DeviceState, historyVars, serverVars, vars,
    brokerVars, uplinkVars
<1>5. CASE Chooses(d)
  BY <1>5 DEF Chooses, Publish, historyVars, vars, brokerVars
<1> QED
  BY <1>2, <1>3, <1>4, <1>5 DEF DeviceStep

\* A certificate that arrives is for the player the handler has just seated.
LEMMA CertifiedStep ==
  ASSUME SystemTypeOK, ServerInv, AskersWait, CertifiedIsSeated, [SystemNext]_systemVars
  PROVE  CertifiedIsSeated'
<1>1. CASE UNCHANGED systemVars
  BY <1>1 DEF systemVars, serverVars, vars, historyVars, CertifiedIsSeated, Seated
<1>2. ASSUME NEW d \in Devices, DeviceStep(d)
      PROVE  CertifiedIsSeated'
  <2>1. Seated' = Seated /\ kicked' = kicked /\ dev'[d].cert \in {dev[d].cert, {}}
    BY <1>2, DeviceForgets DEF Seated
  <2> QED
    BY <1>2, <2>1, DeviceMoves DEF CertifiedIsSeated
<1>3. ASSUME NEW h \in Handlers, Handles(h)
      PROVE  CertifiedIsSeated'
  <2>1. Seated \cup kicked \subseteq Seated' \cup kicked'
    BY <1>3, HandlersSeat DEF Handles
  <2>2. ASSUME NEW d \in Devices
        PROVE  dev'[d].cert \subseteq dev[d].cert \cup Seated'
    <3>1. dev \in [Devices -> DeviceState] /\ HandlerStep(h)
      BY <1>3 DEF SystemTypeOK, Handles
    <3>2. CASE dev' = dev
      BY <3>2
    <3>3. ASSUME serving[h] \in Devices,
                 dev' = [dev EXCEPT ![serving[h]].name = job[h].name]
          PROVE  dev'[d].cert = dev[d].cert
      BY <3>1, <3>3 DEF DeviceState
    <3>4. ASSUME serving[h] \in Devices, job[h].at = "csr",
                 dev' = [dev EXCEPT ![serving[h]].cert = {job[h].name}]
          PROVE  dev'[d].cert \subseteq dev[d].cert \cup Seated'
      <4>1. job[h].name \in Seated'
        BY <3>1, <3>4, HandlersSeat
      <4> QED
        BY <3>1, <3>4, <4>1 DEF DeviceState
    <3> QED
      BY <1>3, <3>2, <3>3, <3>4, AnswerGiven
  <2> QED
    BY <2>1, <2>2 DEF CertifiedIsSeated
<1>4. CASE ServerGoesOn
  BY <1>4 DEF ServerGoesOn, CertifiedIsSeated
<1> QED
  BY <1>1, <1>2, <1>3, <1>4 DEF SystemNext

\* The other goroutines seat nobody: an uplink may remove the leader.
LEMMA OthersSeatNobody ==
  ASSUME ServerGoesOn
  PROVE  Seated' \subseteq Seated
<1>1. CASE ApplyUplink
  <2>1. ASSUME NEW p, NEW val, Uplink(p, val)
        PROVE  Seated' \subseteq Seated
    <3>1. CASE LeaderVote(p, val)
      BY <3>1 DEF LeaderVote, ProcessLeaderVote, EvaluateLeaderVote, Recorded, ClearBallot, Seated
    <3>2. CASE MissionDecision(p, val)
      BY <3>2 DEF MissionDecision, ProcessMissionDecision, EvaluateMission, Recorded,
        ClearDecisions, Seated
    <3>3. CASE KickVote(p, val)
      BY <3>3 DEF KickVote, ProcessKickVote, EvaluateKickVote, Recorded, ClearBallot,
        Without, Seated
    <3>4. CASE Ignored
      BY <3>4 DEF Ignored, Seated
    <3> QED
      BY <2>1, <3>1, <3>2, <3>3, <3>4 DEF Uplink
  <2> QED
    BY <1>1, <2>1 DEF ApplyUplink
<1>2. CASE players' = players
  BY <1>2 DEF Seated
<1> QED
  BY <1>1, <1>2 DEF ServerGoesOn, BrokerNext, AssignBroker, AssignClient, ConnectFails,
    ConnectSucceeds, Resubscribe, ResubscribeEnds, LinkLost, Reconnect, Crash, CheckUplink,
    CooldownEnds, NamesRace, PlayersRace, vars

\* The loss of a link is noted, and so is a subscription that is thrown away;
\* otherwise subscriptions only come, and a name is heard before it is given.
LEMMA HeardStep ==
  ASSUME SystemTypeOK, ServerInv, AskersWait, NamesAreHeard, [SystemNext]_systemVars
  PROVE  NamesAreHeard'
<1> SUFFICES ASSUME ~disturbed'
             PROVE  NamesAreHeard'
  BY DEF NamesAreHeard
<1> USE DEF Forwarded
<1>1. CASE UNCHANGED systemVars
  BY <1>1 DEF systemVars, serverVars, vars, brokerVars, requestVars, historyVars,
    NamesAreHeard, Seated
<1>2. ASSUME NEW d \in Devices, DeviceStep(d)
      PROVE  NamesAreHeard'
  <2>1. Seated' = Seated /\ subscribed' = subscribed /\ disturbed' = disturbed
        /\ dev'[d].name \in {dev[d].name, Unnamed}
    BY <1>2, DeviceForgets DEF Seated
  <2>2. \A h \in Handlers : \/ job'[h] = job[h]
                            \/ job'[h].at # "csr"
                            \/ job'[h].name = dev[d].name
    <3>1. job \in [Handlers -> Job]
      BY DEF ServerInv, OwnTypes
    <3>2. ASSUME NEW h \in Handlers, Posts(d, h)
          PROVE  \A g \in Handlers : \/ job'[g] = job[g]
                                     \/ job'[g].at # "csr"
                                     \/ job'[g].name = dev[d].name
      BY <3>1, <3>2 DEF Posts, PostSpelare, PostCsr, PostStart, Job
    <3>3. CASE job' = job
      BY <3>3
    <3> QED
      BY <1>2, <3>2, <3>3 DEF DeviceStep, Asks, Skips, Ends, MovesOn, Resets, Chooses,
        Publish, serverVars, requestVars
  <2> QED
    BY <1>2, <2>1, <2>2, DeviceMoves DEF NamesAreHeard
<1>3. ASSUME NEW h \in Handlers, Handles(h)
      PROVE  NamesAreHeard'
  <2>1. ~disturbed /\ (job[h].at = "subscribe" => link = "open")
    BY <1>3 DEF Handles
  <2>2. subscribed \subseteq subscribed'
        /\ (job[h].at = "subscribe" => job[h].name \in subscribed')
    BY <1>3, <2>1 DEF Handles, HandlerStep, RefuseId, AllowId, LookUpName, StoreName,
      SubscribeUplink, JoinGame, RefuseStart, AllowStart, DealGame, brokerVars
  <2>3. \A g \in Handlers : job'[g] = job[g] \/ job'[g].at # "csr"
    BY <1>3, JobGoesOn DEF Handles
  <2>4. ASSUME NEW d \in Devices
        PROVE  dev'[d].name \in Forwarded'
    <3>1. dev \in [Devices -> DeviceState] /\ dev[d].name \in Forwarded'
      BY <2>1, <2>2 DEF SystemTypeOK, NamesAreHeard
    <3>2. CASE dev' = dev
      BY <3>1, <3>2
    <3>3. ASSUME serving[h] \in Devices, job[h].at = "subscribe",
                 dev' = [dev EXCEPT ![serving[h]].name = job[h].name]
          PROVE  dev'[d].name \in Forwarded'
      BY <2>2, <3>1, <3>3 DEF DeviceState
    <3>4. ASSUME serving[h] \in Devices,
                 dev' = [dev EXCEPT ![serving[h]].cert = {job[h].name}]
          PROVE  dev'[d].name = dev[d].name
      BY <3>1, <3>4 DEF DeviceState
    <3> QED
      BY <1>3, <3>1, <3>2, <3>3, <3>4, AnswerGiven
  <2>5. Seated' \subseteq Forwarded'
    BY <1>3, <2>1, <2>2, HandlersSeat DEF Handles, NamesAreHeard
  <2> QED
    BY <2>1, <2>2, <2>3, <2>4, <2>5 DEF NamesAreHeard
<1>4. CASE ServerGoesOn
  <2>1. ~disturbed /\ link' # "lost" /\ UNCHANGED dev
    BY <1>4 DEF ServerGoesOn
  <2>2. subscribed \subseteq subscribed' /\ job' = job
    BY <1>4, <2>1 DEF ServerGoesOn, BrokerNext, AssignBroker, ConnectFails, ConnectSucceeds,
      Resubscribe, ResubscribeEnds, LinkLost, Reconnect, Crash, CheckUplink, ApplyUplink,
      CooldownEnds, NamesRace, PlayersRace, requestVars, brokerVars
  <2>3. Seated' \subseteq Seated
    BY <1>4, OthersSeatNobody
  <2> QED
    BY <2>1, <2>2, <2>3 DEF NamesAreHeard
<1> QED
  BY <1>1, <1>2, <1>3, <1>4 DEF SystemNext

-----------------------------------------------------------------------------
(* Who was in the game *)

\* A player who leaves the game was kicked, and one who comes back is in it.
LEMMA SeatsRemembered ==
  ASSUME SystemTypeOK, ServerInv, [SystemNext]_systemVars
  PROVE  Seated \cup kicked \subseteq Seated' \cup kicked'
<1>1. CASE UNCHANGED systemVars
  BY <1>1 DEF systemVars, serverVars, vars, historyVars, Seated
<1>2. ASSUME NEW d \in Devices, DeviceStep(d)
      PROVE  Seated' = Seated /\ kicked' = kicked
  BY <1>2, DeviceForgets DEF Seated
<1>3. ASSUME NEW h \in Handlers, Handles(h)
      PROVE  Seated \cup kicked \subseteq Seated' \cup kicked'
  BY <1>3, HandlersSeat DEF Handles
<1>4. CASE ServerGoesOn
  BY <1>4 DEF ServerGoesOn
<1> QED
  BY <1>1, <1>2, <1>3, <1>4 DEF SystemNext

\* Only a device adds to the queue, under the name of its certificate.
LEMMA StrangersStep ==
  ASSUME SystemTypeOK, ServerInv, CertifiedIsSeated, StrangersWereKicked,
         [SystemNext]_systemVars
  PROVE  StrangersWereKicked'
<1>1. inbox \in Seq(Message) /\ Seated \cup kicked \subseteq Seated' \cup kicked'
  BY SeatsRemembered DEF ServerInv, OwnTypes
<1>2. CASE inbox' \in {inbox, <<>>}
  BY <1>1, <1>2 DEF StrangersWereKicked
<1>3. ASSUME NEW d \in Devices, Chooses(d)
      PROVE  StrangersWereKicked'
  <2>1. PICK c \in Choices : Publish(dev[d].name, Val(c))
    BY <1>3 DEF Chooses
  <2>2. inbox' = Append(inbox, [from |-> dev[d].name, val |-> Val(c)])
    BY <2>1 DEF Publish
  <2>3. dev[d].name \in Seated' \cup kicked'
    BY <1>1, <1>3 DEF Chooses, CertifiedIsSeated
  <2> QED
    BY <1>1, <2>2, <2>3 DEF StrangersWereKicked
<1>4. CASE CheckUplink
  <2>1. inbox # <<>> /\ inbox' = Tail(inbox)
    BY <1>4 DEF CheckUplink
  <2> QED
    BY <1>1, <2>1 DEF StrangersWereKicked
<1>5. ASSUME NEW d \in Devices, Asks(d) \/ Skips(d) \/ Ends(d) \/ MovesOn(d) \/ Resets(d)
      PROVE  inbox' = inbox
  BY <1>5 DEF Asks, Posts, PostSpelare, PostCsr, PostStart, Skips, Ends, MovesOn, Resets,
    serverVars, uplinkVars
<1>6. ASSUME NEW h \in Handlers, Handles(h)
      PROVE  inbox' = inbox
  BY <1>6 DEF Handles, HandlerStep, RefuseId, AllowId, LookUpName, StoreName,
    SubscribeUplink, JoinGame, RefuseStart, AllowStart, DealGame, uplinkVars
<1>7. CASE BrokerNext \/ ApplyUplink \/ (\E p \in PlayerIds : CooldownEnds(p))
           \/ (\E h \in Handlers : NamesRace(h)) \/ PlayersRace \/ UNCHANGED systemVars
  BY <1>2, <1>7 DEF BrokerNext, AssignBroker, ConnectFails, ConnectSucceeds, Resubscribe,
    ResubscribeEnds, LinkLost, Reconnect, Crash, ApplyUplink, CooldownEnds, NamesRace,
    PlayersRace, uplinkVars, systemVars, serverVars
<1> QED
  BY <1>2, <1>3, <1>4, <1>5, <1>6, <1>7 DEF SystemNext, DeviceStep, ServerGoesOn

\* A device comes to its start with a certificate, and keeps it until it resets.
LEMMA StartersStep ==
  ASSUME SystemTypeOK, ServerInv, AskersWait, StartersCertified, [SystemNext]_systemVars
  PROVE  StartersCertified'
<1>1. dev \in [Devices -> DeviceState]
  BY DEF SystemTypeOK
<1>2. CASE UNCHANGED dev
  BY <1>2 DEF StartersCertified
<1>3. ASSUME NEW d \in Devices, DeviceStep(d)
      PROVE  StartersCertified'
  <2>1. CASE Asks(d)
    BY <1>1, <2>1 DEF Asks, StartersCertified, DeviceState
  <2>2. CASE Skips(d) \/ Ends(d)
    <3>1. \/ dev' = [dev EXCEPT ![d].step = After[dev[d].step]]
          \/ dev' = [dev EXCEPT ![d].waiting = FALSE, ![d].step = After[dev[d].step]]
      BY <2>2 DEF Skips, Ends
    <3>2. After[dev[d].step] # "start"
      BY <2>2 DEF Skips, Ends, AskersWait, After
    <3> QED
      BY <1>1, <3>1, <3>2 DEF StartersCertified, DeviceState
  <2>3. CASE MovesOn(d)
    BY <1>1, <2>3 DEF MovesOn, StartersCertified, DeviceState
  <2>4. CASE Resets(d)
    BY <1>1, <2>4 DEF Resets, NewDevice, StartersCertified
  <2>5. CASE Chooses(d)
    BY <1>2, <2>5 DEF Chooses
  <2> QED
    BY <1>3, <2>1, <2>2, <2>3, <2>4, <2>5 DEF DeviceStep
<1>4. ASSUME NEW h \in Handlers, Handles(h)
      PROVE  StartersCertified'
  <2>1. \A d \in Devices : dev'[d].step = dev[d].step
                            /\ (dev[d].cert # {} => dev'[d].cert # {})
    <3>1. ASSUME serving[h] \in Devices,
                 \/ dev' = [dev EXCEPT ![serving[h]].name = job[h].name]
                 \/ dev' = [dev EXCEPT ![serving[h]].cert = {job[h].name}],
                 NEW d \in Devices
          PROVE  dev'[d].step = dev[d].step /\ (dev[d].cert # {} => dev'[d].cert # {})
      BY <1>1, <3>1 DEF DeviceState
    <3>2. CASE dev' = dev
      BY <3>2
    <3>3. CASE dev' # dev
      BY <1>4, <3>1, <3>3, AnswerGiven
    <3> QED
      BY <3>2, <3>3
  <2> QED
    BY <2>1 DEF StartersCertified
<1>5. CASE ServerGoesOn \/ UNCHANGED systemVars
  BY <1>2, <1>5 DEF ServerGoesOn, systemVars
<1> QED
  BY <1>3, <1>4, <1>5 DEF SystemNext

\* A start is asked for by a device that has a certificate.
LEMMA StartsStep ==
  ASSUME SystemTypeOK, ServerInv, CertifiedIsSeated, StartersCertified, StartsHavePlayers,
         [SystemNext]_systemVars
  PROVE  StartsHavePlayers'
<1>1. Seated \cup kicked \subseteq Seated' \cup kicked' /\ job \in [Handlers -> Job]
  BY SeatsRemembered DEF ServerInv, OwnTypes
<1>2. CASE \A h \in Handlers : job'[h].at \in {"start", "deal"} => job[h].at \in {"start", "deal"}
  BY <1>1, <1>2 DEF StartsHavePlayers
<1>3. ASSUME NEW d \in Devices, NEW h \in Handlers, Posts(d, h)
      PROVE  StartsHavePlayers'
  <2>1. CASE dev[d].step = "start"
    BY <1>1, <2>1 DEF StartersCertified, CertifiedIsSeated, StartsHavePlayers
  <2>2. CASE dev[d].step # "start"
    <3>1. \A g \in Handlers : job'[g].at \in {"start", "deal"} => job[g].at \in {"start", "deal"}
      BY <1>1, <1>3, <2>2 DEF Posts, PostSpelare, PostCsr, Job
    <3> QED
      BY <1>2, <3>1
  <2> QED
    BY <2>1, <2>2
<1>4. ASSUME NEW h \in Handlers, Handles(h)
      PROVE  StartsHavePlayers'
  BY <1>2, <1>4, JobGoesOn DEF Handles
<1>5. CASE job' = job
  BY <1>2, <1>5
<1>6. ASSUME NEW d \in Devices, DeviceStep(d)
      PROVE  job' = job \/ \E h \in Handlers : Posts(d, h)
  BY <1>6 DEF DeviceStep, Asks, Skips, Ends, MovesOn, Resets, Chooses, Publish, serverVars,
    requestVars
<1>7. CASE ServerGoesOn \/ UNCHANGED systemVars
  BY <1>5, <1>7 DEF ServerGoesOn, BrokerNext, AssignBroker, ConnectFails, ConnectSucceeds,
    Resubscribe, ResubscribeEnds, LinkLost, Reconnect, Crash, CheckUplink, ApplyUplink,
    CooldownEnds, NamesRace, PlayersRace, requestVars, systemVars, serverVars
<1> QED
  BY <1>3, <1>4, <1>5, <1>6, <1>7 DEF SystemNext

-----------------------------------------------------------------------------
(* The theorems about the server and the game *)

\* The invariant holds before anybody asks for anything.
LEMMA SystemInvInit == SystemInit => SystemInv
<1> SUFFICES ASSUME SystemInit
             PROVE  SystemInv
  OBVIOUS
<1>1. ServerInv /\ Seated = {} /\ subscribed = {} /\ inbox = <<>> /\ uplink = NoMessage
      /\ job = [h \in Handlers |-> IdleJob]
  BY ServerInitInv DEF SystemInit, ServerInit, Init, Seated
<1>2. dev \in [Devices -> DeviceState] /\ \A d \in Devices : dev[d] = NewDevice
  BY SystemConstants DEF SystemInit, NewDevice, DeviceState
<1>3. SystemTypeOK
  <2>1. disturbed \in BOOLEAN
    BY Zenon DEF SystemInit
  <2> QED
    BY <1>2, <2>1 DEF SystemInit, SystemTypeOK
<1>4. ServesFit /\ AskersWait /\ CertifiedIsSeated
  BY <1>2 DEF SystemInit, ServesFit, AskersWait, CertifiedIsSeated, NewDevice
<1>5. NamesAreHeard
  BY <1>1, <1>2 DEF NamesAreHeard, Forwarded, NewDevice, IdleJob
<1>6. StartersCertified /\ StrangersWereKicked /\ StartsHavePlayers
  BY <1>1, <1>2 DEF StartersCertified, StrangersWereKicked, StartsHavePlayers, NewDevice, IdleJob
<1> QED
  BY <1>1, <1>3, <1>4, <1>5, <1>6 DEF SystemInv

\* Every step of a device, a handler or another goroutine keeps it.
LEMMA SystemInvStep == SystemInv /\ [SystemNext]_systemVars => SystemInv'
<1> SUFFICES ASSUME SystemInv, [SystemNext]_systemVars
             PROVE  SystemInv'
  OBVIOUS
<1> USE DEF SystemInv
<1>1. ServerInv'
  BY StepOfTheServer, ServerInvNext
<1>2. SystemTypeOK'
  BY <1>1, TypesStep
<1>3. ServesFit' /\ AskersWait'
  BY ServesDevice, ServesHandler, ServesOther DEF SystemNext
<1>4. CertifiedIsSeated' /\ NamesAreHeard'
  BY CertifiedStep, HeardStep
<1>5. StartersCertified' /\ StrangersWereKicked' /\ StartsHavePlayers'
  BY StartersStep, StrangersStep, StartsStep
<1> QED
  BY <1>1, <1>2, <1>3, <1>4, <1>5

\* The inductive invariant holds in every reachable state.
LEMMA SystemInvariant == SystemSpec => []SystemInv
BY SystemInvInit, SystemInvStep, PTL DEF SystemSpec

\* The variables of the devices keep their types.
THEOREM SystemTypeCorrect == SystemSpec => []SystemTypeOK
<1>1. SystemInv => SystemTypeOK
  BY DEF SystemInv
<1> QED
  BY <1>1, SystemInvariant, PTL

\* Between any devices the server is that of Server, whose theorems hold of it.
THEOREM ServerAmongDevices == SystemSpec => ImplementsServer
<1>1. SystemInit => ServerInit
  BY DEF SystemInit
<1>2. SystemInv /\ [SystemNext]_systemVars => [ServerNext]_serverVars
  BY StepOfTheServer DEF SystemInv
<1> QED
  BY <1>1, <1>2, SystemInvariant, PTL DEF SystemSpec, ImplementsServer, ServerSpec

\* A certified device has its player in the game, unless it was kicked out.
THEOREM CertifiedAreSeated == SystemSpec => []CertifiedIsSeated
<1>1. SystemInv => CertifiedIsSeated
  BY DEF SystemInv
<1> QED
  BY <1>1, SystemInvariant, PTL

\* The server drops nobody's messages as a stranger's but those of players who
\* were kicked out of the game, for any devices, and any length of the queue.
THEOREM StrangersAreTheKicked == SystemSpec => []StrangersWereKicked
<1>1. SystemInv => StrangersWereKicked
  BY DEF SystemInv
<1> QED
  BY <1>1, SystemInvariant, PTL

\* No device starts a game nobody has joined, whatever requests were lost or
\* given up before, and whichever devices were reset.
THEOREM StartsNeedPlayers == SystemSpec => []StartsHavePlayers
<1>1. SystemInv => StartsHavePlayers
  BY DEF SystemInv
<1> QED
  BY <1>1, SystemInvariant, PTL

\* A player the server does not hear plays without a name, or the link was
\* down when it would have been subscribed, or lost since.
THEOREM MuteForACause == SystemSpec => []MuteHasCause
<1>1. SystemInv => MuteHasCause
  BY DEF SystemInv, NamesAreHeard, Forwarded, MuteHasCause
<1> QED
  BY <1>1, SystemInvariant, PTL

-----------------------------------------------------------------------------
(* What the system inherits *)

\* The theorems about the game and the server, of the server between its devices.
THEOREM SystemKeepsTheGame ==
  SystemSpec => /\ [](SomeoneAwaited /\ LeaderIsSeated /\ PlayersFitThePhase)
                /\ OnlyTheLeaderIsKicked /\ MissionNeedsApproval /\ MajorityCarries
                /\ QuestionsStartClean /\ DealIsComplete
                /\ ImplementsRounds
<1>1. SystemSpec => [](SomeoneAwaited /\ LeaderIsSeated /\ PlayersFitThePhase)
  BY ServerAmongDevices, ServerKeepsTheGame, PTL DEF ImplementsServer
<1>2. SystemSpec => /\ OnlyTheLeaderIsKicked /\ MissionNeedsApproval /\ MajorityCarries
                    /\ QuestionsStartClean /\ DealIsComplete
                    /\ ImplementsRounds
  BY ServerAmongDevices, ServerKeepsTheVotes, ServerKeepsTheRounds DEF ImplementsServer
<1> QED
  BY <1>1, <1>2

\* A start that finds nobody in the game, and so loses the lock, comes after
\* everybody who was in it was kicked out.
SystemLossHasCause ==
  ~lockLost /\ lockLost' =>
    \/ mqttClient = "nil"
    \/ \E h \in Handlers : job[h].at = "csr" /\ job[h].name \in Seated
    \/ Seated = {} /\ kicked # {}

\* In the system the lock is lost by a certificate for a seated name, before
\* there is a client, or once the game has kicked out its last player.
THEOREM SystemLosesTheLock == SystemSpec => [][SystemLossHasCause]_systemVars
<1>1. SystemInv /\ [SystemNext]_systemVars => [SystemLossHasCause]_systemVars
  <2> SUFFICES ASSUME SystemInv, [SystemNext]_systemVars, ~lockLost, lockLost'
               PROVE  SystemLossHasCause
    BY DEF SystemLossHasCause
  <2>1. [LossHasCause]_serverVars
    BY StepOfTheServer, LossNext DEF SystemInv
  <2>2. LossHasCause
    BY <2>1 DEF serverVars, vars
  <2>3. \A h \in Handlers : job[h].at = "deal" => Seated \cup kicked # {}
    BY DEF SystemInv, StartsHavePlayers
  <2> QED
    BY <2>2, <2>3 DEF LossHasCause, SystemLossHasCause
<1> QED
  BY <1>1, SystemInvariant, PTL DEF SystemSpec

-----------------------------------------------------------------------------
(* The devices keep to Client *)

\* What one device does is a step of its client, and none for the others.
LEMMA OwnStep ==
  ASSUME SystemInv, NEW e \in Devices, DeviceStep(e), NEW d \in Devices
  PROVE  [Registration(d)!Next]_(dev[d])
<1>1. dev \in [Devices -> DeviceState]
  BY DEF SystemInv, SystemTypeOK
<1>2. CASE d # e
  BY <1>2, DeviceMoves DEF SystemInv
<1>3. CASE d = e
  <2>1. CASE Asks(d)
    BY <1>1, <2>1 DEF Asks, After, DeviceState, Registration!Next, Registration!Ask,
      Registration!Asking, Registration!After
  <2>2. CASE Skips(d)
    BY <1>1, <2>2 DEF Skips, After, DeviceState, Registration!Next, Registration!Skip,
      Registration!Asking, Registration!After
  <2>3. CASE Ends(d)
    <3>1. dev'[d] = [dev[d] EXCEPT !.waiting = FALSE, !.step = After[dev[d].step]]
      BY <1>1, <2>3 DEF Ends
    <3> QED
      BY <1>1, <2>3, <3>1 DEF Ends, After, DeviceState, Registration!Next, Registration!Done,
        Registration!After
  <2>4. CASE MovesOn(d)
    BY <1>1, <2>4 DEF MovesOn, DeviceState, Registration!Next, Registration!MoveOn
  <2>5. CASE Resets(d)
    BY <1>1, <2>5 DEF Resets, NewDevice, Registration!Next, Registration!Restart
  <2>6. CASE Chooses(d)
    BY <2>6 DEF Chooses
  <2> QED
    BY <1>3, <2>1, <2>2, <2>3, <2>4, <2>5, <2>6 DEF DeviceStep
<1> QED
  BY <1>2, <1>3

\* An answer reaches a device at the step it was asked at, and a certificate
\* is for the name the device has: ServesFit.
LEMMA AnswerFits ==
  ASSUME SystemInv, NEW h \in Handlers, Handles(h), NEW d \in Devices
  PROVE  [Registration(d)!Next]_(dev[d])
<1>1. dev \in [Devices -> DeviceState]
  BY DEF SystemInv, SystemTypeOK
<1>2. CASE dev'[d] = dev[d]
  BY <1>2
<1>3. CASE dev'[d] # dev[d]
  <2>1. serving[h] = d /\ job[h].at \in StepsAt(dev[d].step) /\ dev[d].waiting
        /\ (job[h].at = "csr" => job[h].name = dev[d].name)
    <3>1. serving[h] = d
      BY <1>1, <1>3, AnswerGiven DEF SystemInv
    <3> QED
      BY <3>1, SystemConstants DEF SystemInv, ServesFit
  <2>2. CASE job[h].at = "subscribe"
    <3>1. dev[d].step = "register"
      BY <2>1, <2>2 DEF StepsAt
    <3>2. dev' = [dev EXCEPT ![d].name = job[h].name] /\ job[h].name \in PlayerIds
      BY <1>3, <2>1, <2>2, AnswerGiven DEF SystemInv
    <3>3. dev'[d] = [dev[d] EXCEPT !.name = job[h].name]
      BY <1>1, <3>2
    <3> QED
      BY <1>1, <2>1, <3>1, <3>2, <3>3 DEF DeviceState, Registration!Next, Registration!Named
  <2>3. CASE job[h].at = "csr"
    <3>1. dev[d].step = "csr"
      BY <2>1, <2>3 DEF StepsAt
    <3>2. dev' = [dev EXCEPT ![d].cert = {dev[d].name}]
      <4>1. dev' = [dev EXCEPT ![serving[h]].cert = {job[h].name}]
        BY <1>3, <2>3, AnswerGiven DEF SystemInv
      <4> QED
        BY <2>1, <2>3, <4>1
    <3>3. dev'[d] = [dev[d] EXCEPT !.cert = {dev[d].name}]
      BY <1>1, <3>2
    <3> QED
      BY <1>1, <2>1, <3>1, <3>3 DEF DeviceState, Registration!Next, Registration!Certified
  <2> QED
    BY <1>3, <2>2, <2>3, AnswerGiven DEF SystemInv
<1> QED
  BY <1>2, <1>3

\* Each device goes through its registration as Client has it.
THEOREM DevicesKeepToClient == SystemSpec => ImplementsClients
<1>1. SystemInit => \A d \in Devices : Registration(d)!Init
  BY DEF SystemInit, NewDevice, Registration!Init
<1>2. SystemInv /\ [SystemNext]_systemVars =>
        [\A d \in Devices : [Registration(d)!Next]_(dev[d])]_dev
  <2> SUFFICES ASSUME SystemInv, SystemNext
               PROVE  [\A d \in Devices : [Registration(d)!Next]_(dev[d])]_dev
    BY DEF systemVars
  <2>1. CASE ServerGoesOn
    BY <2>1 DEF ServerGoesOn
  <2> QED
    BY <2>1, OwnStep, AnswerFits DEF SystemNext
<1> QED
  BY <1>1, <1>2, SystemInvariant, PTL DEF SystemSpec, ImplementsClients
=============================================================================
