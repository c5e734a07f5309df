---------------------------- MODULE ServerProofs ----------------------------
(***************************************************************************)
(* Proofs about Server, for every set of players, addresses and requests   *)
(* and any length of the queue of uplinks.                                 *)
(***************************************************************************)
EXTENDS Server, GameRefinementProofs, GameQuestionProofs

\* A request has an address while it looks at ipToName, and a name once it has
\* drawn, found or been sent one.
JobsFit ==
  \A h \in Handlers :
    /\ job[h].at \in {"spelare", "lookup", "storing", "start"} => job[h].conn \in Conns
    /\ job[h].at \in {"storing", "subscribe", "csr"} => job[h].name \in PlayerIds

\* What is between the two sections of handleUplink is a text, not a payload
\* that is no JSON.
PendingIsText == uplink # NoMessage => uplink.val \in Vals

\* The inductive invariant of the server.
ServerInv == OwnTypes /\ JobsFit /\ PendingIsText /\ PendingIsSeated /\ Inv

-----------------------------------------------------------------------------
(* The server plays the game of GameState *)

LEMMA StepOfARequest ==
  ASSUME ServerInv, NEW h \in Handlers, HandlerStep(h)
  PROVE  [Next]_vars
<1>1. CASE JoinGame(h)
  <2>1. job[h].name \in PlayerIds
    BY <1>1 DEF ServerInv, JobsFit, JoinGame
  <2> QED
    BY <1>1, <2>1 DEF JoinGame, Next
<1>2. CASE DealGame(h)
  BY <1>2 DEF DealGame, Next
<1>3. CASE RefuseId(h) \/ AllowId(h) \/ LookUpName(h) \/ StoreName(h)
           \/ SubscribeUplink(h) \/ RefuseStart(h) \/ AllowStart(h)
  BY <1>3 DEF RefuseId, AllowId, LookUpName, StoreName, SubscribeUplink,
              RefuseStart, AllowStart
<1> QED
  BY <1>1, <1>2, <1>3 DEF HandlerStep

LEMMA StepOfTheGame ==
  ASSUME ServerInv, [ServerNext]_serverVars
  PROVE  [Next]_vars
<1>1. CASE UNCHANGED serverVars
  BY <1>1 DEF serverVars
<1>2. CASE BrokerNext
  BY <1>2 DEF BrokerNext, AssignBroker, ConnectFails, ConnectSucceeds, Resubscribe,
              ResubscribeEnds, LinkLost, Reconnect, Crash, Next
<1>3. CASE \E h \in Handlers : Request(h)
  BY <1>3 DEF Request, PostSpelare, PostCsr, PostStart
<1>4. CASE \E h \in Handlers : HandlerStep(h)
  BY <1>4, StepOfARequest
<1>5. CASE UplinkNext
  <2>1. CASE ApplyUplink
    <3>1. uplink.val \in Vals /\ uplink.from \in PlayerIds
      BY <2>1 DEF ServerInv, PendingIsText, OwnTypes, Message, ApplyUplink
    <3> QED
      BY <2>1, <3>1 DEF ApplyUplink, Next
  <2>2. CASE CheckUplink \/ \E p \in PlayerIds : CooldownEnds(p)
    BY <2>2 DEF CheckUplink, CooldownEnds
  <2>3. CASE \E p \in PlayerIds, v \in SentVals : Publish(p, v)
    BY <2>3 DEF Publish
  <2> QED
    BY <1>5, <2>1, <2>2, <2>3 DEF UplinkNext
<1>6. CASE (\E h \in Handlers : NamesRace(h)) \/ PlayersRace
  BY <1>6 DEF NamesRace, PlayersRace, Crash
<1> QED
  BY <1>1, <1>2, <1>3, <1>4, <1>5, <1>6 DEF ServerNext

-----------------------------------------------------------------------------
(* The invariant *)

\* Only a kick removes players from the game.
LEMMA RequestsKeepPlayers ==
  ASSUME NEW h \in Handlers, JoinGame(h) \/ DealGame(h)
  PROVE  Seated \subseteq Seated'
BY DEF JoinGame, DealGame, AddPlayer, AddDuplicate, Joined, StartTooFew, StartGame,
       Dealt, Seated

LEMMA ServerInitInv == ServerInit => ServerInv
<1> SUFFICES ASSUME ServerInit
             PROVE  ServerInv
  OBVIOUS
<1>1. Inv
  BY InvInit DEF ServerInit
<1>2. IdleJob \in Job /\ IdleJob.at = "idle"
  BY DEF IdleJob, Job, Steps
<1>3. job \in [Handlers -> Job] /\ JobsFit
  BY <1>2 DEF ServerInit, JobsFit
<1>4. DOMAIN ipToName = {} /\ Range(ipToName) = {}
  BY DEF ServerInit, Range
<1>5. OwnTypes
  <2>1. <<>> \in Seq(Message)
    OBVIOUS
  <2>2. inbox \in Seq(Message) /\ crashed \in BOOLEAN
    BY <2>1 DEF ServerInit
  <2> QED
    BY <1>3, <1>4, <2>2 DEF ServerInit, OwnTypes, BrokerSteps, Links
<1> QED
  BY <1>1, <1>3, <1>5 DEF ServerInit, ServerInv, PendingIsText, PendingIsSeated

LEMMA RequestInv ==
  ASSUME ServerInv, NEW h \in Handlers, Request(h)
  PROVE  OwnTypes' /\ JobsFit' /\ PendingIsText' /\ PendingIsSeated'
<1>1. job[h] \in Job
  BY DEF ServerInv, OwnTypes
<1>2. UNCHANGED <<vars, brokerVars, ipToName, uplinkVars, crashed>>
  BY DEF Request, PostSpelare, PostCsr, PostStart
<1>3. job' \in [Handlers -> Job] /\ JobsFit'
  <2>1. ASSUME NEW c \in Conns, PostSpelare(h, c) \/ PostStart(h, c)
        PROVE  job' \in [Handlers -> Job] /\ JobsFit'
    <3>1. PICK at \in {"spelare", "start"} :
            job' = [job EXCEPT ![h] = [job[h] EXCEPT !.at = at, !.conn = c]]
      BY <1>1, <2>1 DEF PostSpelare, PostStart, ServerInv, OwnTypes
    <3> DEFINE asked == [job[h] EXCEPT !.at = at, !.conn = c]
    <3>2. asked \in Job /\ asked.at = at /\ asked.conn = c
      BY <1>1 DEF Job, Steps
    <3>3. job' = [job EXCEPT ![h] = asked]
      BY <3>1
    <3> HIDE DEF asked
    <3> QED
      BY <3>2, <3>3 DEF ServerInv, OwnTypes, JobsFit
  <2>2. ASSUME NEW p \in PlayerIds, PostCsr(h, p)
        PROVE  job' \in [Handlers -> Job] /\ JobsFit'
    BY <1>1, <2>2 DEF PostCsr, ServerInv, OwnTypes, JobsFit, Job, Steps
  <2> QED
    BY <2>1, <2>2 DEF Request
<1> QED
  BY <1>2, <1>3 DEF ServerInv, OwnTypes, PendingIsText, PendingIsSeated, vars,
                    brokerVars, uplinkVars, Seated

\* A request that is done, or goes on without an address or a name to fit.
LEMMA JobEnds ==
  ASSUME OwnTypes, JobsFit, NEW h \in Handlers, Finish(h)
  PROVE  job' \in [Handlers -> Job] /\ JobsFit'
BY DEF Finish, IdleJob, OwnTypes, JobsFit, Job, Steps

LEMMA HandlerInv ==
  ASSUME ServerInv, NEW h \in Handlers, HandlerStep(h)
  PROVE  OwnTypes' /\ JobsFit' /\ PendingIsText' /\ PendingIsSeated'
<1> USE DEF ServerInv
<1>1. job[h] \in Job
  BY DEF OwnTypes
<1>2. job' \in [Handlers -> Job] /\ JobsFit'
  <2>1. CASE Finish(h)
    BY <2>1, JobEnds
  <2>2. CASE AllowId(h) \/ AllowStart(h) \/ StoreName(h)
    <3>1. PICK at \in {"lookup", "deal", "subscribe"} :
            /\ job' = [job EXCEPT ![h].at = at]
            /\ at = "lookup" => job[h].at = "spelare"
            /\ at = "subscribe" => job[h].at = "storing"
      BY <2>2 DEF AllowId, AllowStart, StoreName, Goto
    <3> QED
      BY <1>1, <3>1 DEF OwnTypes, JobsFit, Job, Steps
  <2>3. CASE LookUpName(h)
    <3>1. ASSUME job[h].conn \in DOMAIN ipToName
          PROVE  ipToName[job[h].conn] \in PlayerIds
      BY <3>1 DEF OwnTypes, Range
    <3> QED
      BY <1>1, <2>3, <3>1 DEF LookUpName, OwnTypes, JobsFit, Job, Steps
  <2> QED
    BY <2>1, <2>2, <2>3 DEF HandlerStep, RefuseId, SubscribeUplink, JoinGame,
                            RefuseStart, DealGame
<1>3. Seated \subseteq Seated' /\ Seated' \subseteq PlayerIds
  <2>1. Inv'
    BY StepOfARequest, InvNext
  <2>2. CASE JoinGame(h) \/ DealGame(h)
    BY <2>1, <2>2, RequestsKeepPlayers DEF Inv, TypeOK
  <2>3. CASE UNCHANGED vars
    BY <2>1, <2>3 DEF Inv, TypeOK, vars, Seated
  <2> QED
    BY <2>2, <2>3 DEF HandlerStep, RefuseId, AllowId, LookUpName, StoreName,
                      SubscribeUplink, RefuseStart, AllowStart
<1>4. UNCHANGED <<broker, link, uplinkVars, crashed>>
  BY DEF HandlerStep, RefuseId, AllowId, LookUpName, StoreName, SubscribeUplink,
         JoinGame, RefuseStart, AllowStart, DealGame, brokerVars
<1>5. toVisit' \subseteq PlayerIds
  <2>1. CASE JoinGame(h)
    BY <1>3, <2>1 DEF JoinGame, PlayersChange, OwnTypes
  <2>2. CASE UNCHANGED toVisit
    BY <2>2 DEF OwnTypes
  <2> QED
    BY <2>1, <2>2 DEF HandlerStep, RefuseId, AllowId, LookUpName, StoreName,
                      SubscribeUplink, RefuseStart, AllowStart, DealGame, brokerVars
<1>6. subscribed' \subseteq PlayerIds
  <2>1. CASE SubscribeUplink(h)
    BY <2>1 DEF SubscribeUplink, OwnTypes, JobsFit
  <2>2. CASE UNCHANGED subscribed
    BY <2>2 DEF OwnTypes
  <2> QED
    BY <2>1, <2>2 DEF HandlerStep, RefuseId, AllowId, LookUpName, StoreName,
                      JoinGame, RefuseStart, AllowStart, DealGame, brokerVars
<1>7. DOMAIN ipToName' \subseteq Conns /\ Range(ipToName') \subseteq PlayerIds
  <2>1. CASE StoreName(h)
    BY <2>1 DEF StoreName, OwnTypes, JobsFit, Range
  <2>2. CASE UNCHANGED ipToName
    BY <2>2 DEF OwnTypes
  <2> QED
    BY <2>1, <2>2 DEF HandlerStep, RefuseId, AllowId, LookUpName, SubscribeUplink,
                      JoinGame, RefuseStart, AllowStart, DealGame
<1> QED
  BY <1>2, <1>3, <1>4, <1>5, <1>6, <1>7
  DEF OwnTypes, PendingIsText, PendingIsSeated, uplinkVars

LEMMA BrokerInv ==
  ASSUME ServerInv, BrokerNext
  PROVE  OwnTypes' /\ JobsFit' /\ PendingIsText' /\ PendingIsSeated'
<1> USE DEF ServerInv
<1>1. /\ job' = job
      /\ ipToName' = ipToName
      /\ players' = players
      /\ uplink' = uplink
      /\ cooling' = cooling
      /\ crashed' \in BOOLEAN
  <2>1. CASE AssignBroker
    BY <2>1 DEF AssignBroker, AssignClient, requestVars, uplinkVars, OwnTypes
  <2>2. CASE ConnectFails
    BY <2>2 DEF ConnectFails, Crash, vars, requestVars, uplinkVars
  <2>3. CASE ConnectSucceeds \/ ResubscribeEnds \/ \E p \in PlayerIds : Resubscribe(p)
    BY <2>3 DEF ConnectSucceeds, ResubscribeEnds, Resubscribe, vars, requestVars,
                uplinkVars, OwnTypes
  <2>4. CASE LinkLost \/ Reconnect
    BY <2>4 DEF LinkLost, Reconnect, vars, requestVars, uplinkVars, OwnTypes
  <2> QED
    BY <2>1, <2>2, <2>3, <2>4 DEF BrokerNext
<1>2. inbox' \in Seq(Message)
  <2>1. inbox' \in {inbox, <<>>}
    BY DEF BrokerNext, AssignBroker, ConnectFails, ConnectSucceeds, Resubscribe,
           ResubscribeEnds, LinkLost, Reconnect, Crash, uplinkVars
  <2>2. inbox \in Seq(Message) /\ <<>> \in Seq(Message)
    BY DEF OwnTypes
  <2> QED
    BY <2>1, <2>2
<1>3. broker' \in BrokerSteps /\ link' \in Links
  BY DEF BrokerNext, AssignBroker, ConnectFails, ConnectSucceeds, Resubscribe,
         ResubscribeEnds, LinkLost, Reconnect, Crash, brokerVars, OwnTypes, BrokerSteps, Links
<1>4. toVisit' \subseteq PlayerIds /\ subscribed' \subseteq PlayerIds
  BY DEF BrokerNext, AssignBroker, ConnectFails, ConnectSucceeds, Resubscribe,
         ResubscribeEnds, LinkLost, Reconnect, Crash, brokerVars, OwnTypes, Inv, TypeOK
<1> QED
  BY <1>1, <1>2, <1>3, <1>4
  DEF OwnTypes, JobsFit, PendingIsText, PendingIsSeated, requestVars, Seated

LEMMA UplinkInv ==
  ASSUME ServerInv, UplinkNext
  PROVE  OwnTypes' /\ JobsFit' /\ PendingIsText' /\ PendingIsSeated'
<1> USE DEF ServerInv
<1>1. CASE \E p \in PlayerIds, v \in SentVals : Publish(p, v)
  BY <1>1 DEF Publish, OwnTypes, JobsFit, PendingIsText, PendingIsSeated, Message,
              vars, brokerVars, requestVars, Seated
<1>2. CASE CheckUplink
  <2>1. Head(inbox) \in Message /\ inbox' \in Seq(Message)
    BY <1>2 DEF CheckUplink, OwnTypes
  <2>2. \/ UNCHANGED <<uplink, cooling>>
        \/ /\ Head(inbox).from \in Seated
           /\ cooling' = cooling \cup {Head(inbox).from}
           /\ \/ uplink' = NoMessage
              \/ uplink' = Head(inbox) /\ Head(inbox).val # "malformed"
    BY <1>2 DEF CheckUplink
  <2>3. UNCHANGED <<vars, brokerVars, requestVars, crashed>>
    BY <1>2 DEF CheckUplink
  <2>4. Head(inbox).val \in Vals \cup {"malformed"} /\ Head(inbox).from \in PlayerIds
    BY <2>1, ServerConstants DEF Message
  <2> QED
    BY <2>1, <2>2, <2>3, <2>4 DEF OwnTypes, JobsFit, PendingIsText, PendingIsSeated,
                                  vars, brokerVars, requestVars, Seated
<1>3. CASE ApplyUplink
  <2>1. Inv'
    BY <1>3, StepOfTheGame, InvNext DEF ServerNext, UplinkNext
  <2>2. Seated' \subseteq PlayerIds
    BY <2>1 DEF Inv, TypeOK
  <2>3. toVisit' \subseteq PlayerIds
    BY <1>3, <2>2 DEF ApplyUplink, PlayersChange, OwnTypes
  <2> QED
    BY <1>3, <2>3 DEF ApplyUplink, OwnTypes, JobsFit, PendingIsText, PendingIsSeated,
                      requestVars
<1>4. CASE \E p \in PlayerIds : CooldownEnds(p)
  BY <1>4 DEF CooldownEnds, OwnTypes, JobsFit, PendingIsText, PendingIsSeated,
              vars, brokerVars, requestVars, Seated
<1> QED
  BY <1>1, <1>2, <1>3, <1>4 DEF UplinkNext

LEMMA ServerInvNext == ServerInv /\ [ServerNext]_serverVars => ServerInv'
<1> SUFFICES ASSUME ServerInv, [ServerNext]_serverVars
             PROVE  ServerInv'
  OBVIOUS
<1>1. Inv'
  BY StepOfTheGame, InvNext DEF ServerInv
<1>2. OwnTypes' /\ JobsFit' /\ PendingIsText' /\ PendingIsSeated'
  <2>1. CASE UNCHANGED serverVars
    BY <2>1 DEF ServerInv, serverVars, vars, brokerVars, requestVars, uplinkVars,
                OwnTypes, JobsFit, PendingIsText, PendingIsSeated, Seated
  <2>2. CASE (\E h \in Handlers : NamesRace(h)) \/ PlayersRace
    BY <2>2 DEF NamesRace, PlayersRace, Crash, ServerInv, vars, brokerVars, requestVars,
                uplinkVars, OwnTypes, JobsFit, PendingIsText, PendingIsSeated, Seated
  <2> QED
    BY <2>1, <2>2, RequestInv, HandlerInv, BrokerInv, UplinkInv DEF ServerNext
<1> QED
  BY <1>1, <1>2 DEF ServerInv

-----------------------------------------------------------------------------
(* The theorems *)

THEOREM ServerInvariance == ServerSpec => []ServerInv
BY ServerInitInv, ServerInvNext, PTL DEF ServerSpec

\* The variables of the server keep their types.
THEOREM ServerTypeCorrect == ServerSpec => []ServerTypeOK
<1>1. ServerInv => ServerTypeOK
  BY DEF ServerInv, Inv, ServerTypeOK
<1> QED
  BY <1>1, ServerInvariance, PTL

\* Between the two sections of handleUplink the sender stays in the game.
THEOREM PendingStaysSeated == ServerSpec => []PendingIsSeated
<1>1. ServerInv => PendingIsSeated
  BY DEF ServerInv
<1> QED
  BY <1>1, ServerInvariance, PTL

LEMMA LossNext == ServerInv /\ [ServerNext]_serverVars => [LossHasCause]_serverVars
<1> SUFFICES ASSUME ServerInv, ServerNext, ~lockLost, lockLost'
             PROVE  LossHasCause
  BY DEF LossHasCause
<1>1. ASSUME NEW h \in Handlers, JoinGame(h)
      PROVE  LossHasCause
  BY <1>1 DEF JoinGame, AddPlayer, AddDuplicate, LossHasCause
<1>2. ASSUME NEW h \in Handlers, DealGame(h)
      PROVE  LossHasCause
  <2>1. CASE StartTooFew
    BY <1>2, <2>1, SeatedFinite DEF DealGame, StartTooFew, LossHasCause, ServerInv, Inv
  <2>3. CASE StartGame
    BY <2>3 DEF StartGame
  <2> QED
    BY <1>2, <2>1, <2>3 DEF DealGame
<1>3. CASE BrokerNext
  BY <1>3 DEF BrokerNext, AssignBroker, AssignClient, ConnectFails, ConnectSucceeds,
              Resubscribe, ResubscribeEnds, LinkLost, Reconnect, Crash, vars
<1>4. CASE (\E h \in Handlers : Request(h) \/ NamesRace(h)) \/ PlayersRace
  BY <1>4 DEF Request, PostSpelare, PostCsr, PostStart, NamesRace, PlayersRace, Crash, vars
<1>5. CASE UplinkNext
  BY <1>5 DEF UplinkNext, Publish, CheckUplink, ApplyUplink, Uplink, CooldownEnds, vars
<1>6. ASSUME NEW h \in Handlers, HandlerStep(h)
      PROVE  LossHasCause
  BY <1>1, <1>2, <1>6 DEF HandlerStep, RefuseId, AllowId, LookUpName, StoreName,
                          SubscribeUplink, RefuseStart, AllowStart, vars
<1> QED
  BY <1>3, <1>4, <1>5, <1>6 DEF ServerNext

\* The lock is lost by a certificate for a seated name, by a start without
\* players or before there is a client, and by nothing else.
THEOREM LockLossHasCause == ServerSpec => LockLostBy
BY LossNext, ServerInvariance, PTL DEF ServerSpec, LockLostBy

\* The server implements the game: every theorem about GameState is a theorem
\* about the server.
THEOREM ServerPlaysTheGame == ServerSpec => ImplementsGame
<1>1. ServerInit => Init
  BY DEF ServerInit
<1>2. ServerInv /\ [ServerNext]_serverVars => [Next]_vars
  BY StepOfTheGame
<1> QED
  BY <1>1, <1>2, ServerInvariance, PTL DEF ServerSpec, ImplementsGame, Spec

\* What the theorems about GameState say, of the server: however its handlers,
\* its dispatcher and its broker client interleave, the game waits for a player
\* and is led by one, ...
THEOREM ServerKeepsTheGame ==
  ServerSpec => [](SomeoneAwaited /\ LeaderIsSeated /\ PlayersFitThePhase)
BY ServerPlaysTheGame, NeverWaitingForNobody, AlwaysLed, PhaseDiscipline,
   PTL DEF ImplementsGame

\* ... and its votes decide what they are put for: who is kicked, who gets a
\* mission, what is counted, and who plays for whom.
THEOREM ServerKeepsTheVotes ==
  ServerSpec => /\ OnlyTheLeaderIsKicked
                /\ MissionNeedsApproval
                /\ MajorityCarries
                /\ QuestionsStartClean
                /\ DealIsComplete
BY ServerPlaysTheGame, KicksNeedAVote, MissionsNeedAVote, MajoritiesCarry, QuestionsPutClean,
   EverybodyIsDealt DEF ImplementsGame

\* The server goes through the rounds of GameRounds.
THEOREM ServerKeepsTheRounds == ServerSpec => ImplementsRounds
BY ServerPlaysTheGame, Refinement DEF ImplementsGame

-----------------------------------------------------------------------------
(* The lock *)

\* What a section finds when it has the lock: a start either has players to
\* deal to and a client to announce it with, or no players; and the answer
\* between the two sections has a player and a client.
SectionsAreReady ==
  ~lockLost =>
    /\ \A h \in Handlers : job[h].at = "deal" => Seated = {} \/ mqttClient = "set"
    /\ uplink # NoMessage => mqttClient = "set" /\ uplink.from \in Seated

\* The guards of the sections of GameState hold back no handler that has the
\* lock: StartTooFew and StartGame, and the phases of Uplink, are all cases.
THEOREM SectionsRun == ServerSpec => []SectionsAreReady
<1>1. ServerInv => SectionsAreReady
  <2> SUFFICES ASSUME ServerInv, ~lockLost
               PROVE  /\ Seated = {} \/ mqttClient = "set"
                      /\ uplink # NoMessage => mqttClient = "set" /\ uplink.from \in Seated
    BY DEF SectionsAreReady
  <2>1. mqttClient \in {"nil", "set"} /\ (mqttClient = "nil" => Seated = {})
    BY DEF ServerInv, Inv, TypeOK, PlayersFitThePhase
  <2>2. uplink # NoMessage => uplink.from \in Seated
    BY DEF ServerInv, PendingIsSeated
  <2> QED
    BY <2>1, <2>2
<1> QED
  BY <1>1, ServerInvariance, PTL

\* Without the lock the game stands still, and so do the requests for a name or
\* a certificate, the starts, and the dispatcher with what it has received.
Stopped ==
  lockLost =>
    /\ lockLost'
    /\ UNCHANGED <<phase, players, leader, counters, announced, uplink>>
    /\ \A h \in Handlers : job[h].at \in {"spelare", "csr", "deal"} => job'[h] = job[h]
    /\ inbox' # inbox => link' = "lost" \/ \E m \in Message : inbox' = Append(inbox, m)

LEMMA StopNext == ServerInv /\ [ServerNext]_serverVars => [Stopped]_serverVars
<1> SUFFICES ASSUME ServerInv, ServerNext, lockLost
             PROVE  Stopped
  <2>1. UNCHANGED serverVars => UNCHANGED <<vars, job, uplinkVars>>
    BY DEF serverVars, requestVars
  <2> QED
    BY <2>1 DEF Stopped, counters, vars, uplinkVars
<1>1. job \in [Handlers -> Job]
  BY DEF ServerInv, OwnTypes
<1>2. CASE BrokerNext
  BY <1>2 DEF BrokerNext, AssignBroker, AssignClient, ConnectFails, ConnectSucceeds,
              Resubscribe, ResubscribeEnds, LinkLost, Reconnect, Crash, Stopped, counters, vars,
              requestVars, uplinkVars
<1>3. ASSUME NEW g \in Handlers, Request(g)
      PROVE  Stopped
  <2>1. job[g].at = "idle" /\ \A h \in Handlers \ {g} : job'[h] = job[h]
    BY <1>1, <1>3 DEF Request, PostSpelare, PostCsr, PostStart
  <2>2. UNCHANGED <<vars, uplinkVars>>
    BY <1>3 DEF Request, PostSpelare, PostCsr, PostStart
  <2> QED
    BY <2>1, <2>2 DEF Stopped, counters, vars, uplinkVars
<1>4. ASSUME NEW g \in Handlers, HandlerStep(g)
      PROVE  Stopped
  <2>1. \/ LookUpName(g) \/ StoreName(g) \/ SubscribeUplink(g)
        \/ RefuseStart(g) \/ AllowStart(g)
    BY <1>4 DEF HandlerStep, RefuseId, AllowId, JoinGame, DealGame, AddPlayer,
                AddDuplicate, StartTooFew, StartGame
  <2>2. job[g].at \in {"lookup", "storing", "subscribe", "start"}
    BY <2>1 DEF LookUpName, StoreName, SubscribeUplink, RefuseStart, AllowStart
  <2>3. \A h \in Handlers \ {g} : job'[h] = job[h]
    BY <1>1, <2>1 DEF LookUpName, StoreName, SubscribeUplink, RefuseStart, AllowStart,
                      Goto, Finish
  <2>4. UNCHANGED <<vars, uplinkVars>>
    BY <2>1 DEF LookUpName, StoreName, SubscribeUplink, RefuseStart, AllowStart
  <2> QED
    BY <2>2, <2>3, <2>4 DEF Stopped, counters, vars, uplinkVars
<1>5. CASE UplinkNext
  <2>1. CASE \E p \in PlayerIds, v \in SentVals : Publish(p, v)
    BY <2>1 DEF Publish, Stopped, counters, vars, requestVars, Message
  <2>2. CASE \E p \in PlayerIds : CooldownEnds(p)
    BY <2>2 DEF CooldownEnds, Stopped, counters, vars, requestVars
  <2> QED
    BY <1>5, <2>1, <2>2 DEF UplinkNext, CheckUplink, ApplyUplink, Uplink
<1>6. CASE (\E h \in Handlers : NamesRace(h)) \/ PlayersRace
  BY <1>6 DEF NamesRace, PlayersRace, Crash, Stopped, counters, vars, requestVars, uplinkVars
<1> QED
  BY <1>2, <1>3, <1>4, <1>5, <1>6 DEF ServerNext

\* A lost lock stays lost, and with it the game stops for good.
THEOREM LostLockStopsTheGame == ServerSpec => [][Stopped]_serverVars
BY StopNext, ServerInvariance, PTL DEF ServerSpec

=============================================================================
