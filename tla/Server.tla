------------------------------- MODULE Server -------------------------------
(***************************************************************************)
(* The Go server around the game: the goroutines of net/http that run the  *)
(* three handlers, the goroutine that connects to the broker and           *)
(* subscribes, and the goroutine of the MQTT client that hands uplinks to  *)
(* handleUplink one at a time.  They share gameState, whose sections are   *)
(* the actions of GameState, and two maps nobody locks: ipToName, and      *)
(* gameState.Players while initializeMQTT walks over it.                   *)
(*                                                                         *)
(* The Go runtime stops the whole process when it sees one goroutine use a *)
(* map another is writing; it does not always see it.  A step that uses a  *)
(* map while another goroutine writes it may therefore crash.              *)
(***************************************************************************)
EXTENDS GameState

CONSTANTS Handlers,   \* requests that can be in progress at once
          Conns,      \* client addresses, as the text host+port
          NoConn,     \* the address of no request
          SentVals,   \* what players publish: values of "val", "malformed"
          Attentive,  \* players who send answers to the open question only
          MaxInbox    \* messages received and not yet handled

ASSUME ServerConstants ==
  /\ MaxInbox \in Nat
  /\ SentVals \subseteq Vals \cup {"malformed"}
  /\ Attentive \subseteq PlayerIds

VARIABLES broker,     \* where startBrokerClient is
          toVisit,    \* the players its loop has still to subscribe
          link,       \* the connection to the broker
          subscribed, \* the players whose uplink the broker forwards
          ipToName,   \* the names given out, by address
          job,        \* the request each handler goroutine serves
          inbox,      \* uplinks received, in order
          uplink,     \* the uplink between its two sections, if there is one
          cooling,    \* the players heard less than MessageCooldown ago
          crashed     \* the process has ended

requestVars == <<ipToName, job>>
uplinkVars == <<inbox, uplink, cooling>>
brokerVars == <<broker, toVisit, link, subscribed>>
serverVars == <<vars, brokerVars, requestVars, uplinkVars, crashed>>

-----------------------------------------------------------------------------
BrokerSteps == {"new", "connecting", "subscribing", "done"}
Links == {"closed", "open", "lost"}
Steps == {"idle", "spelare", "lookup", "storing", "subscribe",
          "csr", "start", "deal"}

Job == [at: Steps, conn: Conns \cup {NoConn}, name: PlayerIds \cup {NoPlayer}]
IdleJob == [at |-> "idle", conn |-> NoConn, name |-> NoPlayer]

Message == [from: PlayerIds, val: SentVals]
NoMessage == [from |-> NoPlayer, val |-> "none"]

ServerInit ==
  /\ Init
  /\ broker = "new"
  /\ toVisit = {}
  /\ link = "closed"
  /\ subscribed = {}
  /\ ipToName = [c \in {} |-> NoPlayer]
  /\ job = [h \in Handlers |-> IdleJob]
  /\ inbox = <<>>
  /\ uplink = NoMessage
  /\ cooling = {}
  /\ crashed = FALSE

\* The runtime, or a panic outside net/http, ends the process.
Crash ==
  /\ crashed' = TRUE
  /\ UNCHANGED <<vars, brokerVars, requestVars, uplinkVars>>

\* Another request is in the middle of writing ipToName.
NamesBusy(h) == \E g \in Handlers \ {h} : job[g].at = "storing"

Goto(h, at) == job' = [job EXCEPT ![h].at = at]
Finish(h) == job' = [job EXCEPT ![h] = IdleJob]

-----------------------------------------------------------------------------
(* startBrokerClient and initializeMQTT *)

AssignBroker ==
  /\ ~crashed
  /\ broker = "new"
  /\ AssignClient
  /\ broker' = "connecting"
  /\ UNCHANGED <<toVisit, link, subscribed, requestVars, uplinkVars, crashed>>

\* Connect returns an error: panic(token.Error()).
ConnectFails ==
  /\ ~crashed
  /\ broker = "connecting"
  /\ Crash

ConnectSucceeds ==
  /\ ~crashed
  /\ broker = "connecting"
  /\ broker' = "subscribing"
  /\ link' = "open"
  /\ toVisit' = Seated
  /\ UNCHANGED <<vars, subscribed, requestVars, uplinkVars, crashed>>

\* One turn of the loop over Players; a subscription while the link is down is
\* thrown away.
Resubscribe(p) ==
  /\ ~crashed
  /\ broker = "subscribing"
  /\ p \in toVisit
  /\ toVisit' = toVisit \ {p}
  /\ subscribed' = IF link = "open" THEN subscribed \cup {p} ELSE subscribed
  /\ UNCHANGED <<vars, broker, link, requestVars, uplinkVars, crashed>>

ResubscribeEnds ==
  /\ ~crashed
  /\ broker = "subscribing"
  /\ toVisit = {}
  /\ broker' = "done"
  /\ UNCHANGED <<vars, toVisit, link, subscribed, requestVars, uplinkVars, crashed>>

\* What a change of the map of players does to the loop over it: a name that
\* is added may be visited or not, one that is deleted is not, and the runtime
\* may catch the race.
PlayersChange ==
  IF broker = "subscribing"
  THEN \E new \in SUBSET (Seated' \ Seated) :
         toVisit' = (toVisit \cap Seated') \cup new
  ELSE UNCHANGED toVisit

-----------------------------------------------------------------------------
(* The link to the broker *)

\* The session is clean, so the broker forgets every subscription; what was
\* received may still be handed to handleUplink.
LinkLost ==
  /\ ~crashed
  /\ link = "open"
  /\ link' = "lost"
  /\ subscribed' = {}
  /\ inbox' \in {inbox, <<>>}
  /\ UNCHANGED <<vars, broker, toVisit, requestVars, uplink, cooling, crashed>>

\* The client reconnects by itself.  No handler is registered for that, so
\* nobody subscribes again.
Reconnect ==
  /\ ~crashed
  /\ link = "lost"
  /\ link' = "open"
  /\ UNCHANGED <<vars, broker, toVisit, subscribed, requestVars, uplinkVars, crashed>>

-----------------------------------------------------------------------------
(* spelare_handler *)

PostSpelare(h, c) ==
  /\ ~crashed
  /\ job[h].at = "idle"
  /\ job' = [job EXCEPT ![h].at = "spelare", ![h].conn = c]
  /\ UNCHANGED <<vars, brokerVars, ipToName, uplinkVars, crashed>>

\* Mutant: the early return of the handler skips the Unlock.
RefuseId_KeepLock(h) ==
  /\ ~crashed
  /\ job[h].at = "spelare"
  /\ ~lockLost
  /\ Finish(h)
  /\ lockLost' = (phase # "IDLE")
  /\ UNCHANGED <<phase, players, leader, counters, announced, mqttClient,
                 brokerVars, ipToName, uplinkVars, crashed>>

\* The phase is read under the lock.  A game that runs refuses names; between
\* games so does a body that cannot be read, or an address without a port.
RefuseId(h) ==
  /\ ~crashed
  /\ job[h].at = "spelare"
  /\ ~lockLost
  /\ Finish(h)
  /\ UNCHANGED <<vars, brokerVars, ipToName, uplinkVars, crashed>>

\* The lock is given back before the name is looked up.
AllowId(h) ==
  /\ ~crashed
  /\ job[h].at = "spelare"
  /\ ~lockLost
  /\ phase = "IDLE"
  /\ Goto(h, "lookup")
  /\ UNCHANGED <<vars, brokerVars, ipToName, uplinkVars, crashed>>

\* Mutant: the name that was drawn is not kept.
LookUpName_Empty(h) ==
  /\ ~crashed
  /\ job[h].at = "lookup"
  /\ IF job[h].conn \in DOMAIN ipToName
     THEN job' = [job EXCEPT ![h].at = "subscribe",
                             ![h].name = ipToName[job[h].conn]]
     ELSE Goto(h, "storing")
  /\ UNCHANGED <<vars, brokerVars, ipToName, uplinkVars, crashed>>

\* Reading ipToName finds the name, or GenerateName draws any of them,
\* given out already or not, and the write begins.
LookUpName(h) ==
  /\ ~crashed
  /\ job[h].at = "lookup"
  /\ \/ /\ job[h].conn \in DOMAIN ipToName
        /\ job' = [job EXCEPT ![h].at = "subscribe",
                              ![h].name = ipToName[job[h].conn]]
     \/ /\ job[h].conn \notin DOMAIN ipToName
        /\ \E p \in PlayerIds :
             job' = [job EXCEPT ![h].at = "storing", ![h].name = p]
  /\ UNCHANGED <<vars, brokerVars, ipToName, uplinkVars, crashed>>

StoreName(h) ==
  /\ ~crashed
  /\ job[h].at = "storing"
  /\ ipToName' = [c \in DOMAIN ipToName \cup {job[h].conn} |->
                    IF c = job[h].conn THEN job[h].name ELSE ipToName[c]]
  /\ Goto(h, "subscribe")
  /\ UNCHANGED <<vars, brokerVars, uplinkVars, crashed>>

\* Mutant: the handler waits until the broker has the subscription.
SubscribeUplink_Wait(h) ==
  /\ ~crashed
  /\ job[h].at = "subscribe"
  /\ link = "open"
  /\ subscribed' = subscribed \cup {job[h].name}
  /\ Finish(h)
  /\ UNCHANGED <<vars, broker, toVisit, link, ipToName, uplinkVars, crashed>>

\* The reply, then Subscribe.  With a nil client Subscribe panics, which
\* net/http recovers; without a link the subscription is thrown away.
SubscribeUplink(h) ==
  /\ ~crashed
  /\ job[h].at = "subscribe"
  /\ subscribed' = IF link = "open" THEN subscribed \cup {job[h].name} ELSE subscribed
  /\ Finish(h)
  /\ UNCHANGED <<vars, broker, toVisit, link, ipToName, uplinkVars, crashed>>

-----------------------------------------------------------------------------
(* spelare_csr_handler *)

\* A certificate is signed for any name, given out or not.
PostCsr(h, p) ==
  /\ ~crashed
  /\ job[h].at = "idle"
  /\ job' = [job EXCEPT ![h].at = "csr", ![h].name = p]
  /\ UNCHANGED <<vars, brokerVars, ipToName, uplinkVars, crashed>>

\* Mutant: a game that runs takes nobody in, and the certificate is sent.
JoinGame_IdleOnly(h) ==
  /\ ~crashed
  /\ job[h].at = "csr"
  /\ IF phase = "IDLE"
     THEN (AddPlayer(job[h].name) \/ AddDuplicate(job[h].name)) /\ PlayersChange
     ELSE UNCHANGED <<vars, toVisit>>
  /\ Finish(h)
  /\ UNCHANGED <<broker, link, subscribed, ipToName, uplinkVars, crashed>>

JoinGame(h) ==
  /\ ~crashed
  /\ job[h].at = "csr"
  /\ AddPlayer(job[h].name) \/ AddDuplicate(job[h].name)
  /\ PlayersChange
  /\ Finish(h)
  /\ UNCHANGED <<broker, link, subscribed, ipToName, uplinkVars, crashed>>

-----------------------------------------------------------------------------
(* start_handler *)

PostStart(h, c) ==
  /\ ~crashed
  /\ job[h].at = "idle"
  /\ job' = [job EXCEPT ![h].at = "start", ![h].conn = c]
  /\ UNCHANGED <<vars, brokerVars, ipToName, uplinkVars, crashed>>

\* An address that was given no name is refused, and so is a body that does not
\* ask for a start.
RefuseStart(h) ==
  /\ ~crashed
  /\ job[h].at = "start"
  /\ Finish(h)
  /\ UNCHANGED <<vars, brokerVars, ipToName, uplinkVars, crashed>>

\* Mutant: the phase is assigned before the lock is taken.
AllowStart_PhaseFirst(h) ==
  /\ ~crashed
  /\ job[h].at = "start"
  /\ job[h].conn \in DOMAIN ipToName
  /\ Goto(h, "deal")
  /\ phase' = "LEADER_VOTE"
  /\ UNCHANGED <<players, leader, counters, announced, mqttClient, lockLost,
                 brokerVars, ipToName, uplinkVars, crashed>>

AllowStart(h) ==
  /\ ~crashed
  /\ job[h].at = "start"
  /\ job[h].conn \in DOMAIN ipToName
  /\ Goto(h, "deal")
  /\ UNCHANGED <<vars, brokerVars, ipToName, uplinkVars, crashed>>

DealGame(h) ==
  /\ ~crashed
  /\ job[h].at = "deal"
  /\ StartTooFew \/ StartGame
  /\ Finish(h)
  /\ UNCHANGED <<brokerVars, ipToName, uplinkVars, crashed>>

-----------------------------------------------------------------------------
(* handleUplink *)

\* What the phase asks for.
Answers == IF phase = "MISSION" THEN {"lyckas", "sabotera"} ELSE {"ok", "neka"}

\* A player publishes; the broker forwards what the server is subscribed to.
Publish(p, v) ==
  /\ ~crashed
  /\ link = "open"
  /\ p \in subscribed
  /\ p \in Attentive => v \in Answers
  /\ Len(inbox) < MaxInbox
  /\ inbox' = Append(inbox, [from |-> p, val |-> v])
  /\ UNCHANGED <<vars, brokerVars, requestVars, uplink, cooling, crashed>>

\* Mutant: a sender that is not in the game is let through.
CheckUplink_Unknown ==
  /\ ~crashed
  /\ uplink = NoMessage
  /\ inbox # <<>>
  /\ ~lockLost
  /\ inbox' = Tail(inbox)
  /\ LET m == Head(inbox)
     IN  IF m.from \in cooling
         THEN UNCHANGED <<uplink, cooling>>
         ELSE /\ cooling' = cooling \cup {m.from}
              /\ uplink' = IF m.val = "malformed" THEN NoMessage ELSE m
  /\ UNCHANGED <<vars, brokerVars, requestVars, crashed>>

\* Mutant: the message of a sender who is gone stays at the head of the queue.
CheckUplink_KeepUnknown ==
  /\ ~crashed
  /\ uplink = NoMessage
  /\ inbox # <<>>
  /\ ~lockLost
  /\ LET m == Head(inbox)
     IN  IF m.from \notin Seated
         THEN UNCHANGED uplinkVars
         ELSE /\ inbox' = Tail(inbox)
              /\ IF m.from \in cooling
                 THEN UNCHANGED <<uplink, cooling>>
                 ELSE /\ cooling' = cooling \cup {m.from}
                      /\ uplink' = IF m.val = "malformed" THEN NoMessage ELSE m
  /\ UNCHANGED <<vars, brokerVars, requestVars, crashed>>

\* The first section: who is not in the game, or was heard a moment ago, is
\* dropped; a payload that is no JSON costs the cooldown all the same.
CheckUplink ==
  /\ ~crashed
  /\ uplink = NoMessage
  /\ inbox # <<>>
  /\ ~lockLost
  /\ inbox' = Tail(inbox)
  /\ LET m == Head(inbox)
     IN  IF m.from \notin Seated \/ m.from \in cooling
         THEN UNCHANGED <<uplink, cooling>>
         ELSE /\ cooling' = cooling \cup {m.from}
              /\ uplink' = IF m.val = "malformed" THEN NoMessage ELSE m
  /\ UNCHANGED <<vars, brokerVars, requestVars, crashed>>

\* The second section: the answer is processed and the game progresses.  The
\* cooldown of a player who is kicked goes with the player.
ApplyUplink ==
  /\ ~crashed
  /\ uplink # NoMessage
  /\ Uplink(uplink.from, uplink.val)
  /\ PlayersChange
  /\ uplink' = NoMessage
  /\ cooling' = cooling \cap Seated'
  /\ UNCHANGED <<broker, link, subscribed, requestVars, inbox, crashed>>

\* MessageCooldown has passed since the last message of p.
CooldownEnds(p) ==
  /\ ~crashed
  /\ p \in cooling
  /\ cooling' = cooling \ {p}
  /\ UNCHANGED <<vars, brokerVars, requestVars, inbox, uplink, crashed>>

-----------------------------------------------------------------------------
(* The races the Go runtime may catch *)

\* A request reads or writes ipToName while another writes it.
NamesRace(h) ==
  /\ ~crashed
  /\ job[h].at \in {"lookup", "storing", "start"}
  /\ NamesBusy(h)
  /\ Crash

\* The loop of initializeMQTT meets an insertion or a deletion.
PlayersRace ==
  /\ ~crashed
  /\ broker = "subscribing"
  /\ ~lockLost
  /\ \/ \E h \in Handlers : job[h].at = "csr" /\ job[h].name \notin Seated
     \/ uplink # NoMessage /\ phase = "KICK_VOTE"
  /\ Crash

-----------------------------------------------------------------------------
BrokerNext ==
  \/ AssignBroker
  \/ ConnectFails
  \/ ConnectSucceeds
  \/ \E p \in PlayerIds : Resubscribe(p)
  \/ ResubscribeEnds
  \/ LinkLost
  \/ Reconnect

HandlerStep(h) ==
  \/ RefuseId(h)
  \/ AllowId(h)
  \/ LookUpName(h)
  \/ StoreName(h)
  \/ SubscribeUplink(h)
  \/ JoinGame(h)
  \/ RefuseStart(h)
  \/ AllowStart(h)
  \/ DealGame(h)

Request(h) ==
  \/ \E c \in Conns : PostSpelare(h, c)
  \/ \E p \in PlayerIds : PostCsr(h, p)
  \/ \E c \in Conns : PostStart(h, c)

UplinkNext ==
  \/ \E p \in PlayerIds, v \in SentVals : Publish(p, v)
  \/ CheckUplink
  \/ ApplyUplink
  \/ \E p \in PlayerIds : CooldownEnds(p)

ServerNext ==
  \/ BrokerNext
  \/ \E h \in Handlers : Request(h)
  \/ \E h \in Handlers : HandlerStep(h)
  \/ UplinkNext
  \/ \E h \in Handlers : NamesRace(h)
  \/ PlayersRace

ServerSpec == ServerInit /\ [][ServerNext]_serverVars

\* Go runs every goroutine that is not blocked, and its mutex starves nobody;
\* cooldowns end.  Nothing is assumed of clients or of the network.
Fairness ==
  /\ \A h \in Handlers : WF_serverVars(HandlerStep(h))
  /\ WF_serverVars(CheckUplink)
  /\ WF_serverVars(ApplyUplink)
  /\ \A p \in PlayerIds : WF_serverVars(CooldownEnds(p))

FairSpec == ServerSpec /\ Fairness

\* A player answers the open question when its last message is handled and a
\* cooldown ago.
Answer(p) ==
  /\ p \notin cooling
  /\ uplink.from # p
  /\ \A i \in DOMAIN inbox : inbox[i].from # p
  /\ \E v \in SentVals : Publish(p, v)

\* Attentive players answer again and again.
AttentiveSpec ==
  FairSpec /\ \A p \in Attentive : SF_serverVars(Answer(p))

-----------------------------------------------------------------------------
(* Properties *)

\* The types of the variables Server adds to GameState.
OwnTypes ==
  /\ broker \in BrokerSteps
  /\ toVisit \subseteq PlayerIds
  /\ link \in Links
  /\ subscribed \subseteq PlayerIds
  /\ DOMAIN ipToName \subseteq Conns
  /\ Range(ipToName) \subseteq PlayerIds
  /\ job \in [Handlers -> Job]
  /\ inbox \in Seq(Message)
  /\ uplink \in Message \cup {NoMessage}
  /\ cooling \subseteq PlayerIds
  /\ crashed \in BOOLEAN

\* Every variable of the server keeps its type: among others, only names are
\* given out, and only to addresses.
ServerTypeOK == TypeOK /\ OwnTypes

\* handleUplink gives the lock back between finding the sender in the game and
\* processing the answer.  The sender is still in the game when it takes the
\* lock again: only the dispatcher removes players, and it handles one uplink
\* at a time.
PendingIsSeated == uplink # NoMessage => uplink.from \in Seated

LossHasCause ==
  ~lockLost /\ lockLost' =>
    \/ mqttClient = "nil"
    \/ \E h \in Handlers : job[h].at = "csr" /\ job[h].name \in Seated
    \/ \E h \in Handlers : job[h].at = "deal" /\ Seated = {}

\* The lock is lost only by the early returns and the panics that leave it
\* locked: a certificate for a name that is in the game, a start without
\* players, or a section that publishes before there is a client.
LockLostBy == [][LossHasCause]_serverVars

\* The server plays the game of GameState: whatever the goroutines do, the game
\* changes by one whole section at a time, and only while the lock is there.
ImplementsGame == Spec

\* Every request is answered, whatever the others do, unless the lock is lost
\* or the process ends: no handler waits for another one but for the lock, and
\* no section waits for anything.
HandlersFinish ==
  \A h \in Handlers :
    job[h].at # "idle" ~> job[h].at = "idle" \/ lockLost \/ crashed

\* An answer to the open question has passed the first section.
Heard(p) == uplink.from = p /\ uplink.val \in Answers

NoMoreStarts == \A h \in Handlers : job[h].at # "deal"

\* An attentive player whose answer is awaited is heard in the end, whatever
\* else is sent and dropped in between, as long as the broker forwards what the
\* player sends and the game is not started over and over.
AnswersCount ==
  <>[]NoMoreStarts =>
    \A p \in Attentive :
      p \in Awaited ~> \/ Heard(p)
                       \/ p \notin Awaited
                       \/ p \notin subscribed
                       \/ lockLost
                       \/ crashed

=============================================================================
