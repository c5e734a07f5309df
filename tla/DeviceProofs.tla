---------------------------- MODULE DeviceProofs ----------------------------
(***************************************************************************)
(* Proofs about the firmware.  What makes the invariants inductive is how  *)
(* the client task's place, its request and the answer belong together;    *)
(* what the buffer holds is the matter of HttpBufferProofs.                *)
(***************************************************************************)
EXTENDS Device, HttpBufferProofs

\* The client task has a request out exactly where it waits for one, and the
\* request is the one made there.
RequestFits ==
  /\ request = NoRequest <=> at \notin {"registering", "sending", "starting"}
  /\ at = "registering" => request.path = "/spelare"
  /\ at = "sending" => request.path = "/spelare/csr" /\ request.cn \in {player_id, "garbage"}
  /\ at = "starting" => request.path = "/start"

\* An answer is to the request at hand.
ReplyFits ==
  /\ reply.body = "id" => at = "registering"
  /\ reply.body = "certificate" => at = "sending" /\ reply.name = player_id

\* The certificate is for the name, and both stay from the certificate on.
CertFits ==
  /\ "CERT_SIGNED" \in bits =>
       /\ signed_certificate = player_id
       /\ at \notin {"wifi", "register", "registering", "csr"}
  /\ at \in {"start", "starting", "mqtt", "loop"} => "CERT_SIGNED" \in bits

\* What is published carries the name.
TopicFits ==
  /\ mqtt_client = "started" =>
       at = "loop" /\ topic_player_uplink \in UplinkNames(player_id)
  /\ published # NoChoice =>
       at = "loop" /\ published.topic \in UplinkNames(player_id)

Fits == RequestFits /\ BufferInv /\ ReplyFits /\ CertFits /\ TopicFits

DeviceInv == DeviceTypeOK /\ Fits

-----------------------------------------------------------------------------
(* Types *)

\* The empty sequences the buffers begin with and go back to.
LEMMA EmptyBuffers == <<>> \in Seq(Pieces) /\ <<>> \in Seq(Commands)
OBVIOUS

\* At the start every variable has its type.
LEMMA TypeInit == DeviceInit => DeviceTypeOK
<1> SUFFICES ASSUME DeviceInit
             PROVE  DeviceTypeOK
  OBVIOUS
<1>1. WifiTypeOK
  BY TypeWifiInit DEF DeviceInit
<1>2. HttpTypeOK
  BY BufferInit DEF DeviceInit, BufferInv
<1>3. at \in ClientSteps /\ events \in 0..MaxEvents /\ listening \subseteq Topics
  BY DeviceConstants DEF DeviceInit, ClientSteps
<1>4. mqtt_client \in {"NULL", "started"} /\ topic_player_uplink \in Names \cup {"cut", "unset"}
  BY DEF DeviceInit
<1>5. typed \in Seq(Commands) /\ published \in Choice \cup {NoChoice}
  BY EmptyBuffers DEF DeviceInit
<1> QED
  BY <1>1, <1>2, <1>3, <1>4, <1>5 DEF DeviceTypeOK

\* A reset sets every variable to what it is at the start.
LEMMA TypeReboot == Reboot => DeviceTypeOK'
<1> SUFFICES ASSUME Reboot
             PROVE  DeviceTypeOK'
  OBVIOUS
<1>1. WifiTypeOK'
  <2>1. (bits \subseteq Bits /\ reconnect_counter \in 0..MaxAttempt /\ station \in Stations)'
    BY SomeAttempts DEF Reboot, Stations
  <2>2. (dhcp \in BOOLEAN)'
    BY Zenon DEF Reboot
  <2> QED
    BY <2>1, <2>2 DEF WifiTypeOK
<1>2. HttpTypeOK'
  BY EmptyBuffers, SomePieces DEF Reboot, HttpTypeOK, Names
<1>3. (at \in ClientSteps /\ events \in 0..MaxEvents /\ listening \subseteq Topics)'
  BY DeviceConstants DEF Reboot, ClientSteps
<1>4. (mqtt_client \in {"NULL", "started"} /\ topic_player_uplink \in Names \cup {"cut", "unset"})'
  BY DEF Reboot
<1>5. (typed \in Seq(Commands) /\ published \in Choice \cup {NoChoice})'
  BY EmptyBuffers DEF Reboot
<1> QED
  BY <1>1, <1>2, <1>3, <1>4, <1>5 DEF DeviceTypeOK

-----------------------------------------------------------------------------
(* The events of the request *)

\* Handing over a piece of the answer.
LEMMA DataStep ==
  DeviceInv /\ OnData /\ UNCHANGED <<clientVars, serialVars, listening>> => DeviceInv'
<1> SUFFICES ASSUME DeviceInv, OnData, UNCHANGED <<clientVars, serialVars, listening>>
             PROVE  DeviceInv'
  OBVIOUS
<1>1. BufferInv' /\ reply' = reply /\ request' = request
  BY BufferTakes DEF DeviceInv, Fits
<1>2. DeviceTypeOK'
  <2>1. WifiTypeOK'
    BY TypeKept DEF DeviceInv, DeviceTypeOK, OnData
  <2> QED
    BY <1>1, <2>1 DEF DeviceInv, DeviceTypeOK, BufferInv, clientVars, serialVars
<1>3. (RequestFits /\ ReplyFits)'
  BY <1>1 DEF OnData, DeviceInv, Fits, RequestFits, ReplyFits, clientVars
<1>4. (CertFits /\ TopicFits)'
  BY DEF OnData, DeviceInv, Fits, CertFits, TopicFits, clientVars, serialVars, wifiVars
<1> QED
  BY <1>1, <1>2, <1>3, <1>4 DEF DeviceInv, Fits

\* The server answers.
LEMMA ReplyStep ==
  DeviceInv /\ ServerReplies /\ UNCHANGED <<clientVars, serialVars, listening>> => DeviceInv'
<1> SUFFICES ASSUME DeviceInv, ServerReplies, UNCHANGED <<clientVars, serialVars, listening>>
             PROVE  DeviceInv'
  OBVIOUS
<1>1. /\ BufferInv'
      /\ reply'.body = "id" => request.path = "/spelare"
      /\ reply'.body = "certificate" =>
           request.path = "/spelare/csr" /\ request.cn # "garbage" /\ reply'.name = request.cn
  BY BufferReplies DEF DeviceInv, Fits
<1>2. DeviceTypeOK'
  <2>1. WifiTypeOK'
    BY TypeKept DEF DeviceInv, DeviceTypeOK, ServerReplies
  <2> QED
    BY <1>1, <2>1 DEF DeviceInv, DeviceTypeOK, BufferInv, clientVars, serialVars
<1>3. RequestFits'
  BY DEF ServerReplies, DeviceInv, Fits, RequestFits, clientVars
<1>4. ReplyFits'
  BY <1>1 DEF ServerReplies, DeviceInv, Fits, RequestFits, ReplyFits, clientVars
<1>5. (CertFits /\ TopicFits)'
  BY DEF ServerReplies, DeviceInv, Fits, CertFits, TopicFits, clientVars, serialVars, wifiVars
<1> QED
  BY <1>1, <1>2, <1>3, <1>4, <1>5 DEF DeviceInv, Fits

\* The answer is parsed.
LEMMA FinishStep ==
  DeviceInv /\ OnFinish /\ UNCHANGED <<clientVars, serialVars, listening>> => DeviceInv'
<1> SUFFICES ASSUME DeviceInv, OnFinish, UNCHANGED <<clientVars, serialVars, listening>>
             PROVE  DeviceInv'
  OBVIOUS
<1>1. /\ BufferInv' /\ WifiTypeOK'
      /\ reply' = Finished /\ request' = request /\ request # NoRequest
  BY BufferFinishes DEF DeviceInv, DeviceTypeOK, Fits
<1>2. at' = at
  BY DEF clientVars
<1>3. DeviceTypeOK'
  BY <1>1 DEF DeviceInv, DeviceTypeOK, BufferInv, clientVars, serialVars
<1>4. RequestFits'
  BY <1>1, <1>2 DEF OnFinish, DeviceInv, Fits, RequestFits, ReplyFits
<1>5. ReplyFits'
  BY <1>1 DEF ReplyFits, Finished
<1>6. CertFits'
  BY <1>2 DEF OnFinish, DeviceInv, Fits, CertFits, ReplyFits
<1>7. TopicFits'
  BY <1>1, <1>2 DEF DeviceInv, Fits, RequestFits, TopicFits, clientVars, serialVars
<1> QED
  BY <1>1, <1>3, <1>4, <1>5, <1>6, <1>7 DEF DeviceInv, Fits

\* The request is over.
LEMMA EndStep == DeviceInv /\ RequestEnds => DeviceInv'
<1> SUFFICES ASSUME DeviceInv, RequestEnds
             PROVE  DeviceInv'
  OBVIOUS
<1>1. /\ arrived' = 0 /\ output_buffer' = <<>> /\ reply' = NoReply /\ request' = NoRequest
      /\ player_id' = player_id /\ signed_certificate' = signed_certificate
      /\ UNCHANGED wifiVars
      /\ UNCHANGED <<mqtt_client, topic_player_uplink, serialVars, listening>>
  BY DEF RequestEnds, OnDisconnected
<1>2. at \in {"registering", "sending", "starting"}
  BY DEF RequestEnds, OnDisconnected, DeviceInv, Fits, RequestFits
<1>3. \/ at = "registering" /\ at' = "csr"
      \/ at = "sending" /\ at' = "certificate"
      \/ at = "starting" /\ at' = "mqtt"
  BY <1>2 DEF RequestEnds, AfterRequest
<1>4. DeviceTypeOK'
  <2>1. WifiTypeOK'
    BY <1>1, TypeKept DEF DeviceInv, DeviceTypeOK
  <2>2. BufferInv'
    BY BufferEnds DEF RequestEnds, DeviceInv, Fits
  <2> QED
    BY <1>1, <1>3, <2>1, <2>2 DEF DeviceInv, DeviceTypeOK, BufferInv, ClientSteps, serialVars
<1>5. (RequestFits /\ BufferInv /\ ReplyFits)'
  <2>1. BufferInv'
    BY BufferEnds DEF RequestEnds, DeviceInv, Fits
  <2> QED
    BY <1>1, <1>3, <2>1 DEF RequestFits, ReplyFits, NoReply
<1>6. (CertFits /\ TopicFits)'
  BY <1>1, <1>3 DEF DeviceInv, Fits, CertFits, TopicFits, wifiVars, serialVars
<1> QED
  BY <1>4, <1>5, <1>6 DEF DeviceInv, Fits

-----------------------------------------------------------------------------
(* The client task *)

\* Where no request is out, nothing of an answer is left.
LEMMA NothingLeft ==
  ASSUME DeviceInv, at \notin {"registering", "sending", "starting"}
  PROVE  request = NoRequest /\ reply = NoReply /\ arrived = 0 /\ output_buffer = <<>>
BY DEF DeviceInv, Fits, RequestFits, BufferInv

\* A request is made.
LEMMA AskStep ==
  ASSUME DeviceInv, NEW path \in Paths, NEW cn \in {NoName, player_id, "garbage"},
         Perform(path, cn), UNCHANGED bits,
         UNCHANGED <<mqtt_client, topic_player_uplink, clientKeeps>>,
         \/ at = "register" /\ at' = "registering" /\ path = "/spelare"
         \/ /\ at = "csr" /\ at' = "sending" /\ path = "/spelare/csr"
            /\ cn \in {player_id, "garbage"}
         \/ at = "start" /\ at' = "starting" /\ path = "/start"
  PROVE  DeviceInv'
<1>1. request = NoRequest /\ reply = NoReply /\ arrived = 0 /\ output_buffer = <<>>
  BY NothingLeft
<1>2. /\ request' = [path |-> path, cn |-> cn]
      /\ request' \in Request
      /\ UNCHANGED <<reply, arrived, output_buffer, player_id, signed_certificate, wifiVars>>
      /\ UNCHANGED <<mqtt_client, topic_player_uplink, serialVars, listening>>
  <2>1. cn \in Names \cup {"garbage"}
    BY DEF DeviceInv, DeviceTypeOK, HttpTypeOK, Names
  <2> QED
    BY <2>1 DEF Perform, Request, clientKeeps, wifiVars
<1>3. request' # NoRequest
  BY <1>2 DEF Request, NoRequest, Paths
<1>4. DeviceTypeOK'
  <2>1. WifiTypeOK'
    BY <1>2, TypeKept DEF DeviceInv, DeviceTypeOK
  <2>2. HttpTypeOK'
    BY <1>2 DEF DeviceInv, DeviceTypeOK, HttpTypeOK
  <2> QED
    BY <1>2, <2>1, <2>2 DEF DeviceInv, DeviceTypeOK, ClientSteps, serialVars
<1>5. (RequestFits /\ BufferInv /\ ReplyFits)'
  <2>1. BufferInv'
    BY <1>1, <1>2, BufferAsks DEF DeviceInv, Fits
  <2> QED
    BY <1>1, <1>2, <1>3, <2>1 DEF RequestFits, ReplyFits, NoReply
<1>6. (CertFits /\ TopicFits)'
  BY <1>2 DEF DeviceInv, Fits, CertFits, TopicFits, wifiVars, serialVars
<1> QED
  BY <1>4, <1>5, <1>6 DEF DeviceInv, Fits

\* The task goes on without one.
LEMMA GoOnStep ==
  ASSUME DeviceInv, UNCHANGED <<wifiVars, httpVars, serialVars, listening>>,
         \/ /\ UNCHANGED <<mqtt_client, topic_player_uplink>>
            /\ \/ at = "wifi" /\ at' = "register"
               \/ at = "register" /\ at' = "csr"
               \/ at = "csr" /\ at' = "certificate"
               \/ at = "certificate" /\ at' = "start" /\ "CERT_SIGNED" \in bits
               \/ at = "start" /\ at' = "mqtt"
         \/ /\ at = "mqtt" /\ at' = "loop"
            /\ topic_player_uplink' \in UplinkNames(player_id)
            /\ mqtt_client' \in {"NULL", "started"}
  PROVE  DeviceInv'
<1>1. DeviceTypeOK'
  <2>1. WifiTypeOK' /\ HttpTypeOK'
    BY TypeKept DEF DeviceInv, DeviceTypeOK
  <2>2. topic_player_uplink' \in Names \cup {"cut", "unset"}
    BY DEF DeviceInv, DeviceTypeOK, HttpTypeOK, UplinkNames
  <2> QED
    BY <2>1, <2>2 DEF DeviceInv, DeviceTypeOK, ClientSteps, serialVars
<1>2. RequestFits' /\ ReplyFits'
  BY DEF DeviceInv, Fits, RequestFits, ReplyFits, httpVars
<1>3. BufferInv'
  BY BufferKept DEF DeviceInv, Fits
<1>4. (CertFits /\ TopicFits)'
  BY DEF DeviceInv, Fits, CertFits, TopicFits, httpVars, wifiVars, serialVars
<1> QED
  BY <1>1, <1>2, <1>3, <1>4 DEF DeviceInv, Fits

\* Every step of the client task keeps the invariant.
LEMMA ClientStep == DeviceInv /\ ClientNext => DeviceInv'
<1> SUFFICES ASSUME DeviceInv, ClientNext
             PROVE  DeviceInv'
  OBVIOUS
<1>1. CASE WifiIsUp
  BY <1>1, GoOnStep DEF WifiIsUp, Await, clientKeeps, wifiVars
<1>2. CASE RegisterPlayer
  <2>1. CASE at' = "registering"
    <3>1. Perform("/spelare", NoName) /\ at = "register" /\ UNCHANGED bits
          /\ UNCHANGED <<mqtt_client, topic_player_uplink, clientKeeps>>
      BY <1>2, <2>1 DEF RegisterPlayer, Await
    <3> QED
      BY <2>1, <3>1, AskStep DEF Paths
  <2>2. CASE at' = "csr"
    BY <1>2, <2>2, GoOnStep DEF RegisterPlayer, Await, clientKeeps, wifiVars
  <2> QED
    BY <1>2, <2>1, <2>2 DEF RegisterPlayer, Await
<1>3. CASE SendCsr
  <2>1. CASE at' = "sending"
    <3>1. PICK cn \in CsrSubjects : Perform("/spelare/csr", cn)
      BY <1>3, <2>1 DEF SendCsr, Await
    <3>2. at = "csr" /\ UNCHANGED bits
          /\ UNCHANGED <<mqtt_client, topic_player_uplink, clientKeeps>>
      BY <1>3, <2>1 DEF SendCsr, Await
    <3> QED
      BY <2>1, <3>1, <3>2, AskStep DEF Paths, CsrSubjects
  <2>2. CASE at' = "certificate"
    BY <1>3, <2>2, GoOnStep DEF SendCsr, Await, clientKeeps, wifiVars
  <2> QED
    BY <1>3, <2>1, <2>2 DEF SendCsr, Await
<1>4. CASE HasCertificate
  BY <1>4, GoOnStep DEF HasCertificate, Await, clientKeeps, wifiVars
<1>5. CASE StartGame
  <2>1. CASE at' = "starting"
    <3>1. Perform("/start", NoName) /\ at = "start" /\ UNCHANGED bits
          /\ UNCHANGED <<mqtt_client, topic_player_uplink, clientKeeps>>
      BY <1>5, <2>1 DEF StartGame, Await
    <3> QED
      BY <2>1, <3>1, AskStep DEF Paths
  <2>2. CASE at' = "mqtt"
    BY <1>5, <2>2, GoOnStep DEF StartGame, Await, clientKeeps, wifiVars
  <2> QED
    BY <1>5, <2>1, <2>2 DEF StartGame, Await
<1>6. CASE RequestEnds
  BY <1>6, EndStep
<1>7. CASE MqttAppStart
  BY <1>7, GoOnStep DEF MqttAppStart, Await, clientKeeps, wifiVars
<1> QED
  BY <1>1, <1>2, <1>3, <1>4, <1>5, <1>6, <1>7 DEF ClientNext

-----------------------------------------------------------------------------
(* The other tasks and handlers *)

\* Nothing the client task or a request depends on changes, but for the choice
\* that is published and bits that are none of a certificate.
LEMMA AsideStep ==
  ASSUME DeviceInv, DeviceTypeOK', UNCHANGED <<httpVars, clientVars>>,
         "CERT_SIGNED" \in bits' <=> "CERT_SIGNED" \in bits,
         \/ published' = published
         \/ mqtt_client = "started" /\ published'.topic = topic_player_uplink
  PROVE  DeviceInv'
<1>1. RequestFits' /\ ReplyFits'
  BY DEF DeviceInv, Fits, RequestFits, ReplyFits, httpVars, clientVars
<1>2. BufferInv'
  BY BufferKept DEF DeviceInv, Fits
<1>3. CertFits' /\ TopicFits'
  BY DEF DeviceInv, Fits, CertFits, TopicFits, httpVars, clientVars
<1> QED
  BY <1>1, <1>2, <1>3 DEF DeviceInv, Fits

\* The link's events do not touch the certificate's bit.
LEMMA LinkStep == DeviceInv /\ LinkNext => DeviceInv'
<1> SUFFICES ASSUME DeviceInv, LinkNext
             PROVE  DeviceInv'
  OBVIOUS
<1>1. WifiTypeOK' /\ HttpTypeOK'
  BY TypeLink, TypeKept DEF LinkNext, DeviceInv, DeviceTypeOK
<1>2. DeviceTypeOK'
  BY <1>1 DEF LinkNext, DeviceInv, DeviceTypeOK, clientVars, serialVars
<1>3. "CERT_SIGNED" \in bits' <=> "CERT_SIGNED" \in bits
  BY DEF LinkNext, WifiNext, StaStart, StaConnected, GotIp, StaDisconnected, Online
<1>4. published' = published
  BY DEF LinkNext, serialVars
<1> QED
  BY <1>2, <1>3, <1>4, AsideStep DEF LinkNext

\* The broker's events change the subscriptions only.
LEMMA MqttStep == DeviceInv /\ (MqttConnected \/ MqttDisconnected) => DeviceInv'
<1> SUFFICES ASSUME DeviceInv, MqttConnected \/ MqttDisconnected
             PROVE  DeviceInv'
  OBVIOUS
<1>1. UNCHANGED <<wifiVars, httpVars, clientVars, serialVars>>
  BY DEF MqttConnected, MqttDisconnected
<1>2. WifiTypeOK' /\ HttpTypeOK'
  BY <1>1, TypeKept DEF DeviceInv, DeviceTypeOK
<1>3. listening' \subseteq Topics
  <2>1. DownlinkName(player_id) \in Names \cup {"cut"}
    BY DEF DeviceInv, DeviceTypeOK, HttpTypeOK, DownlinkName
  <2> QED
    BY <2>1 DEF MqttConnected, MqttDisconnected, Topics
<1>4. DeviceTypeOK'
  BY <1>1, <1>2, <1>3 DEF DeviceInv, DeviceTypeOK, clientVars, serialVars
<1> QED
  BY <1>1, <1>4, AsideStep DEF wifiVars, serialVars

\* What is read is a line of the player, or none.
LEMMA ReceivedType ==
  ASSUME typed \in Seq(Commands)
  PROVE  Received \subseteq Commands \cup {"unknown"}
<1>1. Range(typed) \subseteq Commands
  BY DEF Range
<1>2. typed # <<>> => Range(Tail(typed)) \subseteq Commands
  BY DEF Range
<1>3. Len(typed) = 1 => typed[1] \in Commands
  OBVIOUS
<1> QED
  BY <1>1, <1>2, <1>3 DEF Received

\* The serial task sets bits of commands and publishes to the topic it finds.
LEMMA SerialStep ==
  DeviceInv /\ SerialNext => DeviceInv'
<1> SUFFICES ASSUME DeviceInv, SerialNext
             PROVE  DeviceInv'
  OBVIOUS
<1>1. /\ UNCHANGED <<reconnect_counter, station, dhcp, httpVars, clientVars, listening>>
      /\ \/ bits' = bits
         \/ \E c \in DOMAIN CommandBit : bits' = bits \cup {CommandBit[c]}
  BY DEF SerialNext, Type, ReadCommand, InputOverflows, Obey, serialKeeps
<1>2. bits' \subseteq Bits /\ ("CERT_SIGNED" \in bits' <=> "CERT_SIGNED" \in bits)
  <2>1. \A c \in DOMAIN CommandBit : CommandBit[c] \in Bits \ {"CERT_SIGNED"}
    BY DEF CommandBit, Bits
  <2> QED
    BY <1>1, <2>1 DEF DeviceInv, DeviceTypeOK, WifiTypeOK
<1>3. WifiTypeOK'
  BY <1>1, <1>2 DEF DeviceInv, DeviceTypeOK, WifiTypeOK
<1>4. HttpTypeOK'
  BY <1>1, TypeKept DEF DeviceInv, DeviceTypeOK
<1>5. typed' \in Seq(Commands) /\ events' \in 0..MaxEvents
  <2>1. CASE \E c \in Commands : Type(c)
    <3>1. PICK c \in Commands : Type(c)
      BY <2>1
    <3>2. typed \in Seq(Commands) /\ events \in 0..MaxEvents
      BY DEF DeviceInv, DeviceTypeOK
    <3>3. typed' \in Seq(Commands)
      BY <3>1, <3>2, AppendProperties DEF Type
    <3>4. events' \in 0..MaxEvents
      BY <3>1, <3>2, DeviceConstants DEF Type
    <3> QED
      BY <3>3, <3>4
  <2>2. CASE ReadCommand
    <3>1. events \in 0..MaxEvents
      BY DEF DeviceInv, DeviceTypeOK
    <3>2. typed' = <<>> /\ events > 0 /\ events' = events - 1
      BY <2>2 DEF ReadCommand
    <3>3. events' \in 0..MaxEvents
      BY <3>1, <3>2, DeviceConstants
    <3> QED
      BY <3>2, <3>3, EmptyBuffers
  <2>3. CASE InputOverflows
    BY <2>3, EmptyBuffers, DeviceConstants DEF InputOverflows
  <2> QED
    BY <2>1, <2>2, <2>3 DEF SerialNext
<1>6. \/ published' = published
      \/ /\ mqtt_client = "started" /\ published'.topic = topic_player_uplink
         /\ published' \in Choice
  <2>1. CASE ReadCommand
    <3>1. PICK c \in Received : Obey(c)
      BY <2>1 DEF ReadCommand
    <3>2. CASE c \in Choices /\ mqtt_client = "started"
                /\ published' = [topic |-> topic_player_uplink, val |-> c]
      <4>1. topic_player_uplink \in Names \cup {"cut", "unset"}
        BY DEF DeviceInv, DeviceTypeOK
      <4> QED
        BY <3>2, <4>1 DEF Choice
    <3>3. CASE published' = published
      BY <3>3
    <3> QED
      BY <3>1, <3>2, <3>3 DEF Obey
  <2>2. CASE published' = published
    BY <2>2
  <2> QED
    BY <2>1, <2>2 DEF SerialNext, Type, InputOverflows
<1>7. DeviceTypeOK'
  BY <1>1, <1>3, <1>4, <1>5, <1>6 DEF DeviceInv, DeviceTypeOK, clientVars
<1> QED
  BY <1>1, <1>2, <1>6, <1>7, AsideStep

\* A reset forgets the name, the certificate and the request together.
LEMMA ResetStep == Reboot => DeviceInv'
<1> SUFFICES ASSUME Reboot
             PROVE  DeviceInv'
  OBVIOUS
<1>1. (RequestFits /\ ReplyFits /\ CertFits /\ TopicFits)'
  BY DEF Reboot, RequestFits, ReplyFits, CertFits, TopicFits, NoReply
<1>2. BufferInv'
  <2>1. RepliesDoNotMix'
    BY DEF Reboot, RepliesDoNotMix
  <2> QED
    BY <2>1, TypeReboot DEF Reboot, DeviceTypeOK, BufferInv
<1> QED
  BY <1>1, <1>2, TypeReboot DEF DeviceInv, Fits

-----------------------------------------------------------------------------
(* The theorems *)

\* The invariant holds at the start.
LEMMA DeviceInvInit == DeviceInit => DeviceInv
<1> SUFFICES ASSUME DeviceInit
             PROVE  DeviceInv
  OBVIOUS
<1>1. RequestFits /\ ReplyFits /\ CertFits /\ TopicFits
  BY DEF DeviceInit, WifiInit, HttpInit, RequestFits, ReplyFits, CertFits, TopicFits, NoReply
<1> QED
  BY <1>1, TypeInit, BufferInit DEF DeviceInit, DeviceInv, Fits

\* Every step keeps it.
LEMMA DeviceInvStep == DeviceInv /\ [DeviceNext]_deviceVars => DeviceInv'
<1> SUFFICES ASSUME DeviceInv, [DeviceNext]_deviceVars
             PROVE  DeviceInv'
  OBVIOUS
<1>1. CASE UNCHANGED deviceVars
  <2>1. WifiTypeOK' /\ HttpTypeOK'
    BY <1>1, TypeKept DEF deviceVars, DeviceInv, DeviceTypeOK
  <2>2. DeviceTypeOK'
    BY <1>1, <2>1 DEF deviceVars, DeviceInv, DeviceTypeOK, clientVars, serialVars
  <2> QED
    BY <1>1, <2>2, AsideStep DEF deviceVars, wifiVars, serialVars
<1>2. CASE HttpNext
  BY <1>2, DataStep, ReplyStep, FinishStep DEF HttpNext
<1>3. CASE Panic \/ Reboot
  BY <1>3, ResetStep DEF Panic
<1> QED
  BY <1>1, <1>2, <1>3, LinkStep, ClientStep, SerialStep, MqttStep DEF DeviceNext

\* It is an invariant of the firmware.
LEMMA DeviceInvariant == DeviceSpec => []DeviceInv
<1> QED
  BY DeviceInvInit, DeviceInvStep, PTL DEF DeviceSpec

\* Every variable of the firmware keeps its type, with any number of attempts,
\* pieces and lines: the counters of client.c and serial.c stay in their ranges.
THEOREM DeviceTypeCorrect == DeviceSpec => []DeviceTypeOK
<1>1. DeviceInv => DeviceTypeOK
  BY DEF DeviceInv
<1> QED
  BY <1>1, DeviceInvariant, PTL

\* The static buffer never holds anything of an earlier answer, however many
\* pieces answers come in and wherever they are cut off.
THEOREM RepliesApart == DeviceSpec => []RepliesDoNotMix
<1>1. DeviceInv => RepliesDoNotMix
  BY DEF DeviceInv, Fits, BufferInv
<1> QED
  BY <1>1, DeviceInvariant, PTL

\* Choices are published under the certified name, whatever the names.
THEOREM ChoicesCertified == DeviceSpec => []PublishesAsCertified
<1>1. DeviceInv => PublishesAsCertified
  BY DEF DeviceInv, Fits, CertFits, TopicFits, UplinkNames, PublishesAsCertified
<1> QED
  BY <1>1, DeviceInvariant, PTL

\* A connection that was made has cleared the counter of attempts.
FreshCounter == station = "connected" => reconnect_counter = 0

\* Every step but the link's own events leaves the link alone, or resets it.
LEMMA LinkOnly ==
  ASSUME [DeviceNext]_deviceVars
  PROVE  WifiNext \/ Reboot \/ UNCHANGED <<reconnect_counter, station>>
<1>1. CASE LinkNext
  BY <1>1 DEF LinkNext
<1>2. CASE ClientNext
  BY <1>2 DEF ClientNext, WifiIsUp, RegisterPlayer, SendCsr, HasCertificate, StartGame,
    RequestEnds, OnDisconnected, MqttAppStart, clientKeeps, wifiVars
<1>3. CASE HttpNext \/ SerialNext
  BY <1>3 DEF HttpNext, ServerReplies, OnData, OnFinish, wifiVars, SerialNext, Type,
    ReadCommand, InputOverflows, serialKeeps
<1>4. CASE MqttConnected \/ MqttDisconnected \/ UNCHANGED deviceVars
  BY <1>4 DEF MqttConnected, MqttDisconnected, deviceVars, wifiVars
<1> QED
  BY <1>1, <1>2, <1>3, <1>4 DEF DeviceNext, Panic

\* Only a failed attempt counts, and none is made while connected.
LEMMA CounterFresh == DeviceSpec => []FreshCounter
<1>1. DeviceInit => FreshCounter
  BY DEF DeviceInit, WifiInit, FreshCounter
<1>2. FreshCounter /\ [DeviceNext]_deviceVars => FreshCounter'
  BY LinkOnly DEF FreshCounter, WifiNext, StaStart, StaConnected, GotIp, StaDisconnected, Reboot
<1> QED
  BY <1>1, <1>2, PTL DEF DeviceSpec

\* A device never gives up on a connection it had, however many attempts in a
\* row it may make, as long as it may make one.
THEOREM RetriesProved == DeviceSpec => RetriesWhatItHad
<1>1. FreshCounter /\ [DeviceNext]_deviceVars
        => [station = "connected" => station' # "alone"]_wifiVars
  <2> SUFFICES ASSUME FreshCounter, [DeviceNext]_deviceVars, station = "connected"
               PROVE  station' # "alone"
    OBVIOUS
  <2>1. CASE StaDisconnected
    BY SomeAttempts, <2>1 DEF FreshCounter, StaDisconnected
  <2> QED
    BY <2>1, LinkOnly DEF WifiNext, StaStart, StaConnected, GotIp, Reboot
<1> QED
  BY <1>1, CounterFresh, PTL DEF DeviceSpec, RetriesWhatItHad

\* The firmware is a client as System has it.
THEOREM ClientImplemented == DeviceSpec => ImplementsClient
<1>1. DeviceInit => Registration!Init
  BY DEF DeviceInit, WifiInit, HttpInit, Registration!Init, StepAt
<1>2. DeviceInv /\ [DeviceNext]_deviceVars => [Registration!Next]_(Registration!clientState)
  <2> SUFFICES ASSUME DeviceInv, [DeviceNext]_deviceVars
               PROVE  [Registration!Next]_(Registration!clientState)
    OBVIOUS
  <2> USE DEF Registration!clientState, StepAt
  <2>1. ASSUME UNCHANGED <<request, player_id, signed_certificate>>,
               StepAt[at'] = StepAt[at],
               "CERT_SIGNED" \in bits' <=> "CERT_SIGNED" \in bits
        PROVE  UNCHANGED Registration!clientState
    BY <2>1
  <2>2. CASE LinkNext
    <3>1. "CERT_SIGNED" \in bits' <=> "CERT_SIGNED" \in bits
      BY <2>2 DEF LinkNext, WifiNext, StaStart, StaConnected, GotIp, StaDisconnected, Online
    <3> QED
      BY <2>1, <2>2, <3>1 DEF LinkNext, httpVars, clientVars
  <2>3. CASE SerialNext
    <3>1. "CERT_SIGNED" \in bits' <=> "CERT_SIGNED" \in bits
      BY <2>3 DEF SerialNext, Type, ReadCommand, InputOverflows, Obey, CommandBit, serialKeeps
    <3>2. UNCHANGED <<httpVars, clientVars>>
      BY <2>3 DEF SerialNext, Type, ReadCommand, InputOverflows, serialKeeps
    <3> QED
      BY <2>1, <3>1, <3>2 DEF httpVars, clientVars
  <2>4. CASE MqttConnected \/ MqttDisconnected \/ UNCHANGED deviceVars
    BY <2>1, <2>4 DEF MqttConnected, MqttDisconnected, deviceVars, wifiVars, httpVars, clientVars
  <2>5. CASE HttpNext
    <3>1. UNCHANGED <<at, request>>
      BY <2>5 DEF HttpNext, ServerReplies, OnData, OnFinish, clientVars
    <3>2. CASE ServerReplies \/ OnData
      BY <2>1, <3>1, <3>2 DEF ServerReplies, OnData, wifiVars
    <3>3. CASE OnFinish
      <4>1. request # NoRequest /\ reply \in Reply
        BY <3>3, BufferFinishes DEF DeviceInv, DeviceTypeOK, Fits
      <4>2. CASE reply.body = "certificate" /\ Whole
        <5>1. at = "sending" /\ reply.name = player_id
          BY <4>2 DEF DeviceInv, Fits, ReplyFits
        <5>2. /\ signed_certificate' = player_id /\ player_id' = player_id
              /\ bits' = bits \cup {"CERT_SIGNED"}
          BY <3>3, <4>2, <5>1 DEF OnFinish
        <5>3. Registration!Certified
          BY <3>1, <4>1, <5>1, <5>2 DEF Registration!Certified
        <5> QED
          BY <5>3 DEF Registration!Next
      <4>3. CASE reply.body = "id" /\ Whole
        <5>1. at = "registering" /\ reply.name \in Names
          BY <4>1, <4>3 DEF DeviceInv, Fits, ReplyFits, Reply
        <5>2. player_id' = reply.name /\ UNCHANGED <<signed_certificate, bits>>
          BY <3>3, <4>3 DEF OnFinish
        <5>3. Registration!Named(reply.name)
          BY <3>1, <4>1, <5>1, <5>2 DEF Registration!Named
        <5> QED
          BY <5>1, <5>3 DEF Registration!Next
      <4>4. CASE ~Whole \/ reply.body = "text"
        <5>1. UNCHANGED <<player_id, signed_certificate, bits>>
          BY <3>3, <4>4 DEF OnFinish
        <5> QED
          BY <2>1, <3>1, <5>1
      <4> QED
        BY <3>3, <4>2, <4>3, <4>4 DEF OnFinish, Bodies
    <3> QED
      BY <2>5, <3>2, <3>3 DEF HttpNext
  <2>6. CASE RequestEnds
    <3>1. /\ at \in {"registering", "sending", "starting"}
          /\ request # NoRequest
          /\ request' = NoRequest /\ UNCHANGED <<player_id, signed_certificate, bits>>
          /\ at' = AfterRequest[at]
      BY <2>6 DEF RequestEnds, OnDisconnected, DeviceInv, Fits, RequestFits, wifiVars
    <3>2. Registration!Done
      BY <3>1 DEF Registration!Done, Registration!After, AfterRequest
    <3> QED
      BY <3>2 DEF Registration!Next
  <2>7. CASE RegisterPlayer \/ SendCsr \/ StartGame
    <3>1. /\ at \in {"register", "csr", "start"} /\ request = NoRequest
          /\ UNCHANGED <<player_id, signed_certificate, bits>>
      BY <2>7 DEF RegisterPlayer, SendCsr, StartGame, Await, Perform, httpVars, DeviceInv,
        Fits, RequestFits
    <3>2. CASE request' # NoRequest
      <4>1. StepAt[at'] = StepAt[at]
        BY <2>7, <3>1, <3>2 DEF RegisterPlayer, SendCsr, StartGame, Await, httpVars
      <4>2. Registration!Ask
        BY <3>1, <3>2, <4>1 DEF Registration!Ask, Registration!Asking, Registration!After
      <4> QED
        BY <4>2 DEF Registration!Next
    <3>3. CASE request' = NoRequest
      <4>1. \A cn : /\ ~Perform("/spelare", cn)
                    /\ ~Perform("/spelare/csr", cn)
                    /\ ~Perform("/start", cn)
        BY <3>3 DEF Perform, NoRequest
      <4>2. \/ at = "register" /\ at' = "csr"
            \/ at = "csr" /\ at' = "certificate"
            \/ at = "start" /\ at' = "mqtt"
        BY <2>7, <4>1 DEF RegisterPlayer, SendCsr, StartGame, Await
      <4>3. Registration!Skip
        BY <3>1, <3>3, <4>2 DEF Registration!Skip, Registration!Asking, Registration!After
      <4> QED
        BY <4>3 DEF Registration!Next
    <3> QED
      BY <3>2, <3>3
  <2>8. CASE HasCertificate
    <3>1. /\ at = "certificate" /\ at' = "start" /\ "CERT_SIGNED" \in bits
          /\ UNCHANGED <<bits, request, player_id, signed_certificate>>
      BY <2>8 DEF HasCertificate, Await, httpVars
    <3>2. Registration!MoveOn
      BY <3>1 DEF Registration!MoveOn
    <3> QED
      BY <3>2 DEF Registration!Next
  <2>9. CASE WifiIsUp \/ MqttAppStart
    <3>1. StepAt[at'] = StepAt[at] /\ UNCHANGED <<bits, httpVars>>
      BY <2>9 DEF WifiIsUp, MqttAppStart, Await
    <3> QED
      BY <2>1, <3>1 DEF httpVars
  <2>10. CASE Reboot
    BY <2>10 DEF Reboot, Registration!Next, Registration!Restart
  <2> QED
    BY <2>2, <2>3, <2>4, <2>5, <2>6, <2>7, <2>8, <2>9, <2>10 DEF DeviceNext, ClientNext, Panic
<1> QED
  BY <1>1, <1>2, DeviceInvariant, PTL DEF DeviceSpec, ImplementsClient, Registration!Spec
=============================================================================
