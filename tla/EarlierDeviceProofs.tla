------------------------ MODULE EarlierDeviceProofs ------------------------
(***************************************************************************)
(* Proofs about the earlier firmware, for any names, lines and lengths of  *)
(* its queues.  As in DeviceProofs the place of the client task, its       *)
(* request and the answer belong together; and the mutex of the MQTT       *)
(* client belongs to the place where the client task waits for itself.     *)
(***************************************************************************)
EXTENDS EarlierDevice, HttpBufferProofs

\* The client task has a request out exactly where it waits for one.
RequestFits ==
  /\ request = NoRequest <=> at \notin {"registering", "sending"}
  /\ at = "registering" => request.path = "/spelare"
  /\ at = "sending" => request.path = "/spelare/csr" /\ request.cn \in {player_id, "garbage"}

\* An answer is to the request at hand.
ReplyFits ==
  /\ reply.body = "id" => at = "registering"
  /\ reply.body = "certificate" => at = "sending" /\ reply.name = player_id

\* The certificate is for the name, and there is one where the broker is used.
CertFits ==
  /\ "CERT_SIGNED" \in bits =>
       /\ signed_certificate = player_id
       /\ at \notin {"wifi", "register", "registering", "csr"}
  /\ at \in {"mqtt", "take", "subscribe", "chat", "loop", "deleted"} => "CERT_SIGNED" \in bits
  /\ mqtt_client = "started" => "CERT_SIGNED" \in bits

\* The client task holds its mutex where it waits for it a second time, and
\* nowhere else; the chat task exists only past that place.
MutexFits ==
  /\ holder["mqtt_client"] = "client" => at = "subscribe"
  /\ at = "subscribe" => holder["mqtt_client"] # "free"
  /\ chat # "none" => at = "loop"

Fits == RequestFits /\ BufferInv /\ ReplyFits /\ CertFits /\ MutexFits

EarlierInv == EarlierTypeOK /\ Fits

-----------------------------------------------------------------------------
(* Types *)

\* The input of the player begins empty, and goes back to it.
LEMMA NothingTyped == <<>> \in Seq(Lines)
OBVIOUS

\* At the start everything fits.
LEMMA EarlierInvInit == EarlierInit => EarlierInv
<1> SUFFICES ASSUME EarlierInit
             PROVE  EarlierInv
  OBVIOUS
<1>1. WifiTypeOK /\ BufferInv
  BY TypeWifiInit, BufferInit DEF EarlierInit
<1>2. EarlierTypeOK
  <2>1. at \in ClientSteps /\ chat \in ChatSteps /\ holder \in [Mutexes -> Tasks \cup {"free"}]
    BY DEF EarlierInit, ClientSteps, ChatSteps
  <2>2. typed \in Seq(Lines) /\ events \in 0..MaxEvents
    BY NothingTyped, EarlierConstants DEF EarlierInit
  <2>3. mqtt_client \in {"NULL", "started"} /\ published \in PublishTopics
        /\ listening \subseteq Topics /\ serial \in {"none", "starting", "reading"}
    BY DEF EarlierInit, PublishTopics
  <2> QED
    BY <1>1, <2>1, <2>2, <2>3 DEF EarlierTypeOK, BufferInv
<1>3. RequestFits /\ ReplyFits /\ CertFits /\ MutexFits
  BY DEF EarlierInit, WifiInit, HttpInit, RequestFits, ReplyFits, CertFits, MutexFits,
    NoReply, Mutexes
<1> QED
  BY <1>1, <1>2, <1>3 DEF EarlierInv, Fits

\* A reset makes everything as it was at the start.
LEMMA ResetStep == Reboot => EarlierInv'
<1> SUFFICES ASSUME Reboot
             PROVE  EarlierInv'
  OBVIOUS
<1>1. WifiTypeOK'
  <2>1. (bits \subseteq Bits /\ reconnect_counter \in 0..MaxAttempt /\ station \in Stations)'
    BY SomeAttempts DEF Reboot, Stations
  <2>2. (dhcp \in BOOLEAN)'
    BY Zenon DEF Reboot
  <2> QED
    BY <2>1, <2>2 DEF WifiTypeOK
<1>2. BufferInv'
  BY EmptyBuffer, SomePieces DEF Reboot, BufferInv, HttpTypeOK, RepliesDoNotMix, Names, NoReply
<1>3. EarlierTypeOK'
  <2>1. (at \in ClientSteps /\ chat \in ChatSteps /\ holder \in [Mutexes -> Tasks \cup {"free"}])'
    BY DEF Reboot, ClientSteps, ChatSteps
  <2>2. (typed \in Seq(Lines) /\ events \in 0..MaxEvents)'
    BY NothingTyped, EarlierConstants DEF Reboot
  <2>3. (mqtt_client \in {"NULL", "started"} /\ published \in PublishTopics
        /\ listening \subseteq Topics /\ serial \in {"none", "starting", "reading"})'
    BY DEF Reboot, PublishTopics
  <2> QED
    BY <1>1, <1>2, <2>1, <2>2, <2>3 DEF EarlierTypeOK, BufferInv
<1>4. (RequestFits /\ ReplyFits /\ CertFits /\ MutexFits)'
  BY DEF Reboot, RequestFits, ReplyFits, CertFits, MutexFits, NoReply, Mutexes
<1> QED
  BY <1>2, <1>3, <1>4 DEF EarlierInv, Fits

-----------------------------------------------------------------------------
(* The events of the request *)

\* The client task and its mutexes wait while the answer comes.
otherVars == <<at, serial, chat, holder, inputVars, mqttVars>>

\* What comes of an answer, whatever the device makes of it.
LEMMA HttpStep == EarlierInv /\ HttpEvents => EarlierInv'
<1> SUFFICES ASSUME EarlierInv, HttpEvents
             PROVE  EarlierInv'
  OBVIOUS
<1>1. UNCHANGED otherVars
  BY DEF HttpEvents, otherVars
<1>2. MutexFits'
  BY <1>1 DEF EarlierInv, Fits, MutexFits, otherVars
<1>3. ASSUME WifiTypeOK', BufferInv'
      PROVE  EarlierTypeOK'
  BY <1>1, <1>3 DEF EarlierInv, EarlierTypeOK, BufferInv, otherVars, inputVars, mqttVars
<1>4. CASE OnData
  <2>1. BufferInv' /\ reply' = reply /\ request' = request
    BY <1>4, BufferTakes DEF EarlierInv, Fits
  <2>2. WifiTypeOK'
    BY <1>4, TypeKept DEF EarlierInv, EarlierTypeOK, OnData
  <2>3. (RequestFits /\ ReplyFits /\ CertFits)'
    BY <1>1, <1>4, <2>1 DEF OnData, EarlierInv, Fits, RequestFits, ReplyFits, CertFits,
      wifiVars, otherVars, mqttVars
  <2> QED
    BY <1>2, <1>3, <2>1, <2>2, <2>3 DEF EarlierInv, Fits
<1>5. CASE ServerReplies
  <2>1. /\ BufferInv'
        /\ reply'.body = "id" => request.path = "/spelare"
        /\ reply'.body = "certificate" =>
             request.path = "/spelare/csr" /\ request.cn # "garbage" /\ reply'.name = request.cn
    BY <1>5, BufferReplies DEF EarlierInv, Fits
  <2>2. WifiTypeOK'
    BY <1>5, TypeKept DEF EarlierInv, EarlierTypeOK, ServerReplies
  <2>3. RequestFits' /\ CertFits'
    BY <1>1, <1>5 DEF ServerReplies, EarlierInv, Fits, RequestFits, CertFits, wifiVars,
      otherVars, mqttVars
  <2>4. ReplyFits'
    BY <1>1, <1>5, <2>1 DEF ServerReplies, EarlierInv, Fits, RequestFits, ReplyFits, otherVars
  <2> QED
    BY <1>2, <1>3, <2>1, <2>2, <2>3, <2>4 DEF EarlierInv, Fits
<1>6. CASE OnFinish
  <2>1. /\ BufferInv' /\ WifiTypeOK'
        /\ reply' = Finished /\ request' = request /\ request # NoRequest
    BY <1>6, BufferFinishes DEF EarlierInv, EarlierTypeOK, Fits
  <2>2. RequestFits'
    BY <1>1, <1>6, <2>1 DEF OnFinish, EarlierInv, Fits, RequestFits, ReplyFits, otherVars
  <2>3. ReplyFits'
    BY <2>1 DEF ReplyFits, Finished
  <2>4. CertFits'
    BY <1>1, <1>6 DEF OnFinish, EarlierInv, Fits, CertFits, ReplyFits, otherVars, mqttVars
  <2> QED
    BY <1>2, <1>3, <2>1, <2>2, <2>3, <2>4 DEF EarlierInv, Fits
<1> QED
  BY <1>4, <1>5, <1>6 DEF HttpEvents

\* The request is over.
LEMMA EndStep == EarlierInv /\ RequestEnds => EarlierInv'
<1> SUFFICES ASSUME EarlierInv, RequestEnds
             PROVE  EarlierInv'
  OBVIOUS
<1>1. /\ reply' = NoReply /\ request' = NoRequest
      /\ player_id' = player_id /\ signed_certificate' = signed_certificate
      /\ UNCHANGED wifiVars
      /\ UNCHANGED <<serial, chat, holder, inputVars, mqttVars>>
  BY DEF RequestEnds, OnDisconnected
<1>2. \/ at = "registering" /\ at' = "csr"
      \/ at = "sending" /\ at' = "certificate"
  BY DEF RequestEnds, OnDisconnected, EarlierInv, Fits, RequestFits
<1>3. BufferInv' /\ WifiTypeOK'
  BY <1>1, BufferEnds, TypeKept DEF RequestEnds, EarlierInv, EarlierTypeOK, Fits
<1>4. EarlierTypeOK'
  BY <1>1, <1>2, <1>3 DEF EarlierInv, EarlierTypeOK, BufferInv, ClientSteps, inputVars, mqttVars
<1>5. (RequestFits /\ ReplyFits)'
  BY <1>1, <1>2 DEF RequestFits, ReplyFits, NoReply
<1>6. (CertFits /\ MutexFits)'
  BY <1>1, <1>2 DEF EarlierInv, Fits, CertFits, MutexFits, wifiVars, mqttVars
<1> QED
  BY <1>3, <1>4, <1>5, <1>6 DEF EarlierInv, Fits

-----------------------------------------------------------------------------
(* The client task *)

\* A request is made.
LEMMA AskStep ==
  ASSUME EarlierInv, NEW path, NEW cn \in {NoName, player_id, "garbage"},
         request' = [path |-> path, cn |-> cn],
         UNCHANGED <<reply, arrived, output_buffer, player_id, signed_certificate,
                     bits, serial, holder, mqttVars, othersKeep>>,
         \/ at = "register" /\ at' = "registering" /\ path = "/spelare"
         \/ /\ at = "csr" /\ at' = "sending" /\ path = "/spelare/csr"
            /\ cn \in {player_id, "garbage"}
  PROVE  EarlierInv'
<1>1. request = NoRequest /\ reply = NoReply
  BY DEF EarlierInv, Fits, RequestFits, BufferInv
<1>2. request' \in Request /\ request' # NoRequest
  <2>1. cn \in Names \cup {"garbage"}
    BY DEF EarlierInv, EarlierTypeOK, HttpTypeOK, Names
  <2> QED
    BY <2>1 DEF Request, NoRequest, Paths
<1>3. UNCHANGED wifiVars /\ UNCHANGED <<chat, typed, events>>
  BY DEF othersKeep, linkKeeps, wifiVars, inputVars
<1>4. BufferInv' /\ WifiTypeOK'
  BY <1>1, <1>2, <1>3, BufferAsks, TypeKept DEF EarlierInv, EarlierTypeOK, Fits
<1>5. EarlierTypeOK'
  BY <1>3, <1>4 DEF EarlierInv, EarlierTypeOK, BufferInv, ClientSteps, mqttVars
<1>6. (RequestFits /\ ReplyFits)'
  BY <1>1, <1>2 DEF RequestFits, ReplyFits, NoReply
<1>7. (CertFits /\ MutexFits)'
  BY <1>3 DEF EarlierInv, Fits, CertFits, MutexFits, mqttVars
<1> QED
  BY <1>4, <1>5, <1>6, <1>7 DEF EarlierInv, Fits

\* The task goes on without one.
LEMMA GoOnStep ==
  ASSUME EarlierInv,
         UNCHANGED <<wifiVars, httpVars, inputVars, published, listening>>,
         serial' \in {"none", "starting", "reading"},
         \/ /\ UNCHANGED <<chat, holder, mqtt_client>>
            /\ \/ at = "wifi" /\ at' = "register"
               \/ at = "register" /\ at' = "csr"
               \/ at = "csr" /\ at' = "certificate"
               \/ at = "certificate" /\ at' = "mqtt" /\ "CERT_SIGNED" \in bits
               \/ at = "chat" /\ at' = "deleted"
         \/ /\ at = "mqtt" /\ at' \in {"chat", "take"} /\ UNCHANGED <<chat, holder>>
            /\ mqtt_client' \in {"NULL", "started"}
         \/ /\ at = "take" /\ at' = "subscribe" /\ UNCHANGED <<chat, mqtt_client>>
            /\ holder' = [holder EXCEPT !["mqtt_client"] = "client"]
         \/ at = "chat" /\ at' = "loop" /\ chat' = "serial" /\ UNCHANGED <<holder, mqtt_client>>
  PROVE  EarlierInv'
<1>1. BufferInv' /\ WifiTypeOK' /\ HttpTypeOK'
  BY BufferKept, TypeKept DEF EarlierInv, EarlierTypeOK, Fits
<1>2. EarlierTypeOK'
  <2>1. holder' \in [Mutexes -> Tasks \cup {"free"}]
    BY DEF EarlierInv, EarlierTypeOK, Mutexes, Tasks
  <2>2. at' \in ClientSteps /\ chat' \in ChatSteps /\ mqtt_client' \in {"NULL", "started"}
    BY DEF EarlierInv, EarlierTypeOK, ClientSteps, ChatSteps
  <2> QED
    BY <1>1, <2>1, <2>2 DEF EarlierInv, EarlierTypeOK, inputVars
<1>3. RequestFits' /\ ReplyFits'
  BY DEF EarlierInv, Fits, RequestFits, ReplyFits, httpVars
<1>4. CertFits'
  BY DEF EarlierInv, Fits, CertFits, httpVars, wifiVars
<1>5. MutexFits'
  BY DEF EarlierInv, EarlierTypeOK, Fits, MutexFits, Mutexes
<1> QED
  BY <1>1, <1>2, <1>3, <1>4, <1>5 DEF EarlierInv, Fits

\* Every step of the client task keeps the invariant.
LEMMA ClientStep == EarlierInv /\ ClientNext => EarlierInv'
<1> SUFFICES ASSUME EarlierInv, ClientNext
             PROVE  EarlierInv'
  OBVIOUS
<1> USE DEF othersKeep, linkKeeps, wifiVars, mqttVars
<1>1. serial \in {"none", "starting", "reading"}
  BY DEF EarlierInv, EarlierTypeOK
<1>2. CASE WifiIsUp
  BY <1>2, GoOnStep DEF WifiIsUp, Await
<1>3. CASE RegisterPlayer
  BY <1>1, <1>3, AskStep, GoOnStep DEF RegisterPlayer, Perform, httpVars
<1>4. CASE SendCsr
  <2>1. PICK cn \in {player_id, "garbage"} : Perform("/spelare/csr", cn, "sending", "certificate")
    BY <1>4 DEF SendCsr, CsrSubjects
  <2>2. at = "csr"
    BY <1>4 DEF SendCsr
  <2>3. CASE request' = [path |-> "/spelare/csr", cn |-> cn] /\ at' = "sending"
    BY <2>1, <2>2, <2>3, AskStep DEF Perform
  <2>4. CASE UNCHANGED request /\ at' = "certificate"
    BY <1>1, <2>1, <2>2, <2>4, GoOnStep DEF Perform, httpVars
  <2> QED
    BY <2>1, <2>3, <2>4 DEF Perform
<1>5. CASE RequestEnds
  BY <1>5, EndStep
<1>6. CASE HasCertificate
  BY <1>1, <1>6, GoOnStep DEF HasCertificate, Await
<1>7. CASE MqttAppStart
  BY <1>1, <1>7, GoOnStep DEF MqttAppStart, Await
<1>8. CASE TakeMqttClient
  <2>1. at = "take"
    BY <1>8 DEF TakeMqttClient, Take, EarlierInv, Fits, MutexFits
  <2> QED
    BY <1>1, <1>8, <2>1, GoOnStep DEF TakeMqttClient, Take
<1>9. CASE CreateChat
  BY <1>1, <1>9, GoOnStep DEF CreateChat
<1> QED
  BY <1>2, <1>3, <1>4, <1>5, <1>6, <1>7, <1>8, <1>9 DEF ClientNext

-----------------------------------------------------------------------------
(* The other tasks and handlers *)

\* Steps that touch neither the request nor the place of the client task.
LEMMA AsideStep ==
  ASSUME EarlierInv, EarlierTypeOK', UNCHANGED <<httpVars, at, mqtt_client>>,
         "CERT_SIGNED" \in bits' <=> "CERT_SIGNED" \in bits,
         holder'["mqtt_client"] = holder["mqtt_client"],
         chat' # "none" => chat # "none"
  PROVE  EarlierInv'
<1>1. BufferInv'
  BY BufferKept DEF EarlierInv, Fits
<1>2. RequestFits' /\ ReplyFits'
  BY DEF EarlierInv, Fits, RequestFits, ReplyFits, httpVars
<1>3. CertFits' /\ MutexFits'
  BY DEF EarlierInv, Fits, CertFits, MutexFits, httpVars
<1> QED
  BY <1>1, <1>2, <1>3 DEF EarlierInv, Fits

\* The link's events do not touch the certificate's bit.
LEMMA LinkStep == EarlierInv /\ LinkEvents => EarlierInv'
<1> SUFFICES ASSUME EarlierInv, LinkEvents
             PROVE  EarlierInv'
  OBVIOUS
<1>1. WifiTypeOK' /\ HttpTypeOK'
  BY TypeLink, TypeKept DEF LinkEvents, EarlierInv, EarlierTypeOK
<1>2. EarlierTypeOK'
  BY <1>1 DEF LinkEvents, EarlierInv, EarlierTypeOK, inputVars, mqttVars
<1>3. "CERT_SIGNED" \in bits' <=> "CERT_SIGNED" \in bits
  BY DEF LinkEvents, WifiNext, StaStart, StaConnected, GotIp, StaDisconnected, Online
<1> QED
  BY <1>2, <1>3, AsideStep DEF LinkEvents, mqttVars

\* The broker's events subscribe and publish.
LEMMA MqttStep ==
  EarlierInv /\ (MqttConnected \/ MqttSubscribed \/ MqttDisconnected) => EarlierInv'
<1> SUFFICES ASSUME EarlierInv, MqttConnected \/ MqttSubscribed \/ MqttDisconnected
             PROVE  EarlierInv'
  OBVIOUS
<1>1. UNCHANGED mqttKeeps
  BY DEF MqttConnected, MqttSubscribed, MqttDisconnected
<1>2. WifiTypeOK' /\ HttpTypeOK'
  BY <1>1, TypeKept DEF EarlierInv, EarlierTypeOK, mqttKeeps
<1>3. listening' \subseteq Topics /\ published' \in PublishTopics
  <2>1. player_id \in Names
    BY DEF EarlierInv, EarlierTypeOK, HttpTypeOK
  <2>2. CASE MqttConnected
    BY <2>1, <2>2 DEF MqttConnected, Topics, EarlierInv, EarlierTypeOK
  <2>3. CASE MqttSubscribed \/ MqttDisconnected
    BY <2>3 DEF MqttSubscribed, MqttDisconnected, PublishTopics, EarlierInv, EarlierTypeOK
  <2> QED
    BY <2>2, <2>3
<1>4. EarlierTypeOK'
  BY <1>1, <1>2, <1>3 DEF mqttKeeps, EarlierInv, EarlierTypeOK, inputVars
<1> QED
  BY <1>1, <1>4, AsideStep DEF mqttKeeps, wifiVars

\* The serial task reads lines and publishes.
LEMMA SerialStep == EarlierInv /\ SerialNext => EarlierInv'
<1> SUFFICES ASSUME EarlierInv, SerialNext
             PROVE  EarlierInv'
  OBVIOUS
<1>1. UNCHANGED serialKeeps
  BY DEF SerialNext, InstallDriver, Type, ReadCommand, InputOverflows
<1>2. WifiTypeOK' /\ HttpTypeOK'
  BY <1>1, TypeKept DEF EarlierInv, EarlierTypeOK, serialKeeps
<1>3. typed \in Seq(Lines) /\ events \in 0..MaxEvents /\ published \in PublishTopics
      /\ serial \in {"none", "starting", "reading"}
  BY DEF EarlierInv, EarlierTypeOK
<1>4. typed' \in Seq(Lines) /\ events' \in 0..MaxEvents /\ published' \in PublishTopics
      /\ serial' \in {"none", "starting", "reading"}
  <2>1. CASE \E c \in Lines : Type(c)
    <3>1. PICK c \in Lines : Type(c)
      BY <2>1
    <3>2. typed' \in Seq(Lines)
      BY <1>3, <3>1, AppendProperties DEF Type
    <3>3. events' \in 0..MaxEvents
      BY <1>3, <3>1, EarlierConstants DEF Type
    <3> QED
      BY <1>3, <3>1, <3>2, <3>3 DEF Type
  <2>2. CASE ReadCommand
    <3>1. events' \in 0..MaxEvents
      BY <1>3, <2>2, EarlierConstants DEF ReadCommand
    <3>2. published' \in PublishTopics
      BY <1>3, <2>2 DEF ReadCommand, PublishTopics
    <3> QED
      BY <1>3, <2>2, <3>1, <3>2, NothingTyped DEF ReadCommand
  <2>3. CASE InputOverflows
    BY <1>3, <2>3, NothingTyped, EarlierConstants DEF InputOverflows
  <2>4. CASE InstallDriver
    BY <1>3, <2>4 DEF InstallDriver
  <2> QED
    BY <2>1, <2>2, <2>3, <2>4 DEF SerialNext
<1>5. EarlierTypeOK'
  BY <1>1, <1>2, <1>4 DEF serialKeeps, EarlierInv, EarlierTypeOK
<1> QED
  BY <1>1, <1>5, AsideStep DEF serialKeeps, wifiVars

\* The chat task takes and gives mutexes, none of them that of the MQTT client.
LEMMA ChatStep == EarlierInv /\ ChatNext => EarlierInv'
<1> SUFFICES ASSUME EarlierInv, ChatNext
             PROVE  EarlierInv'
  OBVIOUS
<1>1. UNCHANGED chatKeeps
  BY DEF ChatNext, ChatTakesSerial, ChatReceives, ChatTakesEvents, ChatPolls
<1>2. WifiTypeOK' /\ HttpTypeOK'
  BY <1>1, TypeKept DEF EarlierInv, EarlierTypeOK, chatKeeps
<1>3. events \in 0..MaxEvents /\ holder \in [Mutexes -> Tasks \cup {"free"}]
  BY DEF EarlierInv, EarlierTypeOK
<1>4. /\ events' \in 0..MaxEvents
      /\ holder' \in [Mutexes -> Tasks \cup {"free"}]
      /\ holder'["mqtt_client"] = holder["mqtt_client"]
      /\ chat' \in ChatSteps /\ chat # "none"
  <2>1. CASE ChatTakesSerial
    BY <1>3, <2>1 DEF ChatTakesSerial, Take, Mutexes, Tasks, ChatSteps
  <2>2. CASE ChatReceives
    <3>1. events' \in 0..MaxEvents
      BY <1>3, <2>2, EarlierConstants DEF ChatReceives
    <3> QED
      BY <1>3, <2>2, <3>1 DEF ChatReceives, ChatSteps
  <2>3. CASE ChatTakesEvents
    BY <1>3, <2>3 DEF ChatTakesEvents, Take, Mutexes, Tasks, ChatSteps
  <2>4. CASE ChatPolls
    BY <1>3, <2>4 DEF ChatPolls, Mutexes, ChatSteps
  <2> QED
    BY <2>1, <2>2, <2>3, <2>4 DEF ChatNext
<1>5. EarlierTypeOK'
  BY <1>1, <1>2, <1>4 DEF chatKeeps, EarlierInv, EarlierTypeOK, mqttVars
<1> QED
  BY <1>1, <1>4, <1>5, AsideStep DEF chatKeeps, wifiVars, mqttVars

-----------------------------------------------------------------------------
(* The theorems *)

\* Every step of the earlier firmware keeps the invariant.
LEMMA EarlierInvStep == EarlierInv /\ [EarlierNext]_earlierVars => EarlierInv'
<1> SUFFICES ASSUME EarlierInv, [EarlierNext]_earlierVars
             PROVE  EarlierInv'
  OBVIOUS
<1>1. CASE UNCHANGED earlierVars
  <2>1. WifiTypeOK' /\ HttpTypeOK'
    BY <1>1, TypeKept DEF earlierVars, EarlierInv, EarlierTypeOK
  <2>2. EarlierTypeOK'
    BY <1>1, <2>1 DEF earlierVars, EarlierInv, EarlierTypeOK, inputVars, mqttVars
  <2> QED
    BY <1>1, <2>2, AsideStep DEF earlierVars, wifiVars, mqttVars
<1>2. CASE Panic \/ Reboot
  BY <1>2, ResetStep DEF Panic
<1> QED
  BY <1>1, <1>2, HttpStep, LinkStep, ClientStep, MqttStep, SerialStep, ChatStep DEF EarlierNext

\* It is an invariant of the earlier firmware.
LEMMA EarlierInvariant == EarlierSpec => []EarlierInv
BY EarlierInvInit, EarlierInvStep, PTL DEF EarlierSpec

\* Every variable of the earlier firmware keeps its type, for every length of
\* the driver's queue and every number of pieces and attempts.
THEOREM EarlierTypeCorrect == EarlierSpec => []EarlierTypeOK
<1>1. EarlierInv => EarlierTypeOK
  BY DEF EarlierInv
<1> QED
  BY <1>1, EarlierInvariant, PTL

\* The mutex the chat task gives without having taken it is never held by the
\* client task, for which FreeRTOS would stop the device.
THEOREM NobodysMutexIsGiven == EarlierSpec => []NobodyElsesMutex
<1>1. EarlierInv => NobodyElsesMutex
  BY DEF EarlierInv, Fits, MutexFits, NobodyElsesMutex
<1> QED
  BY <1>1, EarlierInvariant, PTL

\* Whatever of registering and signing failed, the device that connects to the
\* broker does so as the player its certificate is for.
THEOREM ConnectionsCertified == EarlierSpec => []ConnectsAsCertified
<1>1. EarlierInv => ConnectsAsCertified
  BY DEF EarlierInv, Fits, CertFits, ConnectsAsCertified
<1> QED
  BY <1>1, EarlierInvariant, PTL

-----------------------------------------------------------------------------
(* The tasks that wait for themselves *)

\* Who holds what: the client task the mutex of the MQTT client where it asks for
\* it a second time, which is where it is for as long as there is a client; the
\* chat task that of the serial queue, from its first turn on.
OwnMutexes ==
  /\ mqtt_client = "started" <=> at \in {"take", "subscribe"}
  /\ holder["mqtt_client"] = IF at = "subscribe" THEN "client" ELSE "free"
  /\ holder["serial"] \in {"free", "chat"}
  /\ chat \in {"receive", "forgotten", "mqtt_evt", "poll"} => holder["serial"] = "chat"

LEMMA OwnStep == EarlierInv /\ OwnMutexes /\ [EarlierNext]_earlierVars => OwnMutexes'
<1> SUFFICES ASSUME EarlierInv, OwnMutexes, [EarlierNext]_earlierVars
             PROVE  OwnMutexes'
  OBVIOUS
<1>1. holder \in [Mutexes -> Tasks \cup {"free"}]
  BY DEF EarlierInv, EarlierTypeOK
<1>2. CASE UNCHANGED <<at, chat, holder, mqtt_client>>
  BY <1>2 DEF OwnMutexes
<1>3. CASE Reboot
  BY <1>3 DEF Reboot, OwnMutexes, Mutexes
<1>4. CASE ClientNext
  <2>1. CASE WifiIsUp \/ RegisterPlayer \/ SendCsr \/ HasCertificate
    <3>1. /\ at \notin {"take", "subscribe"} /\ at' \notin {"take", "subscribe"}
          /\ UNCHANGED <<chat, holder, mqtt_client>>
      BY <2>1 DEF WifiIsUp, RegisterPlayer, SendCsr, Perform, HasCertificate, Await,
                  othersKeep, mqttVars
    <3> QED
      BY <3>1 DEF OwnMutexes
  <2>2. CASE RequestEnds
    <3>1. at \in {"registering", "sending"}
      BY <2>2 DEF RequestEnds, OnDisconnected, EarlierInv, Fits, RequestFits
    <3>2. at' \in {"csr", "certificate"} /\ UNCHANGED <<chat, holder, mqtt_client>>
      BY <2>2 DEF RequestEnds, mqttVars
    <3> QED
      BY <3>1, <3>2 DEF OwnMutexes
  <2>3. CASE MqttAppStart
    <3>1. at = "mqtt" /\ UNCHANGED <<chat, holder>>
      BY <2>3 DEF MqttAppStart, Await, othersKeep
    <3>2. \/ mqtt_client' = "NULL" /\ at' = "chat"
          \/ mqtt_client' = "started" /\ at' = "take"
      BY <2>3 DEF MqttAppStart
    <3> QED
      BY <3>1, <3>2 DEF OwnMutexes
  <2>4. CASE TakeMqttClient
    <3>1. at = "take" /\ at' = "subscribe" /\ UNCHANGED <<chat, mqtt_client>>
      BY <2>4 DEF TakeMqttClient, Take, OwnMutexes, othersKeep, mqttVars
    <3>2. holder'["mqtt_client"] = "client" /\ holder'["serial"] = holder["serial"]
      BY <1>1, <2>4 DEF TakeMqttClient, Take, Mutexes
    <3> QED
      BY <3>1, <3>2 DEF OwnMutexes
  <2>5. CASE CreateChat
    BY <2>5 DEF CreateChat, OwnMutexes, mqttVars
  <2> QED
    BY <1>4, <2>1, <2>2, <2>3, <2>4, <2>5 DEF ClientNext
<1>5. CASE ChatNext
  <2>1. UNCHANGED <<at, mqtt_client>>
    BY <1>5 DEF ChatNext, ChatTakesSerial, ChatReceives, ChatTakesEvents, ChatPolls,
                chatKeeps, mqttVars
  <2>2. holder'["mqtt_client"] = holder["mqtt_client"]
    BY <1>1, <1>5 DEF ChatNext, ChatTakesSerial, ChatReceives, ChatTakesEvents, ChatPolls,
                      Take, Mutexes
  <2>3. CASE ChatTakesSerial
    <3>1. holder'["serial"] = "chat"
      BY <1>1, <2>3 DEF ChatTakesSerial, Take, Mutexes
    <3> QED
      BY <2>1, <2>2, <3>1 DEF OwnMutexes
  <2>4. CASE ChatReceives \/ ChatTakesEvents \/ ChatPolls
    <3>1. holder'["serial"] = holder["serial"] /\ holder["serial"] = "chat"
      BY <1>1, <2>4 DEF ChatReceives, ChatTakesEvents, ChatPolls, Take, Mutexes, OwnMutexes
    <3> QED
      BY <2>1, <2>2, <3>1 DEF OwnMutexes
  <2> QED
    BY <1>5, <2>3, <2>4 DEF ChatNext
<1>6. CASE SerialNext \/ HttpEvents \/ LinkEvents \/ MqttConnected \/ MqttSubscribed
           \/ MqttDisconnected
  BY <1>2, <1>6 DEF SerialNext, InstallDriver, Type, ReadCommand, InputOverflows,
    serialKeeps, HttpEvents, LinkEvents, MqttConnected, MqttSubscribed, MqttDisconnected,
    mqttKeeps, mqttVars
<1>7. CASE UNCHANGED earlierVars
  BY <1>2, <1>7 DEF earlierVars, mqttVars
<1> QED
  BY <1>3, <1>4, <1>5, <1>6, <1>7 DEF EarlierNext, Panic

LEMMA OwnInvariant == EarlierSpec => []OwnMutexes
<1>1. EarlierInit => OwnMutexes
  BY DEF EarlierInit, OwnMutexes, Mutexes
<1> QED
  BY <1>1, OwnStep, EarlierInvariant, PTL DEF EarlierSpec

\* A device that has an MQTT client never chats.
THEOREM NoChatAtTheBroker == EarlierSpec => [](mqtt_client = "started" => chat = "none")
<1>1. EarlierInv /\ OwnMutexes => (mqtt_client = "started" => chat = "none")
  BY DEF EarlierInv, Fits, MutexFits, OwnMutexes
<1> QED
  BY <1>1, EarlierInvariant, OwnInvariant, PTL

\* A task that asks for the mutex it holds goes nowhere until the device resets.
Hang ==
  /\ at = "subscribe" => at' = "subscribe" \/ Reboot
  /\ chat = "serial" /\ holder["serial"] = "chat" => chat' = "serial" \/ Reboot
  /\ holder["serial"] = "chat" => holder'["serial"] = "chat" \/ Reboot

\* The client task that has an MQTT client hangs in mqtt_subscribe, and the chat
\* task after its first turn, whatever is typed and however the link is.
THEOREM TasksHang == EarlierSpec => [][Hang]_earlierVars
<1>1. EarlierInv /\ OwnMutexes /\ [EarlierNext]_earlierVars => [Hang]_earlierVars
  <2> SUFFICES ASSUME EarlierInv, OwnMutexes, EarlierNext, ~Reboot
               PROVE  Hang
    BY DEF Hang
  <2>1. holder \in [Mutexes -> Tasks \cup {"free"}]
    BY DEF EarlierInv, EarlierTypeOK
  <2>2. CASE ClientNext
    <3>1. at # "subscribe"
      <4>1. RequestEnds => at \in {"registering", "sending"}
        BY DEF RequestEnds, OnDisconnected, EarlierInv, Fits, RequestFits
      <4> QED
        BY <2>2, <4>1 DEF ClientNext, WifiIsUp, RegisterPlayer, SendCsr, HasCertificate,
          MqttAppStart, Await, TakeMqttClient, Take, CreateChat, OwnMutexes
    <3>2. chat' = chat \/ (at = "chat" /\ chat' = "serial")
      BY <2>2 DEF ClientNext, WifiIsUp, RegisterPlayer, SendCsr, Perform, RequestEnds,
        HasCertificate, MqttAppStart, TakeMqttClient, CreateChat, othersKeep
    <3>3. holder'["serial"] = holder["serial"]
      BY <2>1, <2>2 DEF ClientNext, WifiIsUp, RegisterPlayer, SendCsr, Perform, RequestEnds,
        HasCertificate, MqttAppStart, TakeMqttClient, Take, CreateChat, Mutexes
    <3> QED
      BY <3>1, <3>2, <3>3 DEF Hang
  <2>3. CASE ChatNext
    <3>1. at' = at
      BY <2>3 DEF ChatNext, ChatTakesSerial, ChatReceives, ChatTakesEvents, ChatPolls, chatKeeps
    <3>2. chat = "serial" => holder["serial"] = "free"
      BY <2>3 DEF ChatNext, ChatTakesSerial, ChatReceives, ChatTakesEvents, ChatPolls, Take
    <3>3. holder["serial"] = "chat" => holder'["serial"] = "chat"
      BY <2>1, <2>3 DEF ChatNext, ChatTakesSerial, ChatReceives, ChatTakesEvents, ChatPolls,
        Take, Mutexes
    <3> QED
      BY <3>1, <3>2, <3>3 DEF Hang
  <2>4. CASE SerialNext \/ HttpEvents \/ LinkEvents \/ MqttConnected \/ MqttSubscribed
             \/ MqttDisconnected
    <3>1. UNCHANGED <<at, chat, holder>>
      BY <2>4 DEF SerialNext, InstallDriver, Type, ReadCommand, InputOverflows,
        serialKeeps, HttpEvents, LinkEvents, MqttConnected, MqttSubscribed, MqttDisconnected,
        mqttKeeps
    <3> QED
      BY <3>1 DEF Hang
  <2> QED
    BY <2>2, <2>3, <2>4 DEF EarlierNext, Panic
<1> QED
  BY <1>1, EarlierInvariant, OwnInvariant, PTL DEF EarlierSpec

-----------------------------------------------------------------------------
(* The refinement of Client *)

\* An answer that finishes names the player who registers, certifies the name
\* that was sent, or changes nothing.
LEMMA FinishImplements ==
  ASSUME EarlierInv, OnFinish, UNCHANGED at
  PROVE  [Registration!Next]_(Registration!clientState)
<1> USE DEF Registration!clientState, StepAt
<1>1. request # NoRequest /\ reply \in Reply
  BY BufferFinishes DEF EarlierInv, EarlierTypeOK, Fits
<1>2. UNCHANGED request
  BY DEF OnFinish
<1>3. CASE reply.body = "certificate" /\ Whole
  <2>1. at = "sending" /\ reply.name = player_id
    BY <1>3 DEF EarlierInv, Fits, ReplyFits
  <2>2. /\ signed_certificate' = player_id /\ player_id' = player_id
        /\ bits' = bits \cup {"CERT_SIGNED"}
    BY <1>3, <2>1 DEF OnFinish
  <2>3. Registration!Certified
    BY <1>1, <1>2, <2>1, <2>2 DEF Registration!Certified
  <2> QED
    BY <2>3 DEF Registration!Next
<1>4. CASE reply.body = "id" /\ Whole
  <2>1. at = "registering" /\ reply.name \in Names
    BY <1>1, <1>4 DEF EarlierInv, Fits, ReplyFits, Reply
  <2>2. player_id' = reply.name /\ UNCHANGED <<signed_certificate, bits>>
    BY <1>4 DEF OnFinish
  <2>3. Registration!Named(reply.name)
    BY <1>1, <1>2, <2>1, <2>2 DEF Registration!Named
  <2> QED
    BY <2>1, <2>3 DEF Registration!Next
<1>5. CASE ~Whole \/ reply.body = "text"
  <2>1. UNCHANGED <<player_id, signed_certificate, bits>>
    BY <1>5 DEF OnFinish
  <2> QED
    BY <1>2, <2>1
<1> QED
  BY <1>3, <1>4, <1>5 DEF OnFinish, Bodies

\* Each step of the client task is one of Client's, or is not seen there.
LEMMA ClientTaskImplements ==
  ASSUME EarlierInv, ClientNext
  PROVE  [Registration!Next]_(Registration!clientState)
<1> USE DEF Registration!clientState, StepAt
<1>1. CASE RegisterPlayer \/ SendCsr
  <2>1. /\ at \in {"register", "csr"} /\ request = NoRequest
        /\ UNCHANGED <<player_id, signed_certificate, bits>>
    BY <1>1 DEF RegisterPlayer, SendCsr, Perform, EarlierInv, Fits, RequestFits
  <2>2. \/ /\ request' # NoRequest
           /\ \/ at = "register" /\ at' = "registering"
              \/ at = "csr" /\ at' = "sending"
        \/ /\ request' = request
           /\ \/ at = "register" /\ at' = "csr"
              \/ at = "csr" /\ at' = "certificate"
    BY <1>1 DEF RegisterPlayer, SendCsr, Perform, NoRequest
  <2>3. CASE request' # NoRequest
    <3>1. Registration!Ask
      BY <2>1, <2>2, <2>3 DEF Registration!Ask, Registration!Asking, Registration!After
    <3> QED
      BY <3>1 DEF Registration!Next
  <2>4. CASE request' = NoRequest
    <3>1. Registration!Skip
      BY <2>1, <2>2, <2>4 DEF Registration!Skip, Registration!Asking, Registration!After
    <3> QED
      BY <3>1 DEF Registration!Next
  <2> QED
    BY <2>3, <2>4
<1>2. CASE RequestEnds
  <2>1. /\ request # NoRequest /\ request' = NoRequest
        /\ UNCHANGED <<player_id, signed_certificate, bits>>
        /\ \/ at = "registering" /\ at' = "csr"
           \/ at = "sending" /\ at' = "certificate"
    BY <1>2 DEF RequestEnds, OnDisconnected, EarlierInv, Fits, RequestFits, wifiVars
  <2>2. Registration!Done
    BY <2>1 DEF Registration!Done, Registration!After
  <2> QED
    BY <2>2 DEF Registration!Next
<1>3. CASE HasCertificate
  <2>1. /\ at = "certificate" /\ at' = "mqtt" /\ "CERT_SIGNED" \in bits
        /\ UNCHANGED <<bits, request, player_id, signed_certificate>>
    BY <1>3 DEF HasCertificate, Await, httpVars
  <2>2. Registration!MoveOn
    BY <2>1 DEF Registration!MoveOn
  <2> QED
    BY <2>2 DEF Registration!Next
<1>4. CASE MqttAppStart
  <2>1. /\ at = "mqtt" /\ at' \in {"chat", "take"} /\ request = NoRequest
        /\ UNCHANGED <<bits, request, player_id, signed_certificate>>
    BY <1>4 DEF MqttAppStart, Await, httpVars, EarlierInv, Fits, RequestFits
  <2>2. Registration!Skip
    BY <2>1 DEF Registration!Skip, Registration!Asking, Registration!After
  <2> QED
    BY <2>2 DEF Registration!Next
<1>5. CASE WifiIsUp \/ TakeMqttClient \/ CreateChat
  <2>1. StepAt[at'] = StepAt[at] /\ UNCHANGED <<bits, httpVars>>
    BY <1>5 DEF WifiIsUp, Await, TakeMqttClient, CreateChat
  <2> QED
    BY <2>1 DEF httpVars
<1> QED
  BY <1>1, <1>2, <1>3, <1>4, <1>5 DEF ClientNext

\* The other tasks and events leave alone what Client speaks of.
LEMMA AsideImplements ==
  ASSUME LinkEvents \/ SerialNext \/ ChatNext
           \/ MqttConnected \/ MqttSubscribed \/ MqttDisconnected
  PROVE  UNCHANGED Registration!clientState
<1>1. UNCHANGED <<httpVars, at>> /\ ("CERT_SIGNED" \in bits' <=> "CERT_SIGNED" \in bits)
  <2>1. CASE LinkEvents
    BY <2>1 DEF LinkEvents, WifiNext, StaStart, StaConnected, GotIp, StaDisconnected, Online
  <2>2. CASE SerialNext
    BY <2>2 DEF SerialNext, InstallDriver, Type, ReadCommand, InputOverflows, serialKeeps,
      wifiVars
  <2>3. CASE ChatNext
    BY <2>3 DEF ChatNext, ChatTakesSerial, ChatReceives, ChatTakesEvents, ChatPolls,
      chatKeeps, wifiVars
  <2>4. CASE MqttConnected \/ MqttSubscribed \/ MqttDisconnected
    BY <2>4 DEF MqttConnected, MqttSubscribed, MqttDisconnected, mqttKeeps, wifiVars
  <2> QED
    BY <2>1, <2>2, <2>3, <2>4
<1> QED
  BY <1>1 DEF Registration!clientState, httpVars

\* The earlier firmware is a client as System has it: registered and certified
\* once, for one name, and at the broker only with a certificate.
THEOREM EarlierClientImplemented == EarlierSpec => ImplementsClient
<1>1. EarlierInit => Registration!Init
  BY DEF EarlierInit, WifiInit, HttpInit, Registration!Init, StepAt
<1>2. EarlierInv /\ [EarlierNext]_earlierVars
        => [Registration!Next]_(Registration!clientState)
  <2> SUFFICES ASSUME EarlierInv, [EarlierNext]_earlierVars
               PROVE  [Registration!Next]_(Registration!clientState)
    OBVIOUS
  <2>1. CASE HttpEvents
    <3>1. UNCHANGED at
      BY <2>1 DEF HttpEvents
    <3>2. CASE ServerReplies \/ OnData
      BY <3>1, <3>2 DEF ServerReplies, OnData, wifiVars, Registration!clientState
    <3> QED
      BY <2>1, <3>1, <3>2, FinishImplements DEF HttpEvents
  <2>2. CASE Reboot \/ Panic
    BY <2>2 DEF Panic, Reboot, StepAt, Registration!Next, Registration!Restart
  <2>3. CASE UNCHANGED earlierVars
    BY <2>3 DEF earlierVars, wifiVars, httpVars, Registration!clientState
  <2> QED
    BY <2>1, <2>2, <2>3, ClientTaskImplements, AsideImplements DEF EarlierNext
<1> QED
  BY <1>1, <1>2, EarlierInvariant, PTL DEF EarlierSpec, ImplementsClient, Registration!Spec
=============================================================================
