---------------------------- MODULE EarlierDevice ----------------------------
(***************************************************************************)
(* The earlier firmware kept in oldstuff_2/main.  It registers and asks    *)
(* for a certificate by itself, once each; its serial task only publishes; *)
(* and it has a chat task besides.  The tasks guard what they share with   *)
(* three mutexes.  WifiLink and HttpBuffer hold for it as they do for the  *)
(* later firmware: wifi_handler.c and the event handler of the requests    *)
(* are the same, the answers having the form of its server (app.go).       *)
(*                                                                         *)
(* The mutexes are those of xSemaphoreCreateMutex: a task that takes one   *)
(* it holds waits for ever, and giving one that is free does nothing.      *)
(***************************************************************************)
EXTENDS HttpBuffer, Functions

CONSTANTS LongIds,    \* the names of more than 31 characters
          Lines,      \* the lines the player types
          MaxTyped,   \* the lines there is room for in the driver
          MaxEvents   \* the length of the driver's queue of events

ASSUME EarlierConstants ==
  /\ LongIds \subseteq PlayerIds
  /\ MaxTyped \in Nat
  /\ MaxEvents \in Nat

VARIABLES at,           \* where client_task is
          serial,       \* serial_task: not created, setting up, reading
          chat,         \* where chat_task is
          holder,       \* the task that holds each mutex
          typed,        \* the lines in the ring buffer of the UART
          events,       \* its events in serial_msg_queue
          mqtt_client,  \* "NULL" until mqtt_app_start returns
          published,    \* the topic of the last message published
          listening     \* the topics subscribed at the broker

mqttVars == <<mqtt_client, published, listening>>
inputVars == <<typed, events>>
earlierVars == <<wifiVars, httpVars, at, serial, chat, holder, inputVars, mqttVars>>

ClientSteps == {"wifi", "register", "registering", "csr", "sending", "certificate",
                "mqtt", "take", "subscribe", "chat", "loop", "deleted"}
ChatSteps == {"none", "serial", "receive", "forgotten", "mqtt_evt", "poll"}

\* xSemaphore_serial, xSemaphore_mqtt_evt and xSemaphore_mqtt_client.
Mutexes == {"serial", "mqtt_evt", "mqtt_client"}
Tasks == {"client", "chat"}

Choices == {"ok", "neka", "lyckas", "sabotage", "starta"}

\* TOPIC_PLAYER_Uplink is published to as it stands, with its %d.
PublishTopics == {"none", "/spelare/%d/uplink", "/torget", "/spelare/qos0"}
Topics == {<<"/torget", NoName>>, <<"/myndigheten", NoName>>}
            \cup ({"uplink", "downlink"} \X (Names \cup {"cut"}))

EarlierInit ==
  /\ WifiInit
  /\ HttpInit
  /\ at = "wifi"
  /\ serial = "none"
  /\ chat = "none"
  /\ holder = [m \in Mutexes |-> "free"]
  /\ typed = <<>>
  /\ events = 0
  /\ mqtt_client = "NULL"
  /\ published = "none"
  /\ listening = {}

\* Power is cycled, or the processor resets.
Reboot ==
  /\ at' = "wifi" /\ serial' = "none" /\ chat' = "none"
  /\ holder' = [m \in Mutexes |-> "free"]
  /\ bits' = {} /\ reconnect_counter' = 0 /\ station' = "off" /\ dhcp' = FALSE
  /\ request' = NoRequest /\ reply' = NoReply /\ arrived' = 0 /\ output_buffer' = <<>>
  /\ player_id' = NoName /\ signed_certificate' = NoName
  /\ typed' = <<>> /\ events' = 0
  /\ mqtt_client' = "NULL" /\ published' = "none" /\ listening' = {}

Panic == NullParsed /\ Reboot

\* xSemaphoreTake: the task waits while anybody has the mutex, itself included.
Take(m, task) ==
  /\ holder[m] = "free"
  /\ holder' = [holder EXCEPT ![m] = task]

-----------------------------------------------------------------------------
(* client_task *)

\* xEventGroupWaitBits for all the flags, which are not cleared.
Await(step, flags) == at = step /\ flags \subseteq bits

linkKeeps == <<reconnect_counter, station, dhcp>>
othersKeep == <<chat, inputVars, linkKeeps>>

\* The serial task is created, if there is memory for it.
WifiIsUp ==
  /\ Await("wifi", Online)
  /\ serial' \in {"starting", "none"}
  /\ at' = "register"
  /\ UNCHANGED <<bits, httpVars, holder, mqttVars, othersKeep>>

\* Without a client for the request nothing is sent, and the task goes on.
Perform(path, cn, sent, unsent) ==
  /\ \/ /\ request' = [path |-> path, cn |-> cn]
        /\ at' = sent
     \/ /\ UNCHANGED request
        /\ at' = unsent
  /\ UNCHANGED <<reply, arrived, output_buffer, player_id, signed_certificate,
                 bits, serial, holder, mqttVars, othersKeep>>

\* register_player
RegisterPlayer ==
  /\ at = "register"
  /\ Perform("/spelare", NoName, "registering", "csr")

\* Mutant: the CSR is made with the buffer as it was before registering.
CsrSubjects_Stale == {NoName, "garbage"}

\* generate_csr may fail and leave the buffer as it was; its result is ignored.
CsrSubjects == {player_id, "garbage"}

SendCsr ==
  /\ at = "csr"
  /\ \E cn \in CsrSubjects : Perform("/spelare/csr", cn, "sending", "certificate")

\* Mutant: a certificate that was not given is asked for again.
RequestEnds_AskAgain ==
  /\ OnDisconnected
  /\ at' = IF at = "registering" \/ "CERT_SIGNED" \notin bits THEN "csr" ELSE "certificate"
  /\ UNCHANGED <<serial, chat, holder, inputVars, mqttVars>>

RequestEnds ==
  /\ OnDisconnected
  /\ at' = IF at = "registering" THEN "csr" ELSE "certificate"
  /\ UNCHANGED <<serial, chat, holder, inputVars, mqttVars>>

HasCertificate ==
  /\ Await("certificate", Online \cup {"CERT_SIGNED"})
  /\ at' = "mqtt"
  /\ UNCHANGED <<bits, httpVars, serial, holder, mqttVars, othersKeep>>

\* Mutant: the chat task is created before the client subscribes.
MqttAppStart_ChatFirst ==
  /\ Await("mqtt", Online \cup {"CERT_SIGNED"})
  /\ mqtt_client' \in {"NULL", "started"}
  /\ at' = IF mqtt_client' = "NULL" THEN "loop" ELSE "take"
  /\ chat' = "serial"
  /\ UNCHANGED <<bits, httpVars, serial, holder, published, listening,
                 inputVars, linkKeeps>>

\* mqtt_app_start returns no client when it cannot make or start one.
MqttAppStart ==
  /\ Await("mqtt", Online \cup {"CERT_SIGNED"})
  /\ mqtt_client' \in {"NULL", "started"}
  /\ at' = IF mqtt_client' = "NULL" THEN "chat" ELSE "take"
  /\ UNCHANGED <<bits, httpVars, serial, holder, published, listening, othersKeep>>

\* client_task takes xSemaphore_mqtt_client and calls mqtt_subscribe, which
\* takes it a second time before it subscribes and gives it back.
TakeMqttClient ==
  /\ at \in {"take", "subscribe"}
  /\ Take("mqtt_client", "client")
  /\ at' = IF at = "take" THEN "subscribe" ELSE "chat"
  /\ UNCHANGED <<bits, httpVars, serial, mqttVars, othersKeep>>

\* The chat task is created, or the client task deletes itself.
CreateChat ==
  /\ at = "chat"
  /\ \/ at' = "loop" /\ chat' = "serial"
     \/ at' = "deleted" /\ UNCHANGED chat
  /\ UNCHANGED <<bits, httpVars, serial, holder, mqttVars, inputVars, linkKeeps>>

-----------------------------------------------------------------------------
(* The MQTT client's events *)

mqttKeeps == <<wifiVars, httpVars, at, serial, chat, holder, inputVars, mqtt_client>>

\* shorter_id holds 32 characters of the name, and no end of a longer one; the
\* downlink topic has room for 31 of them.
MqttConnected ==
  /\ mqtt_client = "started"
  /\ LET up == IF player_id \in LongIds THEN {"cut", player_id} ELSE {player_id}
         down == IF player_id \in LongIds THEN "cut" ELSE player_id
     IN  \E n \in up :
           listening' = {<<"/torget", NoName>>, <<"/myndigheten", NoName>>,
                         <<"uplink", n>>, <<"downlink", down>>}
  /\ UNCHANGED <<published, mqttKeeps>>

MqttSubscribed ==
  /\ listening # {}
  /\ published' = "/spelare/qos0"
  /\ UNCHANGED <<listening, mqttKeeps>>

MqttDisconnected ==
  /\ mqtt_client = "started"
  /\ listening' = {}
  /\ UNCHANGED <<published, mqttKeeps>>

-----------------------------------------------------------------------------
(* serial_task *)

serialKeeps == <<wifiVars, httpVars, at, chat, holder, mqtt_client, listening>>

\* uart_driver_install puts the queue of the driver in serial_msg_queue.
InstallDriver ==
  /\ serial = "starting"
  /\ serial' = "reading"
  /\ UNCHANGED <<typed, events, published, serialKeeps>>

\* The driver keeps the text, for which there may be no room, and queues an
\* event, unless its queue is full.
Type(c) ==
  /\ serial = "reading"
  /\ typed' = IF Len(typed) < MaxTyped THEN Append(typed, c) ELSE typed
  /\ events' = IF events < MaxEvents THEN events + 1 ELSE events
  /\ UNCHANGED <<serial, published, serialKeeps>>

\* The first read takes as many bytes as the event announced; the second takes
\* the rest over it and ends the string with its own length, so that a line
\* alone with its event is gone.  An event of another line cuts elsewhere.
Received ==
  {"unknown"} \cup Range(IF events = Len(typed) THEN Tail(typed) ELSE typed)

\* UART_DATA: a choice, a line with a colon in it, or anything else.
ReadCommand ==
  /\ serial = "reading"
  /\ events > 0
  /\ \E c \in Received :
       published' = CASE mqtt_client = "NULL" -> published
                      [] c \in Choices -> "/spelare/%d/uplink"
                      [] c = "chat" -> "/torget"
                      [] OTHER -> published
  /\ typed' = <<>>
  /\ events' = events - 1
  /\ UNCHANGED <<serial, serialKeeps>>

\* UART_FIFO_OVF and UART_BUFFER_FULL
InputOverflows ==
  /\ serial = "reading"
  /\ typed' = <<>>
  /\ events' = 0
  /\ UNCHANGED <<serial, published, serialKeeps>>

-----------------------------------------------------------------------------
(* chat_task *)

chatKeeps == <<wifiVars, httpVars, at, serial, typed, mqttVars>>

\* It waits for serial_msg_queue as it finds it: that of the driver, or the one
\* app_main made, which nobody writes to.
ChatTakesSerial ==
  /\ chat = "serial"
  /\ Take("serial", "chat")
  /\ chat' = IF serial = "reading" THEN "receive" ELSE "forgotten"
  /\ UNCHANGED <<events, chatKeeps>>

\* Mutant: the mutex that was taken is given.
ChatReceives_GiveSerial ==
  /\ chat = "receive"
  /\ events > 0
  /\ events' = events - 1
  /\ holder' = [holder EXCEPT !["serial"] = "free"]
  /\ chat' = "mqtt_evt"
  /\ UNCHANGED chatKeeps

\* What it receives is an event of the driver, which never looks like a line
\* that begins with ":s ".  It gives xSemaphore_mqtt_client, which is free.
ChatReceives ==
  /\ chat = "receive"
  /\ events > 0
  /\ events' = events - 1
  /\ chat' = "mqtt_evt"
  /\ UNCHANGED <<holder, chatKeeps>>

ChatTakesEvents ==
  /\ chat = "mqtt_evt"
  /\ Take("mqtt_evt", "chat")
  /\ chat' = "poll"
  /\ UNCHANGED <<events, chatKeeps>>

\* Nobody fills mqtt_event_queue: its callback is never registered.
ChatPolls ==
  /\ chat = "poll"
  /\ holder' = [holder EXCEPT !["mqtt_evt"] = "free"]
  /\ chat' = "serial"
  /\ UNCHANGED <<events, chatKeeps>>

-----------------------------------------------------------------------------
ClientNext ==
  \/ WifiIsUp
  \/ RegisterPlayer
  \/ SendCsr
  \/ RequestEnds
  \/ HasCertificate
  \/ MqttAppStart
  \/ TakeMqttClient
  \/ CreateChat

ChatNext == ChatTakesSerial \/ ChatReceives \/ ChatTakesEvents \/ ChatPolls

SerialNext ==
  \/ InstallDriver
  \/ \E c \in Lines : Type(c)
  \/ ReadCommand
  \/ InputOverflows

\* The event handler of the requests.
HttpEvents ==
  /\ ServerReplies \/ OnData \/ OnFinish
  /\ UNCHANGED <<at, serial, chat, holder, inputVars, mqttVars>>

\* The event handlers of the link.
LinkEvents ==
  /\ WifiNext
  /\ UNCHANGED <<httpVars, at, serial, chat, holder, inputVars, mqttVars>>

EarlierNext ==
  \/ ClientNext
  \/ ChatNext
  \/ SerialNext
  \/ HttpEvents
  \/ LinkEvents
  \/ MqttConnected
  \/ MqttSubscribed
  \/ MqttDisconnected
  \/ Panic
  \/ Reboot

EarlierSpec == EarlierInit /\ [][EarlierNext]_earlierVars

\* Every task that is ready runs, and a task whose bits are set is readied; a
\* request ends, at the latest when it times out.  While the serial task sleeps
\* the chat task may take what both wait for: a queue is fair to nobody.
EarlierFairness ==
  /\ SF_earlierVars(WifiIsUp \/ HasCertificate \/ MqttAppStart)
  /\ WF_earlierVars(RegisterPlayer \/ SendCsr \/ TakeMqttClient \/ CreateChat)
  /\ WF_earlierVars(RequestEnds)
  /\ WF_earlierVars(Panic)
  /\ WF_earlierVars(ChatNext)
  /\ WF_earlierVars(InstallDriver \/ ReadCommand)

FairEarlier == EarlierSpec /\ EarlierFairness

-----------------------------------------------------------------------------
(* Properties *)

\* Every variable of the earlier firmware keeps its type.
EarlierTypeOK ==
  /\ WifiTypeOK
  /\ HttpTypeOK
  /\ at \in ClientSteps
  /\ serial \in {"none", "starting", "reading"}
  /\ chat \in ChatSteps
  /\ holder \in [Mutexes -> Tasks \cup {"free"}]
  /\ typed \in Seq(Lines)
  /\ events \in 0..MaxEvents
  /\ mqtt_client \in {"NULL", "started"}
  /\ published \in PublishTopics
  /\ listening \subseteq Topics

\* The chat task gives a mutex it did not take.  It is never one that the
\* client task holds, which FreeRTOS would stop the device for: where there is
\* an MQTT client the client task waits in mqtt_subscribe, for the mutex it
\* holds itself, and never creates the chat task.
NobodyElsesMutex == chat = "receive" => holder["mqtt_client"] # "client"

\* The device connects to the broker as the player its certificate is for, if
\* its certificate is for one: the name of the registration, the subject of the
\* CSR and the client_id are the same, though no step waits for the one before
\* to have succeeded.
ConnectsAsCertified == mqtt_client = "started" => signed_certificate = player_id

\* The step of Client each place of client_task belongs to: a start is never
\* asked for, it is passed over on the way to the broker.
StepAt == [wifi |-> "register", register |-> "register", registering |-> "register",
           csr |-> "csr", sending |-> "csr", certificate |-> "certificate",
           mqtt |-> "start", take |-> "play", subscribe |-> "play", chat |-> "play",
           loop |-> "play", deleted |-> "play"]

Registration ==
  INSTANCE Client WITH
    step <- StepAt[at], waiting <- (request # NoRequest), name <- player_id,
    cert <- IF "CERT_SIGNED" \in bits THEN {signed_certificate} ELSE {}

\* The earlier firmware keeps to the registration of Client too, though its
\* client task gives no thought to what its requests came to: it is named only
\* while it registers, certified for the name it then has, once at most, and
\* goes to the broker only certified.
ImplementsClient == Registration!Spec

\* Nobody hears the player, or every few lines: while lines keep coming the
\* serial task keeps reading them, though the chat task waits for the same
\* queue.  It takes one event at most, since it then waits for the mutex it
\* did not give.
SerialIsHeard ==
  []<><<\E c \in Lines : Type(c)>>_earlierVars =>
    []<><<ReadCommand \/ InputOverflows \/ Reboot>>_earlierVars

\* Once the link stays up the client task has registered, however its requests
\* ended, and then either waits for a certificate it was not given, or waits in
\* mqtt_subscribe, or is past the broker.
ClientGetsThrough ==
  <>[](Online \subseteq bits) =>
    (at = "register" ~>
       \/ at = "certificate" /\ "CERT_SIGNED" \notin bits
       \/ at \in {"subscribe", "loop", "deleted", "wifi"})

=============================================================================
