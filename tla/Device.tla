------------------------------- MODULE Device -------------------------------
(***************************************************************************)
(* The firmware of a player's device (secret_agent_client/main): the       *)
(* client task that registers, asks for a certificate, asks for a start    *)
(* and connects to the broker, each step at a command of the player; the   *)
(* serial task that reads the commands and publishes the player's choices; *)
(* and the events of the MQTT client.  WifiLink has the events of the      *)
(* wireless link, HttpBuffer those of a request.                           *)
(***************************************************************************)
EXTENDS HttpBuffer, FiniteSets, Functions

CONSTANTS LongIds,    \* the names of more than 31 characters
          Commands,   \* the lines the player types
          MaxTyped,   \* bound on the lines waiting in the driver
          MaxEvents   \* the length of the driver's queue of events

ASSUME DeviceConstants ==
  /\ LongIds \subseteq PlayerIds
  /\ MaxTyped \in Nat
  /\ MaxEvents \in Nat

VARIABLES at,                   \* where client_task is
          typed,                \* the lines in the ring buffer of the UART
          events,               \* its UART_DATA events in serial_msg_queue
          mqtt_client,          \* "NULL" until mqtt_app_start returns
          topic_player_uplink,  \* the name in the topic
          published,            \* the last choice handed to the MQTT client
          listening             \* the topics subscribed at the broker

clientVars == <<at, mqtt_client, topic_player_uplink>>
serialVars == <<typed, events, published>>
deviceVars == <<wifiVars, httpVars, clientVars, serialVars, listening>>

ClientSteps == {"wifi", "register", "registering", "csr", "sending", "certificate",
                "start", "starting", "mqtt", "loop"}

\* The choices the serial task publishes, by the command that asks for them.
Choices == {"ok", "neka", "lyckas", "sabotage", "starta"}

\* The commands that set a bit of the event group.
CommandBit == [reg |-> "REGISTER_PLAYER", csr |-> "SEND_CSR", start |-> "START_GAME"]

Choice == [topic: Names \cup {"cut", "unset"}, val: Choices]
NoChoice == [topic |-> "unset", val |-> "none"]

Downlink(name) == <<"downlink", name>>
Topics == {<<"/torget", NoName>>, <<"/myndigheten", NoName>>}
            \cup {Downlink(name) : name \in Names \cup {"cut"}}

DeviceInit ==
  /\ WifiInit
  /\ HttpInit
  /\ at = "wifi"
  /\ typed = <<>>
  /\ events = 0
  /\ mqtt_client = "NULL"
  /\ topic_player_uplink = "unset"
  /\ published = NoChoice
  /\ listening = {}

\* Power is cycled, or the processor resets: nothing is kept.
Reboot ==
  /\ at' = "wifi"
  /\ bits' = {} /\ reconnect_counter' = 0 /\ station' = "off" /\ dhcp' = FALSE
  /\ request' = NoRequest /\ reply' = NoReply /\ arrived' = 0 /\ output_buffer' = <<>>
  /\ player_id' = NoName /\ signed_certificate' = NoName
  /\ typed' = <<>> /\ events' = 0 /\ published' = NoChoice
  /\ mqtt_client' = "NULL" /\ topic_player_uplink' = "unset" /\ listening' = {}

Panic == NullParsed /\ Reboot

-----------------------------------------------------------------------------
(* client_task *)

\* xEventGroupWaitBits for all the flags, which are not cleared.
Await(step, flags, next) ==
  /\ at = step
  /\ flags \subseteq bits
  /\ UNCHANGED bits
  /\ at' = next

\* esp_http_client_init and esp_http_client_perform.
Perform(path, cn) ==
  /\ request' = [path |-> path, cn |-> cn]
  /\ UNCHANGED <<reply, arrived, output_buffer, player_id, signed_certificate>>

clientKeeps == <<reconnect_counter, station, dhcp, serialVars, listening>>

\* The serial task is created.
WifiIsUp ==
  /\ Await("wifi", Online, "register")
  /\ UNCHANGED <<httpVars, mqtt_client, topic_player_uplink, clientKeeps>>

\* register_player; when no client can be made, nothing is sent.
RegisterPlayer ==
  /\ \/ /\ Await("register", {"REGISTER_PLAYER"}, "registering")
        /\ Perform("/spelare", NoName)
     \/ /\ Await("register", {"REGISTER_PLAYER"}, "csr")
        /\ UNCHANGED httpVars
  /\ UNCHANGED <<mqtt_client, topic_player_uplink, clientKeeps>>

\* Mutant: the CSR is made with the buffer as it was before registering.
CsrSubjects_Stale == {NoName, "garbage"}

\* generate_csr may fail and leave the buffer as it was; its result is ignored.
CsrSubjects == {player_id, "garbage"}

SendCsr ==
  /\ \/ /\ Await("csr", {"SEND_CSR"}, "sending")
        /\ \E cn \in CsrSubjects : Perform("/spelare/csr", cn)
     \/ /\ Await("csr", {"SEND_CSR"}, "certificate")
        /\ UNCHANGED httpVars
  /\ UNCHANGED <<mqtt_client, topic_player_uplink, clientKeeps>>

\* Mutant: the wait leaves out the flag of the certificate.
HasCertificate_NoFlag ==
  /\ Await("certificate", Online, "start")
  /\ UNCHANGED <<httpVars, mqtt_client, topic_player_uplink, clientKeeps>>

HasCertificate ==
  /\ Await("certificate", Online \cup {"CERT_SIGNED"}, "start")
  /\ UNCHANGED <<httpVars, mqtt_client, topic_player_uplink, clientKeeps>>

StartGame ==
  /\ \/ /\ Await("start", {"START_GAME"}, "starting")
        /\ Perform("/start", NoName)
     \/ /\ Await("start", {"START_GAME"}, "mqtt")
        /\ UNCHANGED httpVars
  /\ UNCHANGED <<mqtt_client, topic_player_uplink, clientKeeps>>

\* A request ends, whatever came of it, and the task goes on.
AfterRequest == [registering |-> "csr", sending |-> "certificate", starting |-> "mqtt"]

RequestEnds ==
  /\ OnDisconnected
  /\ at' = AfterRequest[at]
  /\ UNCHANGED <<mqtt_client, topic_player_uplink, serialVars, listening>>

\* strncpy copies 32 characters into shorter_id.  A longer name is cut and not
\* terminated; one of exactly 32 may be followed by a zero in memory.
UplinkNames(name) == IF name \in LongIds THEN {"cut", name} ELSE {name}

\* The buffer of the downlink topic has room for 31 characters of the name.
DownlinkName(name) == IF name \in LongIds THEN "cut" ELSE name

MqttAppStart ==
  /\ Await("mqtt", Online \cup {"CERT_SIGNED"}, "loop")
  /\ topic_player_uplink' \in UplinkNames(player_id)
  /\ mqtt_client' \in {"NULL", "started"}
  /\ UNCHANGED <<httpVars, clientKeeps>>

-----------------------------------------------------------------------------
(* The MQTT client: it reconnects by itself, and subscribes each time *)

MqttConnected ==
  /\ mqtt_client = "started"
  /\ listening' = {<<"/torget", NoName>>, <<"/myndigheten", NoName>>,
                   Downlink(DownlinkName(player_id))}
  /\ UNCHANGED <<wifiVars, httpVars, clientVars, serialVars>>

MqttDisconnected ==
  /\ mqtt_client = "started"
  /\ listening' = {}
  /\ UNCHANGED <<wifiVars, httpVars, clientVars, serialVars>>

-----------------------------------------------------------------------------
(* serial_task *)

serialKeeps == <<reconnect_counter, station, dhcp, httpVars, clientVars, listening>>

\* The player sends a line: the driver keeps the text and queues an event,
\* which is lost when its queue is full.
Type(c) ==
  /\ at # "wifi"
  /\ Len(typed) < MaxTyped
  /\ typed' = Append(typed, c)
  /\ events' = IF events < MaxEvents THEN events + 1 ELSE events
  /\ UNCHANGED <<bits, published, serialKeeps>>

\* What the buffer holds after the two reads.  The first takes as many bytes as
\* the event announced, the second whatever came since, and puts it over the
\* start of the first.  With one line and its event that is the line; else it
\* is a later line, or what is left of two.
Received ==
  CASE typed = <<>> -> {"unknown"}
    [] Len(typed) = 1 /\ events = 1 -> {typed[1]}
    [] events > Len(typed) -> Range(typed) \cup {"unknown"}
    [] OTHER -> Range(Tail(typed)) \cup {"unknown"}

\* The chain of strstr calls: a choice is published, a request sets its bit,
\* anything else changes nothing here.
Obey(c) ==
  \/ /\ c \in Choices
     /\ published' = IF mqtt_client = "started"
                     THEN [topic |-> topic_player_uplink, val |-> c] ELSE published
     /\ UNCHANGED bits
  \/ /\ c \in DOMAIN CommandBit
     /\ bits' = bits \cup {CommandBit[c]}
     /\ UNCHANGED published
  \/ /\ c \notin Choices \cup DOMAIN CommandBit
     /\ UNCHANGED <<bits, published>>

\* UART_DATA
ReadCommand ==
  /\ events > 0
  /\ \E c \in Received : Obey(c)
  /\ typed' = <<>>
  /\ events' = events - 1
  /\ UNCHANGED serialKeeps

\* UART_FIFO_OVF and UART_BUFFER_FULL: input and events are thrown away.
InputOverflows ==
  /\ at # "wifi"
  /\ typed' = <<>>
  /\ events' = 0
  /\ UNCHANGED <<bits, published, serialKeeps>>

-----------------------------------------------------------------------------
ClientNext ==
  \/ WifiIsUp
  \/ RegisterPlayer
  \/ SendCsr
  \/ HasCertificate
  \/ StartGame
  \/ RequestEnds
  \/ MqttAppStart

HttpNext ==
  /\ ServerReplies \/ OnData \/ OnFinish
  /\ UNCHANGED <<clientVars, serialVars, listening>>

SerialNext ==
  \/ \E c \in Commands : Type(c)
  \/ ReadCommand
  \/ InputOverflows

LinkNext ==
  /\ WifiNext
  /\ UNCHANGED <<httpVars, clientVars, serialVars, listening>>

DeviceNext ==
  \/ LinkNext
  \/ ClientNext
  \/ HttpNext
  \/ SerialNext
  \/ MqttConnected
  \/ MqttDisconnected
  \/ Panic
  \/ Reboot

DeviceSpec == DeviceInit /\ [][DeviceNext]_deviceVars

\* FreeRTOS runs every task that is ready, and readies a waiting task when the
\* last of its bits is set, even if the bit is cleared again at once.  A request
\* ends, at the latest when it times out.
DeviceFairness ==
  /\ SF_deviceVars(WifiIsUp \/ RegisterPlayer \/ SendCsr \/ HasCertificate
                     \/ StartGame \/ MqttAppStart)
  /\ WF_deviceVars(RequestEnds)
  /\ WF_deviceVars(ReadCommand)
  /\ WF_deviceVars(Panic)

FairDevice == DeviceSpec /\ DeviceFairness

-----------------------------------------------------------------------------
(* Properties *)

\* Every variable of the firmware keeps its type.
DeviceTypeOK ==
  /\ WifiTypeOK
  /\ HttpTypeOK
  /\ at \in ClientSteps
  /\ typed \in Seq(Commands)
  /\ events \in 0..MaxEvents
  /\ mqtt_client \in {"NULL", "started"}
  /\ topic_player_uplink \in Names \cup {"cut", "unset"}
  /\ published \in Choice \cup {NoChoice}
  /\ listening \subseteq Topics

\* A player's choices are published under the name the device is certified for,
\* which is what the broker lets it write to, unless the name was cut: the name
\* that came with the registration, the subject of the CSR sent later and the
\* topic made last are the same, in whatever order commands come.
PublishesAsCertified ==
  published # NoChoice =>
    /\ "CERT_SIGNED" \in bits
    /\ \/ published.topic = signed_certificate
       \/ published.topic = "cut" /\ signed_certificate \in LongIds

Commanded == {"REGISTER_PLAYER", "SEND_CSR", "START_GAME"} \subseteq bits
Uncertified == at = "certificate" /\ "CERT_SIGNED" \notin bits

\* Once the player has given the three commands, in any order, and the wireless
\* link stays up, the client task gets through to the broker, or waits for a
\* certificate the server did not give it: no other wait lasts, whatever the
\* server answers or fails to answer.
CommandsCarryOn ==
  <>[](Online \subseteq bits) =>
    (Commanded ~> at = "loop" \/ Uncertified \/ ~Commanded)

\* The step of Client each place of client_task belongs to.
StepAt == [wifi |-> "register", register |-> "register", registering |-> "register",
           csr |-> "csr", sending |-> "csr", certificate |-> "certificate",
           start |-> "start", starting |-> "start", mqtt |-> "play", loop |-> "play"]

Registration ==
  INSTANCE Client WITH
    step <- StepAt[at], waiting <- (request # NoRequest), name <- player_id,
    cert <- IF "CERT_SIGNED" \in bits THEN {signed_certificate} ELSE {}

\* The firmware implements Client, which System puts before the server: however
\* answers are cut, late or of another kind, it is never named but while it
\* registers, is certified for the name it has, and does not start uncertified.
ImplementsClient == Registration!Spec

-----------------------------------------------------------------------------
(* What a comment says, and the code does not do *)

\* serial.c:59 says of what it does with the buffer: "Process commands from
\* serial input".  The commands that were waiting are obeyed or still wait.
CommandsAreProcessed ==
  [][ReadCommand =>
       \A c \in Range(typed) \cap DOMAIN CommandBit :
         CommandBit[c] \in bits' \/ c \in Range(typed')]_deviceVars

=============================================================================
