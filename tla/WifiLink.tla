------------------------------ MODULE WifiLink ------------------------------
(***************************************************************************)
(* The wireless link of a player's device (wifi_handler.c): the handlers   *)
(* of the events of the station, the counter of attempts to reconnect, and *)
(* the event group through which the tasks of the firmware wait for each   *)
(* other.  The driver and the access point are external.                   *)
(***************************************************************************)
EXTENDS Naturals

CONSTANT MaxAttempt   \* WIFI_RECONNECT_MAX_ATTEMPT

ASSUME SomeAttempts == MaxAttempt \in Nat \ {0}

VARIABLES bits,              \* wifi_event_group
          reconnect_counter,
          station,           \* the driver: not started, asked to connect,
                             \* connected, or left alone
          dhcp               \* an address was asked for and may still come

wifiVars == <<bits, reconnect_counter, station, dhcp>>

\* BIT0 to BIT5 of shared_resources.h.
Bits == {"AP_CONNECTED", "GOT_IP", "CERT_SIGNED",
         "REGISTER_PLAYER", "SEND_CSR", "START_GAME"}

Online == {"AP_CONNECTED", "GOT_IP"}
Stations == {"off", "asked", "connected", "alone"}

WifiInit ==
  /\ bits = {}
  /\ reconnect_counter = 0
  /\ station = "off"
  /\ dhcp = FALSE

\* WIFI_EVENT_STA_START
StaStart ==
  /\ station = "off"
  /\ station' = "asked"
  /\ UNCHANGED <<bits, reconnect_counter, dhcp>>

\* Mutant: the counter is not reset.
StaConnected_KeepCounter ==
  /\ station = "asked"
  /\ station' = "connected"
  /\ bits' = bits \cup {"AP_CONNECTED"}
  /\ dhcp' = TRUE
  /\ UNCHANGED reconnect_counter

\* WIFI_EVENT_STA_CONNECTED
StaConnected ==
  /\ station = "asked"
  /\ station' = "connected"
  /\ bits' = bits \cup {"AP_CONNECTED"}
  /\ reconnect_counter' = 0
  /\ dhcp' = TRUE

\* IP_EVENT_STA_GOT_IP
GotIp ==
  /\ dhcp
  /\ dhcp' = FALSE
  /\ bits' = bits \cup {"GOT_IP"}
  /\ UNCHANGED <<reconnect_counter, station>>

\* Mutant: one attempt too many is counted.
StaDisconnected_OneMore ==
  /\ station \in {"asked", "connected"}
  /\ bits' = bits \ Online
  /\ \/ /\ reconnect_counter <= MaxAttempt
        /\ reconnect_counter' = reconnect_counter + 1
        /\ station' = "asked"
     \/ /\ reconnect_counter > MaxAttempt
        /\ station' = "alone"
        /\ UNCHANGED reconnect_counter
  /\ dhcp' \in {dhcp, FALSE}

\* WIFI_EVENT_STA_DISCONNECTED, of a connection or of an attempt.  An address
\* that was on its way may still be reported.
StaDisconnected ==
  /\ station \in {"asked", "connected"}
  /\ bits' = bits \ Online
  /\ \/ /\ reconnect_counter < MaxAttempt
        /\ reconnect_counter' = reconnect_counter + 1
        /\ station' = "asked"
     \/ /\ reconnect_counter >= MaxAttempt
        /\ station' = "alone"
        /\ UNCHANGED reconnect_counter
  /\ dhcp' \in {dhcp, FALSE}

WifiNext == StaStart \/ StaConnected \/ GotIp \/ StaDisconnected

WifiSpec == WifiInit /\ [][WifiNext]_wifiVars

WifiTypeOK ==
  /\ bits \subseteq Bits
  /\ reconnect_counter \in 0..MaxAttempt
  /\ station \in Stations
  /\ dhcp \in BOOLEAN

-----------------------------------------------------------------------------
\* A device that loses a connection it had asks for a new one, however often
\* it lost one before: only attempts that fail in a row are counted.
RetriesWhatItHad == [][station = "connected" => station' # "alone"]_wifiVars

=============================================================================
