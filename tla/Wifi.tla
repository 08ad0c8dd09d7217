-------------------------------- MODULE Wifi --------------------------------
(***************************************************************************)
(* StartWIFI and event_handler of src/wifi.c, around the provisioning      *)
(* manager and the WiFi driver, which are libraries: their state is what   *)
(* decides the events that event_handler gets.                             *)
(***************************************************************************)
EXTENDS Naturals

CONSTANT MaxRetries   \* CONFIG_FANCTRL_PROV_MGR_MAX_RETRY_CNT

ASSUME WifiAssumption == MaxRetries \in Nat \ {0}

VARIABLES
  creds,           \* the access point's credentials in the flash: "none", "good" or "bad"
  manager,         \* the provisioning manager: "off", "waiting" for a user, or "trying"
  station,         \* the station: "off", "idle", "connecting" or "up"
  gotIp,           \* WIFI_CONNECTED_EVENT
  retries          \* of event_handler

wifiVars == <<creds, manager, station, gotIp, retries>>

WifiInit ==
  creds = "none" /\ manager = "off" /\ station = "off" /\ gotIp = FALSE /\ retries = 0

WifiRestarts ==
  /\ manager' = "off" /\ station' = "off" /\ gotIp' = FALSE /\ retries' = 0
  /\ UNCHANGED creds

\* The flash is erased, and the credentials in it.
WifiErased == creds' = "none" /\ UNCHANGED <<manager, station, gotIp, retries>>

\* StartWIFI up to its wait: provisioning, or else the station, which
\* connects when it has started (WIFI_EVENT_STA_START).
StartWIFI ==
  /\ station = "off"
  /\ \/ creds = "none" /\ manager' = "waiting" /\ station' = "idle"
     \/ creds # "none" /\ manager' = "off" /\ station' = "connecting"
  /\ UNCHANGED <<creds, gotIp, retries>>

\* A user provisions: the manager stores the credentials and connects.
CredRecv(c) ==
  /\ manager = "waiting"
  /\ creds' = c /\ manager' = "trying" /\ station' = "connecting"
  /\ UNCHANGED <<gotIp, retries>>

\* IP_EVENT_STA_GOT_IP; when provisioning, WIFI_PROV_CRED_SUCCESS and
\* WIFI_PROV_END come with it.
GotIp ==
  /\ station = "connecting" /\ creds = "good"
  /\ station' = "up" /\ gotIp' = TRUE
  /\ manager' = "off" /\ retries' = IF manager = "trying" THEN 0 ELSE retries
  /\ UNCHANGED creds

BugDisconnected ==
  /\ station \in {"connecting", "up"} /\ manager # "trying"
  /\ station' = "idle"
  /\ UNCHANGED <<creds, manager, gotIp, retries>>

\* WIFI_EVENT_STA_DISCONNECTED: connect again.
Disconnected ==
  /\ station \in {"connecting", "up"} /\ manager # "trying"
  /\ station' = "connecting"
  /\ UNCHANGED <<creds, manager, gotIp, retries>>

BugCredFail ==
  /\ station = "connecting" /\ manager = "trying"
  /\ IF retries >= MaxRetries
     THEN retries' = 0 /\ manager' = "waiting" /\ creds' = "none" /\ station' = "idle"
     ELSE retries' = retries + 1 /\ UNCHANGED <<manager, creds, station>>
  /\ UNCHANGED gotIp

\* The same while provisioning, with the WIFI_PROV_CRED_FAIL that it brings:
\* after MaxRetries of them the manager starts again, without credentials.
CredFail ==
  /\ station = "connecting" /\ manager = "trying"
  /\ IF retries + 1 >= MaxRetries
     THEN retries' = 0 /\ manager' = "waiting" /\ creds' = "none" /\ station' = "idle"
     ELSE retries' = retries + 1 /\ UNCHANGED <<manager, creds, station>>
  /\ UNCHANGED gotIp

WifiEvent ==
  \/ GotIp \/ Disconnected \/ CredFail
  \/ \E c \in {"good", "bad"} : CredRecv(c)

\* The wrong credentials were stored before the last restart.  Nothing
\* erases them then, and StartWIFI waits for ever.
Stranded == creds = "bad" /\ manager = "off"

WifiTypeOK ==
  /\ creds \in {"none", "good", "bad"}
  /\ manager \in {"off", "waiting", "trying"}
  /\ station \in {"off", "idle", "connecting", "up"}
  /\ gotIp \in BOOLEAN /\ retries \in 0 .. MaxRetries - 1
=============================================================================
