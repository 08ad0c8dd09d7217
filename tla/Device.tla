------------------------------- MODULE Device -------------------------------
(***************************************************************************)
(* The controller as app_main of src/main.c starts it: configuration,      *)
(* WiFi, servers, PWM, target task and tachometer, each of which can be    *)
(* called by those already running, with power failures and aborts.  Of    *)
(* the components with modules of their own (Target, Tacho, TcpServer)     *)
(* only whether they have started and the calls between them are left.     *)
(***************************************************************************)
EXTENDS Rest, Wifi

VARIABLES
  stage,           \* app_main's next step
  started,         \* the parts that have started
  misused          \* history: the parts used before they had started

bootVars == <<stage, started, misused>>
vars == <<configVars, restVars, wifiVars, bootVars>>

Parts  == {"config", "rest", "tcp", "pwm", "target", "tacho"}
Stages == {"nvs", "config", "wifi", "ip", "network", "pwm", "target", "tacho", "ota", "run"}

BugAfter(s) ==
  CASE s = "nvs"     -> "config"
    [] s = "config"  -> "wifi"
    [] s = "wifi"    -> "ip"
    [] s = "ip"      -> "network"
    [] s = "network" -> "target"
    [] s = "target"  -> "pwm"
    [] s = "pwm"     -> "tacho"
    [] s = "tacho"   -> "ota"
    [] OTHER         -> "run"

\* The order of app_main; "ip" is the wait at the end of StartWIFI.
After(s) ==
  CASE s = "nvs"     -> "config"
    [] s = "config"  -> "wifi"
    [] s = "wifi"    -> "ip"
    [] s = "ip"      -> "network"
    [] s = "network" -> "pwm"
    [] s = "pwm"     -> "target"
    [] s = "target"  -> "tacho"
    [] s = "tacho"   -> "ota"
    [] OTHER         -> "run"

Init ==
  /\ ConfigInit /\ WifiInit /\ RestInit
  /\ stage = "nvs" /\ started = {} /\ misused = {}

\* The power fails, or ESP_ERROR_CHECK or an assertion aborts: memory is
\* lost and app_main begins again.
Restart ==
  /\ ConfigRestarts /\ WifiRestarts /\ RestRestarts
  /\ stage' = "nvs" /\ started' = {}
  /\ UNCHANGED misused

-----------------------------------------------------------------------------
(***************************************************************************)
(* app_main.                                                               *)
(***************************************************************************)
\* The step s of app_main starts the parts.
Boots(s, parts) ==
  /\ stage = s /\ stage' = After(s)
  /\ started' = started \cup parts
  /\ UNCHANGED misused

\* nvs_flash_init, and the erasure it may ask for.
BootNvs ==
  /\ Boots("nvs", {})
  /\ UNCHANGED <<configVars, wifiVars>> \/ (NvsErase /\ WifiErased)
  /\ UNCHANGED restVars

\* Each channel, then each device key.  An unreadable channel aborts.
BootLoads ==
  /\ stage = "config"
  /\ \/ /\ LoadKey \/ \E ch \in Channels : LoadChannel(ch)
        /\ UNCHANGED <<restVars, wifiVars, bootVars>>
     \/ (\E ch \in unloaded : ~ChannelReadable(ch)) /\ Restart

BootConfig == Boots("config", {"config"}) /\ ConfigLoaded /\ UNCHANGED <<restVars, wifiVars>>

BootWifi == Boots("wifi", {}) /\ StartWIFI /\ UNCHANGED <<configVars, restVars>>

BootIp == Boots("ip", {}) /\ gotIp /\ UNCHANGED <<configVars, restVars, wifiVars>>

\* StartNetwork: mDNS, the REST server and the TCP server's task.  The
\* first failure leaves out the rest, and is only logged.
BootNetwork ==
  /\ \E parts \in {{}, {"rest"}, {"rest", "tcp"}} : Boots("network", parts)
  /\ UNCHANGED <<configVars, restVars, wifiVars>>

\* StartPWM, StartTarget, StartTacho.
BootPart(part) == Boots(part, {part}) /\ UNCHANGED <<configVars, restVars, wifiVars>>

\* StartOTATask.
BootOta == Boots("ota", {}) /\ UNCHANGED <<configVars, restVars, wifiVars>>

AppMain ==
  \/ BootNvs \/ BootLoads \/ BootConfig \/ BootWifi \/ BootIp \/ BootNetwork
  \/ \E part \in {"pwm", "target", "tacho"} : BootPart(part)
  \/ BootOta

-----------------------------------------------------------------------------
(***************************************************************************)
(* What runs once it has started.                                          *)
(***************************************************************************)
\* A part runs and uses others: those that have not started are noted.
Uses(part, others) ==
  /\ part \in started
  /\ misused' = misused \cup (others \ started)
  /\ UNCHANGED <<wifiVars, stage, started>>

\* The server calls the target component, before StartTarget one of whose
\* locks or the queue is missing: an assertion aborts.
CallsTarget(server, Call) ==
  \/ "target" \in started /\ Call /\ Uses(server, {"config"})
  \/ "target" \notin started /\ server \in started /\ Restart

RestServes ==
  /\ station = "up"
  /\ \E h \in Headers : RestReceive(h)
  /\ Uses("rest", {"config"})

RestRuns == RestStep /\ UNCHANGED <<wifiVars, bootVars>>

RestWaits == RestTakes /\ UNCHANGED <<wifiVars, bootVars>>

RestCallsTarget == restPc = "target" /\ CallsTarget("rest", RestTarget)

\* A request of an agent's.
TcpCallsTarget == station = "up" /\ CallsTarget("tcp", UNCHANGED <<configVars, restVars>>)

TachoCallsTarget == Uses("tacho", {"target"}) /\ UNCHANGED <<configVars, restVars>>

\* vTaskTarget handles a message, or times out.
TargetRuns == Uses("target", {"pwm", "config"}) /\ UNCHANGED <<configVars, restVars>>

SaveRuns == "config" \in started /\ Save /\ UNCHANGED <<restVars, wifiVars, bootVars>>

WifiRuns == WifiEvent /\ UNCHANGED <<configVars, restVars, bootVars>>

Next ==
  \/ AppMain \/ Restart
  \/ RestServes \/ RestRuns \/ RestWaits \/ RestCallsTarget
  \/ TcpCallsTarget \/ TachoCallsTarget \/ TargetRuns
  \/ SaveRuns \/ WifiRuns

Spec == Init /\ [][Next]_vars

(***************************************************************************)
(* The tasks run, a mutex is given to those who wait for it in turn, the   *)
(* access point is reached if its credentials are right, and a user who is *)
(* asked for them again and again gets them right.                         *)
(***************************************************************************)
Fairness ==
  /\ WF_vars(AppMain)
  /\ WF_vars(RestRuns \/ RestCallsTarget)
  /\ SF_vars(RestWaits)
  /\ WF_vars(SaveStep /\ UNCHANGED <<restVars, wifiVars, bootVars>>)
  /\ SF_vars(GotIp /\ UNCHANGED <<configVars, restVars, bootVars>>)
  /\ SF_vars(CredRecv("good") /\ UNCHANGED <<configVars, restVars, bootVars>>)
  /\ WF_vars(CredFail /\ UNCHANGED <<configVars, restVars, bootVars>>)

LiveSpec == Spec /\ Fairness

-----------------------------------------------------------------------------
\* The variables' types.  What needs care is that retries stays below its
\* limit and that what is read is always a value or marked as none.
TypeOK ==
  /\ ConfigTypeOK /\ WifiTypeOK /\ RestTypeOK
  /\ stage \in Stages /\ started \subseteq Parts /\ misused \subseteq Parts

\* No part is used before it has started, in any order of the calls and
\* whatever of StartNetwork failed, but for the servers' calls into the
\* target component, which abort.
UsedAfterStart == misused = {}

\* Once StartConfig has returned, the configuration in force is the one
\* that was in force before the restart, wherever in the loading, the
\* storing of defaults or a save the power failed and whichever uncommitted
\* writes survived it.  The time zone is excepted, which saveTZ does not
\* commit.
ConfigKept ==
  "config" \in started => \A k \in Keys \ {TimeZone} : ram[k] = kept[k]

FewRestarts == <>[][stage' # "nvs"]_stage

\* If it restarts finitely often the controller comes up, unless wrong
\* credentials survived a restart.
BootEnds == FewRestarts => <>[](stage = "run" \/ Stranded)

\* The REST server comes to an end with each request, or restarts:
\* configMutex is always given back.
RequestsAnswered == restPc # "idle" ~> restPc = "idle"
=============================================================================
