---------------------------- MODULE DeviceProofs ----------------------------
(***************************************************************************)
(* Theorems about Device: types, boot order, the REST server's credentials *)
(* and buffers, and the configuration through restarts, for any channels,  *)
(* fields, keys, contents of the flash, buffers and retries.               *)
(***************************************************************************)
EXTENDS Device, TLAPS

USE ConfigAssumption, WifiAssumption, RestAssumption

\* What of the configuration a step that is not about it leaves alone.
dataVars == <<flashVars, ram, loadVars, saveVars, kept>>

\* The disjuncts of Next, flat.  What a step of the REST server changes of
\* the configuration is the mutex.
LEMMA NextSteps ==
  ASSUME Next
  PROVE  \/ Restart
         \/ BootNvs
         \/ (stage = "config" /\ LoadKey /\ UNCHANGED <<restVars, wifiVars, bootVars>>)
         \/ \E ch \in Channels :
              stage = "config" /\ LoadChannel(ch) /\ UNCHANGED <<restVars, wifiVars, bootVars>>
         \/ BootConfig
         \/ BootWifi
         \/ BootIp \/ BootNetwork \/ (\E part \in {"pwm", "target", "tacho"} : BootPart(part)) \/ BootOta
         \/ RestServes
         \/ RestRuns
         \/ RestWaits
         \/ (RestCallsTarget /\ ~Restart)
         \/ (TcpCallsTarget /\ ~Restart) \/ TachoCallsTarget \/ TargetRuns
         \/ SaveRuns
         \/ WifiRuns
  BY Zenon DEF Next, AppMain, BootLoads

-----------------------------------------------------------------------------
(***************************************************************************)
(* The boot.                                                               *)
(***************************************************************************)
\* What has started at each stage.
BootInv ==
  /\ stage \in Stages /\ started \subseteq Parts
  /\ stage \in {"nvs", "config"} => started = {}
  /\ stage \notin {"nvs", "config"} => "config" \in started
  /\ stage \in {"target", "tacho", "ota", "run"} => "pwm" \in started
  /\ stage \in {"tacho", "ota", "run"} => "target" \in started
  /\ "target" \in started => "pwm" \in started
  /\ "tacho" \in started => "target" \in started
  /\ misused = {}

LEMMA BootStep == ASSUME BootInv, [Next]_vars PROVE BootInv'
<1>1. CASE UNCHANGED bootVars
  BY <1>1 DEF BootInv, bootVars
<1>2. CASE Restart
  BY <1>2 DEF Restart, BootInv, Stages
<1>3. ASSUME NEW s \in Stages, NEW parts \in SUBSET Parts, Boots(s, parts),
             s = "nvs" => parts = {},
             s = "config" => parts = {"config"},
             s \in {"pwm", "target", "tacho"} => parts = {s},
             s \in {"wifi", "ip", "network", "ota"} => parts \subseteq {"rest", "tcp"},
             s # "run"
      PROVE  BootInv'
  BY <1>3 DEF Boots, BootInv, After, Stages, Parts
<1>4. ASSUME NEW part \in started, NEW others \in SUBSET started, Uses(part, others)
      PROVE  BootInv'
  BY <1>4 DEF Uses, BootInv
<1>5. CASE BootNvs
  <2>1. Boots("nvs", {}) BY <1>5 DEF BootNvs
  <2> QED BY <2>1, <1>3 DEF Stages, Parts
<1>6. CASE BootConfig
  <2>1. Boots("config", {"config"}) BY <1>6 DEF BootConfig
  <2> QED BY <2>1, <1>3 DEF Stages, Parts
<1>7. CASE BootWifi
  <2>1. Boots("wifi", {}) BY <1>7 DEF BootWifi
  <2> QED BY <2>1, <1>3 DEF Stages, Parts
<1>8. CASE BootIp
  <2>1. Boots("ip", {}) BY <1>8 DEF BootIp
  <2> QED BY <2>1, <1>3 DEF Stages, Parts
<1>9. CASE BootNetwork
  <2>1. PICK parts \in {{}, {"rest"}, {"rest", "tcp"}} : Boots("network", parts)
    BY <1>9 DEF BootNetwork
  <2> QED BY <2>1, <1>3 DEF Stages, Parts
<1>10. ASSUME NEW part \in {"pwm", "target", "tacho"}, BootPart(part) PROVE BootInv'
  <2>1. Boots(part, {part}) BY <1>10 DEF BootPart
  <2> QED BY <2>1, <1>3 DEF Stages, Parts
<1>11. CASE BootOta
  <2>1. Boots("ota", {}) BY <1>11 DEF BootOta
  <2> QED BY <2>1, <1>3 DEF Stages, Parts
<1>12. started # {} => "config" \in started
  BY DEF BootInv
<1>13. CASE RestServes
  <2>1. Uses("rest", {"config"}) BY <1>13 DEF RestServes
  <2> QED BY <2>1, <1>4, <1>12 DEF Uses
<1>14. CASE (RestCallsTarget \/ TcpCallsTarget) /\ ~Restart
  <2>1. \E server : Uses(server, {"config"})
    BY <1>14 DEF RestCallsTarget, TcpCallsTarget, CallsTarget
  <2> QED BY <2>1, <1>4, <1>12 DEF Uses
<1>15. CASE TachoCallsTarget
  <2>1. Uses("tacho", {"target"}) BY <1>15 DEF TachoCallsTarget
  <2> QED BY <2>1, <1>4 DEF Uses, BootInv
<1>16. CASE TargetRuns
  <2>1. Uses("target", {"pwm", "config"}) BY <1>16 DEF TargetRuns
  <2> QED BY <2>1, <1>4, <1>12 DEF Uses, BootInv
<1> QED
  BY <1>1, <1>2, <1>5, <1>6, <1>7, <1>8, <1>9, <1>10, <1>11, <1>13, <1>14, <1>15, <1>16, NextSteps
  DEF vars, RestRuns, RestWaits, SaveRuns, WifiRuns

\* No part runs before those it uses, however far StartNetwork came and
\* wherever the controller restarted.
THEOREM UsedInOrder == Spec => []UsedAfterStart
<1>1. Init => BootInv
  BY DEF Init, BootInv, Stages
<1>2. BootInv => UsedAfterStart
  BY DEF BootInv, UsedAfterStart
<1> QED BY <1>1, <1>2, BootStep, PTL DEF Spec

-----------------------------------------------------------------------------
(***************************************************************************)
(* The REST server.                                                        *)
(***************************************************************************)
RestTypes ==
  /\ restPc \in {"idle", "auth", "unlock"} \cup Handlers
  /\ header \in Headers
  /\ heap \in Nat /\ lost \in Nat /\ heap <= HeapBufs

RestInv == RestTypes /\ OnlyAuthenticated /\ RestHeapAccounted

LEMMA RestInvStep == ASSUME RestInv, [Next]_vars PROVE RestInv'
<1> USE DEF RestInv, RestTypes, OnlyAuthenticated, RestHeapAccounted, Handlers, Headers
<1>1. CASE UNCHANGED restVars
  BY <1>1 DEF restVars
<1>2. CASE Restart
  BY <1>2 DEF Restart, RestRestarts
<1>3. ASSUME NEW h \in Headers, RestReceive(h) PROVE RestInv'
  BY <1>3 DEF RestReceive, Room
<1>4. CASE RestRefused
  BY <1>4 DEF RestRefused, RestGoes
<1>5. ASSUME NEW h \in Handlers, RestAccepted(h) PROVE RestInv'
  BY <1>5 DEF RestAccepted, RestGoes, Room, Matches
<1>6. CASE RestLock
  BY <1>6 DEF RestLock, RestGoes
<1>7. CASE RestUnlock
  BY <1>7 DEF RestUnlock, RestGoes
<1>8. CASE RestInfo
  BY <1>8 DEF RestInfo, RestGoes
<1>9. CASE RestBody
  BY <1>9 DEF RestBody, RestGoes, Room
<1>10. CASE RestTarget
  BY <1>10 DEF RestTarget, RestGoes
<1> QED
  <2>1. CASE RestServes BY <2>1, <1>3 DEF RestServes
  <2>2. CASE RestRuns BY <2>2, <1>7, <1>8, <1>9 DEF RestRuns, RestStep
  <2>3. CASE RestWaits BY <2>3, <1>4, <1>5, <1>6 DEF RestWaits, RestTakes
  <2>4. CASE RestCallsTarget /\ ~Restart
    BY <2>4, <1>10 DEF RestCallsTarget, CallsTarget
  <2>5. CASE TcpCallsTarget /\ ~Restart
    <3>1. UNCHANGED restVars BY <2>5 DEF TcpCallsTarget, CallsTarget
    <3> QED BY <3>1, <1>1
  <2>6. CASE ~(RestServes \/ RestRuns \/ RestWaits \/ RestCallsTarget \/ TcpCallsTarget \/ Restart)
    <3>1. UNCHANGED restVars
      BY <2>6, NextSteps DEF BootNvs, BootConfig, BootWifi, BootIp, BootNetwork, BootPart, BootOta,
         TachoCallsTarget, TargetRuns, SaveRuns, WifiRuns, vars
    <3> QED BY <3>1, <1>1
  <2> QED BY <2>1, <2>2, <2>3, <2>4, <2>5, <2>6, <1>2, NextSteps

LEMMA RestInvariance == Spec => []RestInv
<1>1. Init => RestInv
  BY DEF Init, RestInit, RestInv, RestTypes, OnlyAuthenticated, RestHeapAccounted, Handlers, Headers
<1> QED BY <1>1, RestInvStep, PTL DEF Spec

\* No request without the credentials gets past basic_auth_get_handler.
THEOREM Authenticated == Spec => []OnlyAuthenticated
BY RestInvariance, PTL DEF RestInv

\* Each buffer of the heap is in use or was lost by a request with the
\* credentials.
THEOREM BuffersAccounted == Spec => []RestHeapAccounted
BY RestInvariance, PTL DEF RestInv

-----------------------------------------------------------------------------
(***************************************************************************)
(* The configuration.                                                      *)
(***************************************************************************)
ConfigTypes ==
  /\ nvs \in Flash /\ durable \in Flash
  /\ ram \in [Keys -> Values \cup {"unset"}]
  /\ configMutex \in {Free, "saver", "rest"}
  /\ unloaded \subseteq Channels /\ nextKey \in 1 .. Len(DeviceKeys) + 1
  /\ saving \in Channels \cup {Free} /\ nextField \in 1 .. Len(Fields) + 1
  /\ kept \in [Keys -> Values \cup {"unset"}]

\* What is committed and what is written load alike, and so does what is
\* in memory: whichever writes survive a restart, the same is loaded again.
KeptKeys == Keys \ {TimeZone}

LoadsAlike ==
  \A k \in KeptKeys :
    /\ Loads(durable[k]) = Loads(nvs[k])
    /\ ram[k] \in {"unset", Loads(nvs[k])}
    /\ kept # NoConfig => kept[k] = Loads(nvs[k])

\* How far StartConfig is.
Progress ==
  /\ stage = "nvs" => ram = NoConfig /\ saving = Free
  /\ \A ch \in Channels \ unloaded : \A i \in DOMAIN Fields : ram[ChannelKey(ch, i)] # "unset"
  /\ \A i \in DOMAIN DeviceKeys : i < nextKey => ram[DeviceKey(i)] # "unset"
  /\ "config" \in started => Loaded /\ \A k \in KeptKeys : kept[k] # "unset"
  /\ saving # Free => "config" \in started

ConfigInv == BootInv /\ ConfigTypes /\ LoadsAlike /\ Progress

LEMMA Lengths ==
  /\ DOMAIN Fields = 1 .. Len(Fields) /\ Len(Fields) \in Nat
  /\ DOMAIN DeviceKeys = 1 .. Len(DeviceKeys) /\ Len(DeviceKeys) \in Nat
BY DEF ConfigAssumption

LEMMA ChannelKeyIn ==
  ASSUME NEW ch \in Channels, NEW i \in DOMAIN Fields
  PROVE  ChannelKey(ch, i) \in Keys /\ ChannelKey(ch, i)[1] = ch
BY DEF Keys, ChannelKeys, ChannelKey

LEMMA DeviceKeyIn == ASSUME NEW i \in DOMAIN DeviceKeys PROVE DeviceKey(i) \in Keys
BY DEF Keys

\* When StartConfig returns, every key has been loaded.
LEMMA AllLoaded ==
  ASSUME Progress, ConfigTypes, Loaded, NEW k \in Keys
  PROVE  ram[k] # "unset"
<1>1. CASE k \in ChannelKeys
  <2>1. PICK ch \in Channels, i \in DOMAIN Fields : k = ChannelKey(ch, i)
    BY <1>1 DEF ChannelKeys
  <2> QED BY <2>1 DEF Progress, Loaded
<1>2. CASE k \notin ChannelKeys
  <2>1. PICK i \in DOMAIN DeviceKeys : k = DeviceKey(i)
    BY <1>2 DEF Keys
  <2>2. i < nextKey
    BY Lengths DEF Loaded, ConfigTypes
  <2> QED BY <2>1, <2>2 DEF Progress
<1> QED BY <1>1, <1>2

LEMMA LoadsValue == \A v : Loads(v) \in Values /\ (v \in Values => Loads(v) = v)
BY DEF Loads, Values

\* The steps that change something of the configuration but the mutex.
LEMMA ConfigSteps ==
  ASSUME [Next]_vars
  PROVE  \/ UNCHANGED <<dataVars, stage, started>>
         \/ UNCHANGED dataVars /\ started \subseteq started' /\ stage' # "nvs" /\ stage \notin {"nvs", "config"}
         \/ Restart
         \/ BootNvs
         \/ stage = "config" /\ LoadKey /\ UNCHANGED <<stage, started>>
         \/ \E ch \in Channels : stage = "config" /\ LoadChannel(ch) /\ UNCHANGED <<stage, started>>
         \/ BootConfig
         \/ "config" \in started /\ Save /\ UNCHANGED <<stage, started>>
<1> USE DEF dataVars, configVars
<1>1. CASE UNCHANGED vars
  BY <1>1 DEF vars, bootVars
<1>2. CASE BootWifi \/ BootIp \/ BootNetwork \/ BootOta
  BY <1>2 DEF BootWifi, BootIp, BootNetwork, BootOta, Boots, After
<1>3. ASSUME NEW part \in {"pwm", "target", "tacho"}, BootPart(part)
      PROVE  UNCHANGED dataVars /\ started \subseteq started' /\ stage' # "nvs" /\ stage \notin {"nvs", "config"}
  BY <1>3 DEF BootPart, Boots, After
<1>4. CASE RestServes
  BY <1>4 DEF RestServes, RestReceive, Uses
<1>5. CASE RestRuns
  BY <1>5 DEF RestRuns, RestStep, RestInfo, RestBody, RestUnlock, bootVars
<1>6. CASE RestWaits
  BY <1>6 DEF RestWaits, RestTakes, RestRefused, RestAccepted, RestLock, bootVars
<1>7. CASE (RestCallsTarget \/ TcpCallsTarget) /\ ~Restart
  BY <1>7 DEF RestCallsTarget, TcpCallsTarget, CallsTarget, RestTarget, Uses
<1>8. CASE TachoCallsTarget \/ TargetRuns
  BY <1>8 DEF TachoCallsTarget, TargetRuns, Uses
<1>9. CASE WifiRuns
  BY <1>9 DEF WifiRuns, bootVars
<1> QED
  BY <1>1, <1>2, <1>3, <1>4, <1>5, <1>6, <1>7, <1>8, <1>9, NextSteps DEF SaveRuns, bootVars

\* The steps of the configuration one by one, on the data they share.
LEMMA RestartKeeps == ASSUME ConfigInv, Restart PROVE LoadsAlike' /\ Progress'
<1> USE DEF Restart, ConfigRestarts
<1>1. ASSUME NEW k \in KeptKeys
      PROVE  Loads(nvs'[k]) = Loads(nvs[k]) /\ durable'[k] = nvs'[k]
  BY <1>1 DEF ConfigInv, LoadsAlike, KeptKeys
<1>2. LoadsAlike'
  BY <1>1 DEF ConfigInv, LoadsAlike, NoConfig, KeptKeys
<1>3. Progress'
  BY Lengths DEF Progress
<1> QED BY <1>2, <1>3

LEMMA EraseKeeps == ASSUME ConfigInv, BootNvs PROVE LoadsAlike' /\ Progress'
<1> USE DEF BootNvs, Boots, After
<1>1. CASE UNCHANGED configVars
  BY <1>1 DEF ConfigInv, LoadsAlike, Progress, configVars, flashVars, loadVars, saveVars, BootInv, Loaded
<1>2. CASE NvsErase
  BY <1>2 DEF ConfigInv, LoadsAlike, Progress, NvsErase, NoConfig, KeptKeys, loadVars, saveVars, BootInv
<1> QED BY <1>1, <1>2

LEMMA LoadKeyKeeps ==
  ASSUME ConfigInv, stage = "config", LoadKey, UNCHANGED <<stage, started>>
  PROVE  LoadsAlike' /\ Progress'
<1> DEFINE key == DeviceKey(nextKey)
<1>1. key \in Keys /\ nvs[key] \in Values \cup {"absent", "unreadable"}
  BY DeviceKeyIn DEF LoadKey, ConfigInv, ConfigTypes, Flash
<1>2. ram' = [ram EXCEPT ![key] = Loads(nvs[key])]
  BY DEF LoadKey
<1>3. \A k \in Keys : Loads(nvs'[k]) = Loads(nvs[k])
  BY <1>1 DEF LoadKey, StoredDefault, Loads, Values, ConfigInv, ConfigTypes, Flash
<1>4. LoadsAlike'
  BY <1>2, <1>3, <1>1 DEF LoadKey, ConfigInv, LoadsAlike, KeptKeys, ConfigTypes, NoConfig
<1>5. \A k \in Keys : ram'[k] # ram[k] => ram'[k] \in Values
  BY <1>2, <1>1, LoadsValue DEF ConfigInv, ConfigTypes
<1>6. ram'[key] \in Values
  BY <1>2, <1>1, LoadsValue DEF ConfigInv, ConfigTypes
<1>7. Progress'
  <2>1. \A ch \in Channels \ unloaded' : \A i \in DOMAIN Fields : ram'[ChannelKey(ch, i)] # "unset"
    BY <1>5, ChannelKeyIn DEF LoadKey, ConfigInv, Progress, Values
  <2>2. \A i \in DOMAIN DeviceKeys : i < nextKey' => ram'[DeviceKey(i)] # "unset"
    BY <1>5, <1>6, DeviceKeyIn, Lengths DEF LoadKey, ConfigInv, Progress, Values, ConfigTypes
  <2> QED BY <2>1, <2>2 DEF LoadKey, ConfigInv, BootInv, Progress, saveVars
<1> QED BY <1>4, <1>7

LEMMA LoadChannelKeeps ==
  ASSUME ConfigInv, stage = "config", NEW ch \in Channels, LoadChannel(ch), UNCHANGED <<stage, started>>
  PROVE  LoadsAlike' /\ Progress'
<1>1. \A k \in Keys : ram'[k] = IF k[1] = ch THEN Loads(nvs[k]) ELSE ram[k]
  BY DEF LoadChannel
<1>2. LoadsAlike'
  BY <1>1 DEF LoadChannel, flashVars, ConfigInv, LoadsAlike, KeptKeys, NoConfig
<1>3. Progress'
  <2>1. \A c \in Channels \ unloaded' : \A i \in DOMAIN Fields : ram'[ChannelKey(c, i)] # "unset"
    BY <1>1, ChannelKeyIn, LoadsValue DEF LoadChannel, ConfigInv, Progress, Values
  <2>2. \A i \in DOMAIN DeviceKeys : i < nextKey' => ram'[DeviceKey(i)] # "unset"
    BY <1>1, DeviceKeyIn, LoadsValue DEF LoadChannel, ConfigInv, Progress, Values
  <2> QED BY <2>1, <2>2 DEF LoadChannel, ConfigInv, BootInv, Progress, saveVars
<1> QED BY <1>2, <1>3

LEMMA BootConfigKeeps == ASSUME ConfigInv, BootConfig PROVE LoadsAlike' /\ Progress'
<1> USE DEF BootConfig, ConfigLoaded, Boots, After
<1>1. \A k \in Keys : ram[k] # "unset"
  BY AllLoaded DEF ConfigInv
<1>2. \A k \in KeptKeys : kept'[k] = Loads(nvs[k])
  BY <1>1 DEF ConfigInv, LoadsAlike, KeptKeys
<1>3. LoadsAlike'
  BY <1>2 DEF ConfigInv, LoadsAlike, flashVars
<1>4. Progress'
  BY <1>2, LoadsValue DEF ConfigInv, Progress, flashVars, loadVars, saveVars, Loaded, BootInv, Values
<1> QED BY <1>3, <1>4

LEMMA SaveKeeps ==
  ASSUME ConfigInv, "config" \in started, Save, UNCHANGED <<stage, started>>
  PROVE  LoadsAlike' /\ Progress'
<1>1. stage \notin {"nvs", "config"} /\ Loaded
  BY DEF ConfigInv, BootInv, Progress
<1>2. ASSUME UNCHANGED <<ram, loadVars, kept>>,
             \A k \in KeptKeys : Loads(nvs'[k]) = Loads(nvs[k]),
             durable' \in {durable, nvs} /\ (durable' = nvs => nvs' = nvs)
      PROVE  LoadsAlike' /\ Progress'
  BY <1>1, <1>2 DEF ConfigInv, LoadsAlike, Progress, loadVars, Loaded
<1>3. ASSUME NEW ch \in Channels, SaveTake(ch) PROVE LoadsAlike' /\ Progress'
  BY <1>2, <1>3 DEF SaveTake, flashVars
<1>4. CASE SaveField
  <2> DEFINE key == ChannelKey(saving, nextField)
  <2>1. ram[key] = Loads(nvs[key]) \/ key \notin KeptKeys
    BY <1>1, <1>4, AllLoaded DEF ConfigInv, LoadsAlike, KeptKeys
  <2>2. nvs' = [nvs EXCEPT ![key] = ram[key]]
    BY <1>4 DEF SaveField
  <2>3. \A k \in KeptKeys : Loads(nvs'[k]) = Loads(nvs[k])
    BY <2>1, <2>2, LoadsValue DEF ConfigInv, ConfigTypes, Flash, KeptKeys
  <2>4. durable' = durable /\ UNCHANGED <<ram, loadVars, kept>>
    BY <1>4 DEF SaveField
  <2> QED BY <1>1, <2>3, <2>4 DEF ConfigInv, LoadsAlike, Progress, loadVars, Loaded
<1>5. CASE SaveFails \/ SaveCommit
  BY <1>2, <1>5 DEF SaveFails, SaveCommit, SaveEnds
<1>6. ASSUME NEW tz \in Values, SaveTZ(tz) PROVE LoadsAlike' /\ Progress'
  <2>1. \A k \in KeptKeys : nvs'[k] = nvs[k] /\ ram'[k] = ram[k]
    BY <1>6 DEF SaveTZ, ConfigInv, ConfigTypes, Flash, KeptKeys
  <2>2. \A k \in Keys : ram'[k] = ram[k] \/ ram'[k] = tz
    BY <1>6 DEF SaveTZ, ConfigInv, ConfigTypes
  <2>3. LoadsAlike'
    BY <1>6, <2>1 DEF SaveTZ, ConfigInv, LoadsAlike, NoConfig
  <2>4. Progress'
    BY <1>1, <1>6, <2>2, ChannelKeyIn, DeviceKeyIn
    DEF SaveTZ, ConfigInv, Progress, loadVars, saveVars, Loaded, Values
  <2> QED BY <2>3, <2>4
<1> QED BY <1>3, <1>4, <1>5, <1>6 DEF Save, SaveStep

LEMMA ConfigTypesStep == ASSUME ConfigInv, [Next]_vars PROVE ConfigTypes'
<1>0. ConfigTypes
  BY DEF ConfigInv
<1> USE <1>0
<1> USE DEF ConfigTypes
<1>1. CASE UNCHANGED configVars
  BY <1>1 DEF configVars, flashVars, loadVars, saveVars
<1>2. CASE UNCHANGED dataVars /\ configMutex' \in {Free, "rest"}
  BY <1>2 DEF dataVars, flashVars, loadVars, saveVars
<1>3. CASE Restart
  BY <1>3, Lengths DEF Restart, ConfigRestarts, Flash, NoConfig
<1>4. CASE BootNvs
  <2>1. CASE UNCHANGED configVars BY <2>1, <1>1
  <2>2. CASE NvsErase
    <3>1. nvs' \in Flash /\ durable' \in Flash /\ kept' \in [Keys -> Values \cup {"unset"}]
      BY <2>2 DEF NvsErase, Flash, NoConfig
    <3> QED BY <2>2, <3>1 DEF NvsErase, loadVars, saveVars
  <2> QED BY <1>4, <2>1, <2>2 DEF BootNvs
<1>5. CASE LoadKey
  <2> DEFINE key == DeviceKey(nextKey)
             old == nvs[key]
  <2>1. ram' = [ram EXCEPT ![key] = Loads(old)]
        /\ nvs' = [nvs EXCEPT ![key] = IF old \in Values THEN old ELSE StoredDefault]
    BY <1>5 DEF LoadKey
  <2>2. ram' \in [Keys -> Values \cup {"unset"}]
    BY <2>1, LoadsValue
  <2>3. (IF old \in Values THEN old ELSE StoredDefault) \in Values
    BY DEF StoredDefault, Values
  <2>4. nvs' \in Flash
    BY <2>1, <2>3 DEF Flash
  <2>5. nextKey' \in 1 .. Len(DeviceKeys) + 1
    BY <1>5, Lengths DEF LoadKey
  <2> QED BY <1>5, <2>2, <2>4, <2>5 DEF LoadKey, saveVars
<1>6. ASSUME NEW ch \in Channels, LoadChannel(ch) PROVE ConfigTypes'
  BY <1>6, LoadsValue DEF LoadChannel, flashVars, saveVars
<1>7. CASE BootConfig
  BY <1>7 DEF BootConfig, ConfigLoaded, flashVars, loadVars, saveVars
<1>8. CASE Save
  <2>1. ASSUME NEW ch \in Channels, SaveTake(ch) PROVE ConfigTypes'
    BY <2>1, Lengths DEF SaveTake, flashVars, loadVars
  <2>2. CASE SaveField
    <3> DEFINE key == ChannelKey(saving, nextField)
    <3>1. nvs' = [nvs EXCEPT ![key] = ram[key]]
      BY <2>2 DEF SaveField
    <3>2. saving \in Channels /\ nextField \in DOMAIN Fields
      BY <2>2 DEF SaveField
    <3>3. Progress /\ Loaded
      BY <2>2 DEF SaveField, ConfigInv, Progress
    <3>4. ram[key] \in Values
      BY <3>2, <3>3, AllLoaded, ChannelKeyIn
    <3>5. nvs' \in Flash
      BY <3>1, <3>4 DEF Flash
    <3>6. nextField' \in 1 .. Len(Fields) + 1
      BY <2>2, <3>2, Lengths DEF SaveField
    <3> QED BY <2>2, <3>5, <3>6 DEF SaveField, loadVars
  <2>3. CASE SaveFails \/ SaveCommit
    <3>1. SaveEnds /\ durable' \in {durable, nvs}
      BY <2>3 DEF SaveFails, SaveCommit
    <3>2. 1 \in 1 .. Len(Fields) + 1
      BY Lengths
    <3> QED BY <3>1, <3>2 DEF SaveEnds, loadVars
  <2>4. ASSUME NEW tz \in Values, SaveTZ(tz) PROVE ConfigTypes'
    BY <2>4 DEF SaveTZ, Flash, loadVars, saveVars
  <2> QED BY <1>8, <2>1, <2>2, <2>3, <2>4 DEF Save, SaveStep
<1>9. CASE RestServes \/ RestRuns \/ RestWaits \/ (RestCallsTarget /\ ~Restart)
  BY <1>1, <1>2, <1>9 DEF RestServes, RestRuns, RestWaits, RestReceive, RestStep, RestTakes, RestRefused,
     RestAccepted, RestInfo, RestBody, RestLock, RestUnlock, RestCallsTarget, CallsTarget, RestTarget, dataVars
<1> QED
  BY <1>1, <1>3, <1>4, <1>5, <1>6, <1>7, <1>8, <1>9, NextSteps DEF BootWifi, BootIp, BootNetwork, BootPart, BootOta,
     TcpCallsTarget, CallsTarget, TachoCallsTarget, TargetRuns, SaveRuns, WifiRuns, vars

LEMMA ConfigInvStep == ASSUME ConfigInv, [Next]_vars PROVE ConfigInv'
<1>1. BootInv' /\ ConfigTypes'
  BY BootStep, ConfigTypesStep DEF ConfigInv
<1>2. CASE UNCHANGED <<dataVars, stage, started>>
  BY <1>1, <1>2 DEF ConfigInv, dataVars, flashVars, loadVars, saveVars, LoadsAlike, Progress, Loaded
<1>3. CASE UNCHANGED dataVars /\ started \subseteq started' /\ stage' # "nvs" /\ stage \notin {"nvs", "config"}
  BY <1>1, <1>3 DEF ConfigInv, BootInv, dataVars, flashVars, loadVars, saveVars, LoadsAlike, Progress, Loaded
<1> QED
  BY <1>1, <1>2, <1>3, ConfigSteps, RestartKeeps, EraseKeeps, LoadKeyKeeps, LoadChannelKeeps, BootConfigKeeps, SaveKeeps
  DEF ConfigInv

LEMMA ConfigInvariance == Spec => []ConfigInv
<1>1. Init => ConfigInv
  BY Lengths DEF Init, ConfigInit, ConfigAssumption, ConfigInv, ConfigTypes, BootInv, LoadsAlike, Progress, KeptKeys,
     NoConfig, Stages, Flash
<1> QED BY <1>1, ConfigInvStep, PTL DEF Spec

\* A restart anywhere, and whichever uncommitted writes survive it, gives
\* the configuration that was in force, the time zone excepted.
THEOREM ConfigurationKept == Spec => []ConfigKept
<1>1. ConfigInv => ConfigKept
  <2>1. ASSUME ConfigInv, "config" \in started, NEW k \in Keys \ {TimeZone} PROVE ram[k] = kept[k]
    <3>1. ram[k] = Loads(nvs[k])
      BY <2>1, AllLoaded DEF ConfigInv, Progress, LoadsAlike, KeptKeys
    <3>2. kept # NoConfig
      BY <2>1 DEF ConfigInv, Progress, KeptKeys, NoConfig
    <3> QED BY <2>1, <3>1, <3>2 DEF ConfigInv, LoadsAlike, KeptKeys
  <2> QED BY <2>1 DEF ConfigKept
<1> QED BY <1>1, ConfigInvariance, PTL

-----------------------------------------------------------------------------
(***************************************************************************)
(* The mutex of the configuration.                                         *)
(***************************************************************************)
\* Who holds configMutex is where it takes it and has not given it back.
MutexInv ==
  /\ configMutex = "saver" <=> saving # Free
  /\ configMutex = "rest" <=> restPc = "unlock"
  /\ restPc # "idle" => "rest" \in started
  /\ saving # Free => "config" \in started

LEMMA RestMutexStep ==
  ASSUME MutexInv, RestInv, RestServes \/ RestRuns \/ RestWaits \/ (RestCallsTarget /\ ~Restart)
  PROVE  MutexInv'
<1> USE DEF MutexInv, Free
<1>1. CASE RestServes
  BY <1>1 DEF RestServes, Uses, RestReceive, configVars, saveVars
<1>2. CASE RestRuns
  <2>1. CASE RestInfo \/ RestBody
    BY <1>2, <2>1 DEF RestRuns, bootVars, RestInfo, RestBody, RestGoes, configVars, saveVars
  <2>2. CASE RestUnlock
    BY <1>2, <2>2 DEF RestRuns, bootVars, RestUnlock, RestGoes, saveVars
  <2> QED BY <1>2, <2>1, <2>2 DEF RestRuns, RestStep
<1>3. CASE RestWaits
  <2>1. CASE RestRefused
    BY <1>3, <2>1 DEF RestWaits, bootVars, RestRefused, RestGoes, configVars, saveVars
  <2>2. ASSUME NEW h \in Handlers, RestAccepted(h) PROVE MutexInv'
    BY <1>3, <2>2 DEF RestWaits, bootVars, RestAccepted, RestGoes, configVars, saveVars, Handlers
  <2>3. CASE RestLock
    BY <1>3, <2>3 DEF RestWaits, bootVars, RestLock, RestGoes, saveVars
  <2> QED BY <1>3, <2>1, <2>2, <2>3 DEF RestWaits, RestTakes
<1>4. CASE RestCallsTarget /\ ~Restart
  BY <1>4 DEF RestCallsTarget, CallsTarget, RestTarget, RestGoes, Uses, configVars, saveVars
<1> QED BY <1>1, <1>2, <1>3, <1>4

LEMMA SaveMutexStep == ASSUME MutexInv, ConfigTypes, SaveRuns PROVE MutexInv'
<1> USE DEF MutexInv, SaveRuns, restVars, bootVars
<1>1. ASSUME NEW ch \in Channels, SaveTake(ch) PROVE MutexInv'
  BY <1>1 DEF SaveTake, Free, ConfigAssumption
<1>2. CASE SaveField
  BY <1>2 DEF SaveField
<1>3. CASE SaveFails \/ SaveCommit
  BY <1>3 DEF SaveFails, SaveCommit, SaveEnds, Free
<1>4. ASSUME NEW tz \in Values, SaveTZ(tz) PROVE MutexInv'
  BY <1>4 DEF SaveTZ, saveVars
<1> QED BY <1>1, <1>2, <1>3, <1>4 DEF Save, SaveStep

LEMMA MutexStep == ASSUME MutexInv, BootInv, RestInv, ConfigTypes, [Next]_vars PROVE MutexInv'
<1> USE DEF MutexInv
<1>1. CASE UNCHANGED vars
  BY <1>1 DEF vars, configVars, saveVars, restVars, bootVars
<1>2. CASE Restart
  BY <1>2 DEF Restart, ConfigRestarts, RestRestarts, Free
<1>3. CASE BootNvs \/ BootConfig \/ BootWifi \/ BootIp \/ BootNetwork \/ BootOta \/ \E part \in {"pwm", "target", "tacho"} : BootPart(part)
  <2>1. UNCHANGED <<configMutex, saving, restPc>> /\ started \subseteq started'
    BY <1>3 DEF BootNvs, NvsErase, BootConfig, ConfigLoaded, BootWifi, BootIp, BootNetwork, BootOta, BootPart,
       Boots, configVars, saveVars, restVars
  <2> QED BY <2>1
<1>4. CASE stage = "config" /\ UNCHANGED <<restVars, bootVars>> /\ (LoadKey \/ \E ch \in Channels : LoadChannel(ch))
  BY <1>4 DEF LoadKey, LoadChannel, saveVars, restVars, bootVars
<1>5. CASE RestServes \/ RestRuns \/ RestWaits \/ (RestCallsTarget /\ ~Restart)
  BY <1>5, RestMutexStep
<1>6. CASE (TcpCallsTarget /\ ~Restart) \/ TachoCallsTarget \/ TargetRuns \/ WifiRuns
  BY <1>6 DEF TcpCallsTarget, CallsTarget, TachoCallsTarget, TargetRuns, WifiRuns, Uses,
     configVars, saveVars, restVars, bootVars
<1>7. CASE SaveRuns
  BY <1>7, SaveMutexStep
<1> QED BY <1>1, <1>2, <1>3, <1>4, <1>5, <1>6, <1>7, NextSteps

\* The mutex is held by a save, or by the REST server's answer, exactly from
\* where it is taken to where it is given: no way out of either keeps it, and
\* nobody gives back another's.
THEOREM MutexGivenBack == Spec => []MutexInv
<1>1. Init => MutexInv
  BY DEF Init, ConfigInit, RestInit, MutexInv, Free
<1>2. ConfigInv => BootInv /\ ConfigTypes
  BY DEF ConfigInv
<1> QED BY <1>1, <1>2, MutexStep, RestInvariance, ConfigInvariance, PTL DEF Spec

\* While anybody holds the mutex nobody changes the configuration in memory,
\* and only a save that holds it writes the flash: what is sent, or saved field
\* by field, is one configuration.
MutexProtects ==
  [][configMutex # Free /\ configMutex' # Free =>
       UNCHANGED <<ram, configMutex>> /\ (nvs' # nvs => configMutex = "saver")]_vars

THEOREM Protected == Spec => MutexProtects
<1>1. ASSUME MutexInv, ConfigInv, [Next]_vars, configMutex # Free, configMutex' # Free
      PROVE  UNCHANGED <<ram, configMutex>> /\ (nvs' # nvs => configMutex = "saver")
  <2>1. "config" \in started /\ stage \notin {"nvs", "config"}
    <3>1. "config" \in started \/ "rest" \in started
      BY <1>1 DEF MutexInv, ConfigInv, ConfigTypes, Free
    <3> QED BY <3>1, <1>1 DEF ConfigInv, BootInv
  <2>2. ~Restart /\ ~RestLock /\ ~RestUnlock
    BY <1>1 DEF Restart, ConfigRestarts, RestLock, RestUnlock
  <2>3. CASE SaveRuns
    BY <1>1, <2>3 DEF SaveRuns, Save, SaveTake, SaveStep, SaveField, SaveFails, SaveCommit, SaveEnds, SaveTZ, MutexInv
  <2>4. CASE ~SaveRuns
    <3>1. UNCHANGED configVars
      BY <1>1, <2>1, <2>2, <2>4, NextSteps DEF BootNvs, BootConfig, BootWifi, BootIp, BootNetwork, BootOta, BootPart, Boots,
         RestServes, RestReceive, RestRuns, RestStep, RestInfo, RestBody, RestWaits, RestTakes, RestRefused, RestAccepted,
         RestCallsTarget, RestTarget, TcpCallsTarget, CallsTarget, TachoCallsTarget, TargetRuns, WifiRuns, vars
    <3> QED BY <3>1 DEF configVars, flashVars
  <2> QED BY <2>3, <2>4
<1>2. MutexInv /\ ConfigInv /\ [Next]_vars =>
        [configMutex # Free /\ configMutex' # Free =>
           UNCHANGED <<ram, configMutex>> /\ (nvs' # nvs => configMutex = "saver")]_vars
  BY <1>1
<1> QED BY <1>2, MutexGivenBack, ConfigInvariance, PTL DEF Spec, MutexProtects

\* From the end of StartConfig to the next restart nothing but the time zone
\* changes in memory: the target component, which reads a channel's
\* configuration without the mutex, may take it for constant.
ConfigFixed ==
  [][started # {} /\ started' # {} => \A k \in Keys \ {TimeZone} : ram'[k] = ram[k]]_vars

THEOREM ConfigurationFixed == Spec => ConfigFixed
<1>1. ASSUME ConfigInv, [Next]_vars, started # {}, started' # {}, NEW k \in Keys \ {TimeZone}
      PROVE  ram'[k] = ram[k]
  <2>1. stage \notin {"nvs", "config"}
    BY <1>1 DEF ConfigInv, BootInv
  <2>2. ~Restart /\ ~BootNvs /\ ~BootConfig
    BY <1>1, <2>1 DEF Restart, BootNvs, BootConfig, Boots
  <2>3. CASE Save
    <3>1. ASSUME NEW tz \in Values, SaveTZ(tz) PROVE ram'[k] = ram[k]
      BY <1>1, <3>1 DEF SaveTZ, ConfigInv, ConfigTypes
    <3> QED BY <2>3, <3>1 DEF Save, SaveTake, SaveStep, SaveField, SaveFails, SaveCommit, SaveEnds
  <2> QED BY <1>1, <2>1, <2>2, <2>3, ConfigSteps DEF dataVars
<1>2. ConfigInv /\ [Next]_vars =>
        [started # {} /\ started' # {} => \A k \in Keys \ {TimeZone} : ram'[k] = ram[k]]_vars
  BY <1>1
<1> QED BY <1>2, ConfigInvariance, PTL DEF Spec, ConfigFixed

-----------------------------------------------------------------------------
(***************************************************************************)
(* The wait for an address.                                                *)
(***************************************************************************)
\* An address is got with the right credentials, after which nobody is asked
\* for others, and what app_main starts after its wait has one.
WifiInv ==
  /\ stage \in {"nvs", "config", "wifi"} => manager = "off" /\ station = "off" /\ ~gotIp
  /\ gotIp => creds = "good" /\ manager = "off"
  /\ stage \in {"nvs", "config", "wifi", "ip"} \/ gotIp
  /\ started \subseteq {"config"} \/ gotIp

LEMMA WifiInvStep == ASSUME BootInv, WifiInv, [Next]_vars PROVE WifiInv'
<1> USE DEF WifiInv
<1>1. CASE UNCHANGED <<wifiVars, stage, started>>
  BY <1>1 DEF wifiVars
<1>2. CASE Restart
  BY <1>2 DEF Restart, WifiRestarts
<1>3. CASE BootNvs
  BY <1>3 DEF BootNvs, WifiErased, wifiVars, Boots, After
<1>4. CASE BootConfig
  BY <1>4 DEF BootConfig, wifiVars, Boots, After, BootInv
<1>5. CASE BootWifi
  BY <1>5 DEF BootWifi, StartWIFI, Boots, After
<1>6. CASE BootIp \/ BootOta \/ \E part \in {"pwm", "target", "tacho"} : BootPart(part)
  <2>1. gotIp
    BY <1>6 DEF BootIp, BootOta, BootPart, Boots
  <2>2. UNCHANGED wifiVars
    BY <1>6 DEF BootIp, BootOta, BootPart
  <2>3. stage' \notin {"nvs", "config", "wifi"}
    BY <1>6 DEF BootIp, BootOta, BootPart, Boots, After
  <2> QED BY <2>1, <2>2, <2>3 DEF wifiVars
<1>7. CASE BootNetwork
  BY <1>7 DEF BootNetwork, wifiVars, Boots, After
<1>8. CASE WifiRuns
  <2>1. UNCHANGED <<stage, started>>
    BY <1>8 DEF WifiRuns, bootVars
  <2>2. CASE GotIp
    BY <2>1, <2>2 DEF GotIp
  <2>3. CASE Disconnected
    BY <2>1, <2>3 DEF Disconnected
  <2>4. CASE CredFail
    BY <2>1, <2>4 DEF CredFail
  <2>5. ASSUME NEW c \in {"good", "bad"}, CredRecv(c) PROVE WifiInv'
    BY <2>1, <2>5 DEF CredRecv
  <2> QED BY <1>8, <2>2, <2>3, <2>4, <2>5 DEF WifiRuns, WifiEvent
<1> QED
  BY <1>1, <1>2, <1>3, <1>4, <1>5, <1>6, <1>7, <1>8, NextSteps DEF RestServes, RestRuns, RestWaits, RestCallsTarget,
     TcpCallsTarget, CallsTarget, TachoCallsTarget, TargetRuns, Uses, SaveRuns, bootVars, vars

LEMMA WifiInvariance == Spec => [](BootInv /\ WifiInv)
<1>1. Init => BootInv /\ WifiInv
  BY DEF Init, WifiInit, BootInv, Stages, WifiInv
<1> QED BY <1>1, BootStep, WifiInvStep, PTL DEF Spec

\* A controller that a restart left with wrong credentials runs nothing but
\* StartWIFI: no server, no PWM and no control of a fan, as StartPWM and
\* StartTarget come after the wait for an address.
StrandedIdle == Stranded => started \subseteq {"config"}

THEOREM StrandedRunsNothing == Spec => []StrandedIdle
<1>1. WifiInv => StrandedIdle
  BY DEF WifiInv, StrandedIdle, Stranded
<1> QED BY <1>1, WifiInvariance, PTL

\* And it stays so through every restart, unless nvs_flash_init finds the flash
\* unusable and has it erased.
StrandedStays == [][Stranded => Stranded' \/ stage = "nvs"]_vars

THEOREM StrandedForEver == Spec => StrandedStays
<1>1. ASSUME BootInv, WifiInv, [Next]_vars, Stranded, stage # "nvs" PROVE Stranded'
  <2> USE <1>1 DEF Stranded
  <2>1. CASE UNCHANGED wifiVars
    BY <2>1 DEF wifiVars
  <2>2. CASE Restart
    BY <2>2 DEF Restart, WifiRestarts
  <2>3. CASE BootWifi
    BY <2>3 DEF BootWifi, StartWIFI
  <2>4. CASE WifiRuns
    BY <2>4 DEF WifiRuns, WifiEvent, GotIp, Disconnected, CredFail, CredRecv
  <2> QED
    BY <2>1, <2>2, <2>3, <2>4, NextSteps DEF BootNvs, Boots, BootConfig, BootIp, BootOta, BootPart, BootNetwork,
       RestServes, RestRuns, RestWaits, RestCallsTarget, TcpCallsTarget, CallsTarget, TachoCallsTarget, TargetRuns,
       Uses, SaveRuns, vars
<1>2. BootInv /\ WifiInv /\ [Next]_vars => [Stranded => Stranded' \/ stage = "nvs"]_vars
  BY <1>1
<1> QED BY <1>2, WifiInvariance, PTL DEF Spec, StrandedStays

-----------------------------------------------------------------------------
(***************************************************************************)
(* Types.                                                                  *)
(***************************************************************************)
LEMMA WifiTypesStep == ASSUME WifiTypeOK, [Next]_vars PROVE WifiTypeOK'
<1> USE DEF WifiTypeOK
<1>0. 0 \in 0 .. MaxRetries - 1
  BY DEF WifiAssumption
<1>1. CASE UNCHANGED wifiVars
  BY <1>1 DEF wifiVars
<1>2. CASE Restart
  BY <1>0, <1>2 DEF Restart, WifiRestarts
<1>3. CASE BootNvs
  BY <1>3 DEF BootNvs, WifiErased, wifiVars
<1>4. CASE BootWifi
  BY <1>4 DEF BootWifi, StartWIFI
<1>5. CASE WifiRuns
  <2>1. CASE GotIp BY <1>0, <2>1 DEF GotIp
  <2>2. CASE Disconnected BY <2>2 DEF Disconnected
  <2>3. CASE CredFail
    <3>1. retries' \in 0 .. MaxRetries - 1
      BY <1>0, <2>3 DEF CredFail, WifiAssumption
    <3> QED BY <2>3, <3>1 DEF CredFail
  <2>4. ASSUME NEW c \in {"good", "bad"}, CredRecv(c) PROVE WifiTypeOK'
    BY <2>4 DEF CredRecv
  <2> QED BY <1>5, <2>1, <2>2, <2>3, <2>4 DEF WifiRuns, WifiEvent
<1> QED
  BY <1>1, <1>2, <1>3, <1>4, <1>5, NextSteps DEF BootConfig, BootIp, BootNetwork, BootPart, BootOta,
     RestServes, RestRuns, RestWaits, RestCallsTarget, TcpCallsTarget, CallsTarget, TachoCallsTarget, TargetRuns,
     Uses, SaveRuns, vars

\* Every variable keeps to its type: the retries stay below their limit and
\* the buffers within the heap.
THEOREM TypeCorrect == Spec => []TypeOK
<1>1. Init => WifiTypeOK
  <2>1. 0 \in 0 .. MaxRetries - 1
    BY DEF WifiAssumption
  <2> QED BY <2>1 DEF Init, WifiInit, WifiTypeOK
<1>2. ConfigInv /\ RestInv /\ WifiTypeOK => TypeOK
  <2>1. RestInv => RestTypeOK
    BY DEF RestInv, RestTypes, RestHeapAccounted, RestTypeOK
  <2>2. ConfigInv => ConfigTypeOK /\ stage \in Stages /\ started \subseteq Parts /\ misused \subseteq Parts
    BY DEF ConfigInv, ConfigTypes, ConfigTypeOK, BootInv
  <2> QED BY <2>1, <2>2 DEF TypeOK
<1> QED BY <1>1, <1>2, WifiTypesStep, ConfigInvariance, RestInvariance, PTL DEF Spec
=============================================================================
