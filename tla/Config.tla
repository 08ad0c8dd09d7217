------------------------------- MODULE Config -------------------------------
(***************************************************************************)
(* The configuration: src/fanconfig.c with the flash (NVS) it reads at     *)
(* boot and writes, and the copy in memory that the rest of the firmware   *)
(* uses under configMutex.  A key of the flash is a pair of a namespace    *)
(* and a name.  The flash promises to keep what was written only once it   *)
(* is committed: of the rest, each write may or may not survive a restart. *)
(***************************************************************************)
EXTENDS Integers, Sequences

CONSTANTS
  Channels,        \* the channels' namespaces, "device-0" and so on
  Fields,          \* the names in each of them, in the order they are saved
  DeviceKeys,      \* the names in "fanconfig", in the order they are loaded
  Stored           \* what the flash may hold when the controller is first used

ChannelKey(ch, i) == <<ch, Fields[i]>>
DeviceKey(i)      == <<"fanconfig", DeviceKeys[i]>>
TimeZone          == <<"fanconfig", "timezone">>

ChannelKeys == {ChannelKey(ch, i) : ch \in Channels, i \in DOMAIN Fields}
Keys == ChannelKeys \cup {DeviceKey(i) : i \in DOMAIN DeviceKeys}

\* A value is the firmware's default or another; a key of the flash can
\* also be absent, or not readable (too long for the field, damaged).
Values == {"default", "custom"}
Flash  == [Keys -> Values \cup {"absent", "unreadable"}]
NoConfig == [k \in Keys |-> "unset"]

Free == "free"

ASSUME ConfigAssumption ==
  /\ Channels \subseteq STRING /\ "fanconfig" \notin Channels /\ Free \notin Channels
  /\ Fields \in Seq(STRING) /\ DeviceKeys \in Seq(STRING)
  /\ Stored \subseteq Flash

VARIABLES
  nvs,             \* what reading the flash gives
  durable,         \* what it gives after a restart that loses all that is not committed
  ram,             \* channelConfig and deviceConfig
  configMutex,     \* its holder, Free if nobody
  unloaded,        \* StartConfig's progress: the channels still to be loaded,
  nextKey,         \*   then the index in DeviceKeys
  saving,          \* the channel of a saveChannelConfig in progress, and the index in
  nextField,       \*   Fields it has come to
  kept             \* history: the configuration in force since the flash was last erased

flashVars  == <<nvs, durable>>
loadVars   == <<unloaded, nextKey>>
saveVars   == <<saving, nextField>>
configVars == <<flashVars, ram, configMutex, loadVars, saveVars, kept>>

Loaded == unloaded = {} /\ nextKey > Len(DeviceKeys)

ConfigInit ==
  /\ ram = NoConfig /\ configMutex = Free
  /\ unloaded = Channels /\ nextKey = 1 /\ saving = Free /\ nextField = 1
  /\ nvs \in Stored /\ durable = nvs /\ kept = NoConfig

\* The memory is lost, and of each key what is written or what is durable is left.
ConfigRestarts ==
  /\ ram' = NoConfig /\ configMutex' = Free
  /\ unloaded' = Channels /\ nextKey' = 1 /\ saving' = Free /\ nextField' = 1
  /\ nvs' \in Flash /\ \A k \in Keys : nvs'[k] \in {nvs[k], durable[k]}
  /\ durable' = nvs'
  /\ UNCHANGED kept

-----------------------------------------------------------------------------
(***************************************************************************)
(* StartConfig.  Nobody else runs yet.                                     *)
(***************************************************************************)
\* nvs_flash_init finds no free pages, or a new version: all is erased.
NvsErase ==
  /\ nvs' = [k \in Keys |-> "absent"] /\ durable' = nvs'
  /\ kept' = NoConfig
  /\ UNCHANGED <<ram, configMutex, loadVars, saveVars>>

\* What is used for a key: what is stored, else its default.
Loads(v) == IF v \in Values THEN v ELSE "default"

ChannelReadable(ch) == \A i \in DOMAIN Fields : nvs[ChannelKey(ch, i)] # "unreadable"

\* loadChannelConfig.  A default is not written.
LoadChannel(ch) ==
  /\ ch \in unloaded /\ ChannelReadable(ch)
  /\ ram' = [k \in Keys |-> IF k[1] = ch THEN Loads(nvs[k]) ELSE ram[k]]
  /\ unloaded' = unloaded \ {ch}
  /\ UNCHANGED <<flashVars, configMutex, nextKey, saveVars, kept>>

BugStoredDefault == "custom"

\* What is stored for a device key that cannot be read.
StoredDefault == "default"

\* The next key of deviceConfig.  On any error its default is used, and
\* written without a commit.
LoadKey ==
  LET k == DeviceKey(nextKey) IN
  /\ unloaded = {} /\ nextKey \in DOMAIN DeviceKeys
  /\ ram' = [ram EXCEPT ![k] = Loads(nvs[k])]
  /\ nvs' = [nvs EXCEPT ![k] = IF @ \in Values THEN @ ELSE StoredDefault]
  /\ nextKey' = nextKey + 1
  /\ UNCHANGED <<durable, configMutex, unloaded, saveVars, kept>>

\* StartConfig returns.
ConfigLoaded ==
  /\ Loaded
  /\ kept' = IF kept = NoConfig THEN ram ELSE kept
  /\ UNCHANGED <<flashVars, ram, configMutex, loadVars, saveVars>>

-----------------------------------------------------------------------------
(***************************************************************************)
(* saveChannelConfig and saveTZ, which are exported and have no caller in  *)
(* the repository yet: here anyone calls them once the configuration is    *)
(* loaded.                                                                 *)
(***************************************************************************)
SaveTake(ch) ==
  /\ Loaded /\ configMutex = Free
  /\ configMutex' = "saver" /\ saving' = ch /\ nextField' = 1
  /\ UNCHANGED <<flashVars, ram, loadVars, kept>>

SaveField ==
  /\ saving # Free /\ nextField \in DOMAIN Fields
  /\ LET k == ChannelKey(saving, nextField) IN nvs' = [nvs EXCEPT ![k] = ram[k]]
  /\ nextField' = nextField + 1
  /\ UNCHANGED <<durable, ram, configMutex, loadVars, saving, kept>>

\* The save is over, and the mutex given.
SaveEnds ==
  /\ configMutex' = Free /\ saving' = Free /\ nextField' = 1
  /\ UNCHANGED <<nvs, ram, loadVars, kept>>

BugSaveFails ==
  /\ saving # Free
  /\ saving' = Free /\ nextField' = 1
  /\ UNCHANGED <<flashVars, ram, configMutex, loadVars, kept>>

\* nvs_open, a write or the commit fails: the rest is not written.
SaveFails == saving # Free /\ SaveEnds /\ UNCHANGED durable

SaveCommit ==
  /\ saving # Free /\ nextField > Len(Fields)
  /\ SaveEnds /\ durable' = nvs

\* The time zone is written, not committed, and used from now on.
SaveTZ(tz) ==
  /\ Loaded /\ configMutex = Free
  /\ nvs' = [nvs EXCEPT ![TimeZone] = tz]
  /\ ram' = [ram EXCEPT ![TimeZone] = tz]
  /\ UNCHANGED <<durable, configMutex, loadVars, saveVars, kept>>

SaveStep == SaveField \/ SaveFails \/ SaveCommit

Save == \/ \E ch \in Channels : SaveTake(ch)
        \/ SaveStep
        \/ \E tz \in Values : SaveTZ(tz)

-----------------------------------------------------------------------------
ConfigTypeOK ==
  /\ nvs \in Flash /\ durable \in Flash
  /\ ram \in [Keys -> Values \cup {"unset"}]
  /\ configMutex \in {Free, "saver", "rest"}
  /\ unloaded \subseteq Channels /\ nextKey \in 1 .. Len(DeviceKeys) + 1
  /\ saving \in Channels \cup {Free} /\ nextField \in 1 .. Len(Fields) + 1
  /\ kept \in [Keys -> Values \cup {"unset"}]
=============================================================================
