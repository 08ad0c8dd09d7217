-------------------------------- MODULE Rest --------------------------------
(***************************************************************************)
(* The REST server of src/network.c.  The HTTP library's one task calls    *)
(* the handlers, so that there is at most one request at a time, and what  *)
(* matters of it before it is authenticated are its credentials.  Which    *)
(* handler it goes to, and what the body of a POST is like, is chosen      *)
(* where it matters.  The heap's other users are left out.                 *)
(***************************************************************************)
EXTENDS Config

CONSTANT HeapBufs  \* bound: the buffers the heap has room for

ASSUME RestAssumption == HeapBufs \in Nat

\* The Authorization header, compared with the one http_auth_basic makes.
Headers == {"none", "right", "wrong", "prefix"}

\* Where the handlers go on after basic_auth_get_handler: info answers at
\* once, config waits for configMutex, the GETs of pwm, temp and data call
\* the target component, and the POSTs first receive their body.
Handlers == {"info", "lock", "target", "body"}

VARIABLES
  restPc,          \* where the handler is, "idle" between two requests
  header,          \* the Authorization header of the request
  heap,            \* the buffers allocated
  lost             \* history: those that authenticated requests have lost

restVars == <<restPc, header, heap, lost>>

RestInit == restPc = "idle" /\ header = "none" /\ heap = 0 /\ lost = 0

RestRestarts == restPc' = "idle" /\ header' = "none" /\ heap' = 0 /\ lost' = 0

\* Control goes on at pc; n more buffers are allocated, and m more lost.
RestGoes(pc, n, m) ==
  /\ restPc' = pc /\ heap' = heap + n /\ lost' = lost + m
  /\ header' = IF pc = "idle" THEN "none" ELSE header

Room(n) == heap + n <= HeapBufs

-----------------------------------------------------------------------------
\* A request, whose header is copied; without one, or without memory for
\* it, the answer is a 401 or a failure and nothing more happens.
RestReceive(h) ==
  /\ restPc = "idle" /\ h # "none" /\ Room(1)
  /\ restPc' = "auth" /\ header' = h /\ heap' = heap + 1
  /\ UNCHANGED <<lost, configVars>>

BugMatches(h) == h \in {"right", "prefix"}

\* strncmp over the header and its final zero byte.
Matches(h) == h = "right"

BugRestRefused ==
  /\ restPc = "auth" /\ configMutex = Free
  /\ Matches(header) => ~Room(1)
  /\ RestGoes("idle", 0, 0)
  /\ UNCHANGED configVars

\* http_auth_basic takes configMutex.  No memory for the credentials, or
\* they differ: what was allocated is freed.
RestRefused ==
  /\ restPc = "auth" /\ configMutex = Free
  /\ Matches(header) => ~Room(1)
  /\ RestGoes("idle", -1, 0)
  /\ UNCHANGED configVars

\* "Authenticated!": the header's copy and the credentials are both lost.
RestAccepted(h) ==
  /\ restPc = "auth" /\ configMutex = Free
  /\ Matches(header) /\ Room(1)
  /\ RestGoes(h, 1, 2)
  /\ UNCHANGED configVars

\* info_get_handler.
RestInfo == restPc = "info" /\ RestGoes("idle", 0, 0) /\ UNCHANGED configVars

\* The body of a POST is received and parsed.  Too long, not received or
\* not parsed it is refused; without the fields it should have too, and the
\* parsed object is lost.
RestBody ==
  /\ restPc = "body"
  /\ \/ Room(1) /\ RestGoes("target", 0, 0)
     \/ Room(1) /\ RestGoes("idle", 1, 1)
     \/ RestGoes("idle", 0, 0)
  /\ UNCHANGED configVars

\* The calls into the target component return, and the handler.
RestTarget == restPc = "target" /\ RestGoes("idle", 0, 0) /\ UNCHANGED configVars

\* config_get_handler: the answer is made and sent with configMutex held.
RestLock ==
  /\ restPc = "lock" /\ configMutex = Free
  /\ configMutex' = "rest"
  /\ RestGoes("unlock", 0, 0)
  /\ UNCHANGED <<flashVars, ram, loadVars, saveVars, kept>>

RestUnlock ==
  /\ restPc = "unlock"
  /\ configMutex' = Free
  /\ RestGoes("idle", 0, 0)
  /\ UNCHANGED <<flashVars, ram, loadVars, saveVars, kept>>

\* The steps that wait for configMutex, and those that do not.
RestTakes == RestRefused \/ RestLock \/ \E h \in Handlers : RestAccepted(h)
RestStep  == RestInfo \/ RestBody \/ RestUnlock

-----------------------------------------------------------------------------
RestTypeOK ==
  /\ restPc \in {"idle", "auth", "unlock"} \cup Handlers
  /\ header \in Headers
  /\ heap \in 0 .. HeapBufs /\ lost \in 0 .. HeapBufs

\* Only a request with the credentials of the configuration gets past
\* basic_auth_get_handler, to what shows the state or changes it.
OnlyAuthenticated == restPc \in Handlers \cup {"unlock"} => header = "right"

\* Every buffer is in use or was lost by a request with the right
\* credentials: those who do not have them cannot exhaust the heap, however
\* many requests they send.
RestHeapAccounted == heap = lost + (IF restPc = "auth" THEN 1 ELSE 0)
=============================================================================
