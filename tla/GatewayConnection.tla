------------------------- MODULE GatewayConnection -------------------------
(***************************************************************************)
(* The gateway's WhatsApp connection: the handlers of connection.update,   *)
(* the reconnect timer and its callback, the watchdog that ends a stalled  *)
(* process, and the marker file of the container's healthcheck.  One step  *)
(* is what the event loop runs between two awaits; a file operation takes  *)
(* effect in a step of its own, before the handler that awaits it resumes. *)
(*                                                                         *)
(* Baileys reports a socket's `open' once at most and its `close' once at  *)
(* most, and a socket without listeners reports to nobody.  Time is not    *)
(* modelled: a timer that is set fires some time later.                    *)
(***************************************************************************)
EXTENDS Naturals

CONSTANTS
    Timers,      \* setTimeout handles of reconnects; each also names its callback
    NoTimer,     \* reconnectTimer = null
    Main,        \* the top level of index.ts, which connects first
    Handlers,    \* calls of ConnectionUpdateEvent.run under way (bound)
    MaxAttempts  \* ConnectionUpdateEvent.maxReconnectAttempts

ASSUME ConnectionAssumption ==
    /\ NoTimer \notin Timers
    /\ Main \notin Timers
    /\ Handlers \cap (Timers \cup {Main}) = {}
    /\ MaxAttempts \in Nat \ {0}

VARIABLES
    up,            \* the process runs
    sock,          \* Resenhazord2.socket and what became of it
    listening,     \* connection.update of that socket has its listener
    reported,      \* the handler was told that the socket is open
    step,          \* step[c]: the await at which a connecting caller is
                   \* suspended, "set" for a timer that has not fired
    ref,           \* ConnectionUpdateEvent.reconnectTimer
    reconnecting,  \* ConnectionUpdateEvent.isReconnecting
    attempts,      \* ConnectionUpdateEvent.reconnectAttempts
    handler,       \* handler[h]: the await at which h is suspended
    watchdog,      \* ConnectionWatchdog: "off", "armed", "due" or "disabled"
    forwarder,     \* Resenhazord2.brokerForwarder is set
    marker         \* the marker file exists

socketVars == <<sock, listening, reported>>
timerVars  == <<step, ref, reconnecting, attempts>>
resetVars  == <<up, socketVars, watchdog, forwarder>>
vars == <<up, sock, listening, reported, step, ref, reconnecting, attempts,
          handler, watchdog, forwarder, marker>>

Callers == Timers \cup {Main}
\* Awaiting socket.end, broker.close, getAuthState, getSocket, connectBroker.
Flow    == {"end", "close", "auth", "socket", "broker"}
Opening == {"write", "opened"}
Reasons == {"retry", "skip", "unpaired"}
Closing == {"unlink", "closed"}

Runs == [at : Opening \cup Closing \cup {"idle"}, reason : Reasons]
Idle == [at |-> "idle", reason |-> "retry"]

TypeOK ==
    /\ up \in BOOLEAN
    /\ sock \in {"none", "connecting", "open", "closed"}
    /\ listening \in BOOLEAN
    /\ reported \in BOOLEAN
    /\ step \in [Callers -> Flow \cup {"idle", "set"}]
    /\ step[Main] # "set"
    /\ ref \in Timers \cup {NoTimer}
    /\ reconnecting \in BOOLEAN
    /\ attempts \in 0..MaxAttempts
    /\ handler \in [Handlers -> Runs]
    /\ watchdog \in {"off", "armed", "due", "disabled"}
    /\ forwarder \in BOOLEAN
    /\ marker \in BOOLEAN

\* Only Main is at `at'.
Starting(at) == [c \in Callers |-> IF c = Main THEN at ELSE "idle"]

Init ==
    /\ up = TRUE
    /\ sock = "none" /\ listening = FALSE /\ reported = FALSE
    /\ step = Starting("auth")
    /\ ref = NoTimer /\ reconnecting = FALSE /\ attempts = 0
    /\ handler = [h \in Handlers |-> Idle]
    /\ watchdog = "armed"
    /\ forwarder = FALSE
    /\ marker = FALSE

-----------------------------------------------------------------------------
(* Parts of the handlers. *)

\* ConnectionWatchdog.arm: the timeout starts anew.
Arm == watchdog' = IF watchdog = "disabled" THEN "disabled" ELSE "armed"

Disarm == watchdog' = IF watchdog = "disabled" THEN "disabled" ELSE "off"

\* The steps `s' after clearTimeout(reconnectTimer): a callback that has started
\* runs on.
Cleared(s) == [c \in Callers |-> IF c = ref /\ s[c] = "set" THEN "idle" ELSE s[c]]

\* ConnectionUpdateEvent.reset.
Reset ==
    /\ attempts' = 0
    /\ reconnecting' = FALSE
    /\ step' = Cleared(step)
    /\ ref' = NoTimer

\* Mutant: the attempt is not counted.
ScheduleUncounted(t, s) ==
    /\ s[t] = "idle"
    /\ IF attempts < MaxAttempts
       THEN attempts' = attempts /\ step' = [s EXCEPT ![t] = "set"] /\ ref' = t
       ELSE attempts' = 0 /\ step' = Cleared(s) /\ ref' = NoTimer

\* Mutant: one attempt more than the maximum.
ScheduleOneMore(t, s) ==
    /\ s[t] = "idle"
    /\ IF attempts <= MaxAttempts
       THEN attempts' = attempts + 1 /\ step' = [s EXCEPT ![t] = "set"] /\ ref' = t
       ELSE attempts' = 0 /\ step' = Cleared(s) /\ ref' = NoTimer

\* ConnectionUpdateEvent.scheduleReconnect, as timer t, from the steps s: the
\* timer is set and its handle overwrites reconnectTimer, or, after the last
\* attempt, everything is reset.
Schedule(t, s) ==
    /\ s[t] = "idle"
    /\ IF attempts < MaxAttempts
       THEN attempts' = attempts + 1 /\ step' = [s EXCEPT ![t] = "set"] /\ ref' = t
       ELSE attempts' = 0 /\ step' = Cleared(s) /\ ref' = NoTimer

Free(h) == handler[h].at = "idle"

Await(h, at, reason) == handler' = [handler EXCEPT ![h] = [at |-> at, reason |-> reason]]

-----------------------------------------------------------------------------
(* The process. *)

\* Docker starts the container again, with the file it left, or a deployment
\* starts a new one: index.ts connects.
Boot ==
    /\ ~up
    /\ up' = TRUE
    /\ step' = Starting("auth")
    /\ watchdog' = "armed"
    /\ marker' \in {marker, FALSE}
    /\ UNCHANGED <<socketVars, ref, reconnecting, attempts, handler, forwarder>>

\* What the process kept in memory is gone.
Stop ==
    /\ up' = FALSE
    /\ sock' = "none" /\ listening' = FALSE /\ reported' = FALSE
    /\ step' = Starting("idle")
    /\ ref' = NoTimer /\ reconnecting' = FALSE /\ attempts' = 0
    /\ handler' = [h \in Handlers |-> Idle]
    /\ watchdog' = "off"
    /\ forwarder' = FALSE
    /\ UNCHANGED marker

\* The process ends: a signal, a kill.
Exit == up /\ Stop

\* ConnectionWatchdog.expire.
Expire == watchdog = "due" /\ Stop

\* The 120 seconds pass.
Age ==
    /\ watchdog = "armed"
    /\ watchdog' = "due"
    /\ UNCHANGED <<up, socketVars, timerVars, handler, forwarder, marker>>

-----------------------------------------------------------------------------
(* connection.update. *)

\* Baileys opens the connection; with a listener, run() disarms the watchdog
\* and writes the marker.
SocketOpens ==
    /\ sock = "connecting"
    /\ sock' = "open"
    /\ \/ /\ listening
          /\ \E h \in Handlers : Free(h) /\ Await(h, "write", "retry")
          /\ reported' = TRUE
          /\ Disarm
       \/ ~listening /\ UNCHANGED <<reported, handler, watchdog>>
    /\ UNCHANGED <<up, listening, timerVars, forwarder, marker>>

\* Baileys closes it, for a reason after which the gateway reconnects, does
\* not, or finds itself unpaired; with a listener, handleClose clears the
\* pending reconnect and removes the marker.
SocketCloses(reason) ==
    /\ sock \in {"connecting", "open"}
    /\ sock' = "closed"
    /\ reported' = FALSE
    /\ \/ /\ listening
          /\ \E h \in Handlers : Free(h) /\ Await(h, "unlink", reason)
          /\ step' = Cleared(step)
          /\ ref' = NoTimer
       \/ ~listening /\ UNCHANGED <<step, ref, handler>>
    /\ UNCHANGED <<up, listening, reconnecting, attempts, watchdog, forwarder, marker>>

\* writeFile takes effect.
MarkerWritten(h) ==
    /\ handler[h].at = "write"
    /\ marker' = TRUE
    /\ Await(h, "opened", "retry")
    /\ UNCHANGED <<resetVars, timerVars>>

\* writeFile fails: the rejection is logged, and nothing is reset.
MarkOpenFails(h) ==
    /\ handler[h].at = "write"
    /\ Await(h, "idle", "retry")
    /\ UNCHANGED <<resetVars, timerVars, marker>>

\* run() resumes after the write.
Opened(h) ==
    /\ handler[h].at = "opened"
    /\ Reset
    /\ Await(h, "idle", "retry")
    /\ UNCHANGED <<resetVars, marker>>

\* unlink takes effect; a file that is not there is no error.
MarkerRemoved(h) ==
    /\ handler[h].at = "unlink"
    /\ marker' = FALSE
    /\ Await(h, "closed", handler[h].reason)
    /\ UNCHANGED <<resetVars, timerVars>>

\* Mutant: the watchdog is armed only when a reconnect is scheduled later on.
ClosedUnarmed(h) ==
    /\ handler[h].at = "closed"
    /\ CASE handler[h].reason = "unpaired" -> Reset /\ watchdog' = "disabled"
         [] handler[h].reason = "skip"     -> Reset /\ UNCHANGED watchdog
         [] OTHER -> /\ \E t \in Timers : Schedule(t, step)
                     /\ reconnecting' = (reconnecting /\ attempts < MaxAttempts)
                     /\ Arm
    /\ Await(h, "idle", "retry")
    /\ UNCHANGED <<up, socketVars, forwarder, marker>>

\* handleClose resumes after the unlink.
Closed(h) ==
    /\ handler[h].at = "closed"
    /\ \/ /\ handler[h].reason = "unpaired"
          /\ Reset
          /\ watchdog' = "disabled"
       \/ /\ handler[h].reason = "skip"
          /\ Reset
          /\ Arm
       \/ /\ handler[h].reason = "retry"
          /\ \E t \in Timers : Schedule(t, step)
          /\ reconnecting' = (reconnecting /\ attempts < MaxAttempts)
          /\ Arm
    /\ Await(h, "idle", "retry")
    /\ UNCHANGED <<up, socketVars, forwarder, marker>>

-----------------------------------------------------------------------------
(* The reconnect timer's callback and connectToWhatsApp. *)

\* Mutant: the old socket keeps its listeners while it is being closed.
FireListening(t) ==
    /\ step[t] = "set"
    /\ IF reconnecting
       THEN step' = [step EXCEPT ![t] = "idle"] /\ UNCHANGED reconnecting
       ELSE /\ reconnecting' = TRUE
            /\ step' = [step EXCEPT ![t] = IF sock = "none" THEN "close" ELSE "end"]
    /\ UNCHANGED <<up, sock, listening, reported, ref, attempts, handler, watchdog,
                   forwarder, marker>>

\* The timer fires.  Unless a reconnect is under way, cleanup() removes the
\* old socket's listeners and ends it.
Fire(t) ==
    /\ step[t] = "set"
    /\ IF reconnecting
       THEN step' = [step EXCEPT ![t] = "idle"] /\ UNCHANGED <<listening, reconnecting, forwarder>>
       ELSE /\ reconnecting' = TRUE
            /\ step' = [step EXCEPT ![t] = IF sock = "none" THEN "close" ELSE "end"]
            /\ listening' = (listening /\ sock = "none")
            /\ forwarder' = (forwarder /\ sock # "none")
    /\ UNCHANGED <<up, sock, reported, ref, attempts, handler, watchdog, marker>>

\* Mutant: cleanup() forgets brokerForwarder.
SocketEndedKept(t) ==
    /\ step[t] = "end"
    /\ sock' = "none"
    /\ step' = [step EXCEPT ![t] = "close"]
    /\ UNCHANGED <<up, listening, reported, ref, reconnecting, attempts, handler,
                   watchdog, forwarder, marker>>

\* socket.end resumes or raises: cleanup() drops the socket, its adapter and
\* the forwarder, and closes the broker.
SocketEnded(t) ==
    /\ step[t] = "end"
    /\ sock' = "none"
    /\ forwarder' = FALSE
    /\ step' = [step EXCEPT ![t] = "close"]
    /\ UNCHANGED <<up, listening, reported, ref, reconnecting, attempts, handler,
                   watchdog, marker>>

\* The broker is closed: connectToWhatsApp arms the watchdog and reads the
\* credentials.
BrokerClosed(t) ==
    /\ step[t] = "close"
    /\ step' = [step EXCEPT ![t] = "auth"]
    /\ Arm
    /\ UNCHANGED <<up, socketVars, ref, reconnecting, attempts, handler, forwarder, marker>>

AuthDone(c) ==
    /\ step[c] = "auth"
    /\ step' = [step EXCEPT ![c] = "socket"]
    /\ UNCHANGED <<resetVars, ref, reconnecting, attempts, handler, marker>>

\* getSocket returns a socket, which connects from now on, and the broker is
\* connected next.
SocketCreated(c) ==
    /\ step[c] = "socket"
    /\ step' = [step EXCEPT ![c] = "broker"]
    /\ sock' = "connecting"
    /\ listening' = FALSE
    /\ reported' = FALSE
    /\ UNCHANGED <<up, ref, reconnecting, attempts, handler, watchdog, forwarder, marker>>

\* connectBroker returns, having set the forwarder or failed before that, and
\* handlerEvents registers the listeners.  Nothing else runs in between:
\* handlerEvents awaits no promise that is pending.
BrokerDone(c) ==
    /\ step[c] = "broker"
    /\ step' = [step EXCEPT ![c] = "idle"]
    /\ listening' = (sock # "none")
    /\ forwarder' \in {TRUE, forwarder}
    /\ reconnecting' = (reconnecting /\ c = Main)
    /\ UNCHANGED <<up, sock, reported, ref, attempts, handler, watchdog, marker>>

\* broker.close, getAuthState or getSocket raises.  A callback schedules the
\* next attempt; index.ts has nobody to catch it, and the process stays.
FlowFails(c) ==
    /\ step[c] \in {"close", "auth", "socket"}
    /\ LET rest == [step EXCEPT ![c] = "idle"]
       IN  IF c = Main
           THEN step' = rest /\ UNCHANGED <<ref, reconnecting, attempts>>
           ELSE /\ \E t \in Timers : Schedule(t, rest)
                /\ reconnecting' = FALSE
    /\ UNCHANGED <<resetVars, handler, marker>>

Next ==
    \/ Boot
    \/ Exit
    \/ Expire
    \/ Age
    \/ SocketOpens
    \/ \E reason \in Reasons : SocketCloses(reason)
    \/ \E h \in Handlers : \/ MarkerWritten(h) \/ MarkOpenFails(h) \/ Opened(h)
                           \/ MarkerRemoved(h) \/ Closed(h)
    \/ \E t \in Timers : Fire(t) \/ SocketEnded(t) \/ BrokerClosed(t)
    \/ \E c \in Callers : AuthDone(c) \/ SocketCreated(c) \/ BrokerDone(c) \/ FlowFails(c)

Spec == Init /\ [][Next]_vars

\* File operations return and their handler is resumed, a watchdog that is
\* armed expires, and Docker restarts a process that ended.  Nothing obliges
\* the network, the stores or the reconnect timer to make progress.
Fairness ==
    /\ WF_vars(Boot)
    /\ WF_vars(Age)
    /\ WF_vars(Expire)
    /\ \A h \in Handlers : WF_vars(MarkerRemoved(h)) /\ WF_vars(Closed(h))

FairSpec == Spec /\ Fairness

-----------------------------------------------------------------------------
(* Properties. *)

Connected == reported

CloseHandlers == {h \in Handlers : handler[h].at \in Closing}

Connecting == {c \in Callers : step[c] # "idle"}

\* A gateway that is not connected, and not waiting for a human to pair it,
\* has its watchdog running, or a close handler on its way to start it: no
\* order of opening, closing and reconnecting leaves it alive and mute.
StallCovered ==
    up /\ watchdog = "off" => Connected \/ CloseHandlers # {}

\* One reconnect at a time: of the close handlers on their way, the timers
\* that are set and the connections being made there is one at most; a timer
\* that is set can still be cleared, and a socket that is being replaced
\* reports to nobody.
OneReconnect ==
    /\ \A a, b \in CloseHandlers \cup Connecting : a = b
    /\ \A t \in Timers : step[t] = "set" => ref = t
    /\ \A c \in Callers : step[c] \in Flow => ~listening

\* Events reach the gateway, and commands its forwarder, only while there is a
\* socket and an adapter to answer with.
AdapterReady == listening \/ forwarder => sock # "none"

\* A gateway that is not connected does not stay so: it connects, its process
\* ends and is started again, or a human has to pair it.
StallEnds == up /\ ~Connected ~> Connected \/ ~up \/ watchdog = "disabled"
=============================================================================
