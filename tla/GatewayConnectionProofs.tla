---------------------- MODULE GatewayConnectionProofs ----------------------
(* Proofs about GatewayConnection, for every set of timers and handlers.   *)
EXTENDS GatewayConnection, TLAPS

LEMMA IdleType == Idle \in Runs
  BY DEF Idle, Runs, Reasons

LEMMA AwaitType ==
    ASSUME TypeOK, NEW h \in Handlers,
           NEW at \in Opening \cup Closing \cup {"idle"}, NEW reason \in Reasons,
           Await(h, at, reason)
    PROVE  handler' \in [Handlers -> Runs]
  BY DEF TypeOK, Await, Runs

LEMMA ClearedType ==
    ASSUME NEW s \in [Callers -> Flow \cup {"idle", "set"}], s[Main] # "set"
    PROVE  /\ Cleared(s) \in [Callers -> Flow \cup {"idle", "set"}]
           /\ Cleared(s)[Main] # "set"
  BY DEF Cleared, Callers

LEMMA ResetType ==
    ASSUME TypeOK, Reset
    PROVE  /\ attempts' \in 0..MaxAttempts
           /\ reconnecting' \in BOOLEAN
           /\ step' \in [Callers -> Flow \cup {"idle", "set"}]
           /\ step'[Main] # "set"
           /\ ref' \in Timers \cup {NoTimer}
<1>1. step' \in [Callers -> Flow \cup {"idle", "set"}] /\ step'[Main] # "set"
  BY ClearedType DEF TypeOK, Reset
<1>2. reconnecting' \in BOOLEAN
  BY Zenon DEF Reset
<1>3. attempts' \in 0..MaxAttempts /\ ref' \in Timers \cup {NoTimer}
  BY ConnectionAssumption DEF Reset
<1> QED
  BY <1>1, <1>2, <1>3

LEMMA ScheduleType ==
    ASSUME TypeOK, NEW t \in Timers,
           NEW s \in [Callers -> Flow \cup {"idle", "set"}], s[Main] # "set",
           Schedule(t, s)
    PROVE  /\ attempts' \in 0..MaxAttempts
           /\ step' \in [Callers -> Flow \cup {"idle", "set"}]
           /\ step'[Main] # "set"
           /\ ref' \in Timers \cup {NoTimer}
<1>1. CASE attempts < MaxAttempts
  BY <1>1, ConnectionAssumption DEF TypeOK, Schedule, Callers
<1>2. CASE ~(attempts < MaxAttempts)
  BY <1>2, ClearedType, ConnectionAssumption DEF TypeOK, Schedule
<1> QED
  BY <1>1, <1>2

LEMMA StartingType ==
    ASSUME NEW at \in {"idle", "auth"}
    PROVE  /\ Starting(at) \in [Callers -> Flow \cup {"idle", "set"}]
           /\ Starting(at)[Main] # "set"
  BY DEF Starting, Callers, Flow

LEMMA TypeInit == Init => TypeOK
<1>1. ASSUME Init
      PROVE  handler \in [Handlers -> Runs]
  BY <1>1, IdleType DEF Init
<1>2. ASSUME Init
      PROVE  step \in [Callers -> Flow \cup {"idle", "set"}] /\ step[Main] # "set"
  BY <1>2, StartingType DEF Init
<1>3. ASSUME Init
      PROVE  /\ up \in BOOLEAN /\ listening \in BOOLEAN /\ reported \in BOOLEAN
             /\ reconnecting \in BOOLEAN /\ forwarder \in BOOLEAN /\ marker \in BOOLEAN
             /\ attempts \in 0..MaxAttempts
  <2>1. 0 \in 0..MaxAttempts
    BY ConnectionAssumption
  <2> QED
    BY <1>3, <2>1, Zenon DEF Init
<1> QED
  BY <1>1, <1>2, <1>3, Zenon DEF Init, TypeOK

LEMMA TypeStep == TypeOK /\ [Next]_vars => TypeOK'
<1> SUFFICES ASSUME TypeOK, [Next]_vars
             PROVE  TypeOK'
  OBVIOUS
<1> USE ConnectionAssumption
<1>1. CASE Boot
  BY <1>1, StartingType DEF Boot, TypeOK, socketVars
<1>2. CASE Exit \/ Expire
  <2>1. Stop
    BY <1>2 DEF Exit, Expire
  <2>2. handler' \in [Handlers -> Runs]
    BY <2>1, IdleType DEF Stop
  <2>3. step' \in [Callers -> Flow \cup {"idle", "set"}] /\ step'[Main] # "set"
    BY <2>1, StartingType DEF Stop
  <2>4. /\ up' \in BOOLEAN /\ listening' \in BOOLEAN /\ reported' \in BOOLEAN
        /\ reconnecting' \in BOOLEAN /\ forwarder' \in BOOLEAN /\ marker' \in BOOLEAN
    BY <2>1, Zenon DEF Stop, TypeOK
  <2>5. attempts' \in 0..MaxAttempts
    BY <2>1 DEF Stop
  <2> QED
    BY <2>1, <2>2, <2>3, <2>4, <2>5, Zenon DEF Stop, TypeOK
<1>3. CASE Age
  BY <1>3 DEF Age, TypeOK, socketVars, timerVars
<1>4. CASE SocketOpens
  <2>1. handler' \in [Handlers -> Runs]
    BY <1>4, AwaitType DEF SocketOpens, Opening, Reasons, TypeOK
  <2> QED
    BY <1>4, <2>1 DEF SocketOpens, TypeOK, timerVars, Disarm
<1>5. ASSUME NEW reason \in Reasons, SocketCloses(reason)
      PROVE  TypeOK'
  <2>1. handler' \in [Handlers -> Runs]
    BY <1>5, AwaitType DEF SocketCloses, Closing, TypeOK
  <2>2. step' \in [Callers -> Flow \cup {"idle", "set"}] /\ step'[Main] # "set"
    BY <1>5, ClearedType DEF SocketCloses, TypeOK
  <2> QED
    BY <1>5, <2>1, <2>2 DEF SocketCloses, TypeOK
<1>6. ASSUME NEW h \in Handlers, MarkerWritten(h) \/ MarkOpenFails(h) \/ MarkerRemoved(h)
      PROVE  TypeOK'
  <2>1. handler[h].reason \in Reasons
    BY DEF TypeOK, Runs
  <2>2. handler' \in [Handlers -> Runs]
    BY <1>6, <2>1, AwaitType
       DEF MarkerWritten, MarkOpenFails, MarkerRemoved, Opening, Closing, Reasons
  <2> QED
    BY <1>6, <2>2 DEF MarkerWritten, MarkOpenFails, MarkerRemoved, TypeOK, resetVars,
                      socketVars, timerVars
<1>7. ASSUME NEW h \in Handlers, Opened(h)
      PROVE  TypeOK'
  <2>1. handler' \in [Handlers -> Runs]
    BY <1>7, AwaitType DEF Opened, Reasons
  <2> QED
    BY <1>7, <2>1, ResetType DEF Opened, TypeOK, resetVars, socketVars
<1>8. ASSUME NEW h \in Handlers, Closed(h)
      PROVE  TypeOK'
  <2>1. handler' \in [Handlers -> Runs]
    BY <1>8, AwaitType DEF Closed, Reasons
  <2>2. watchdog' \in {"off", "armed", "due", "disabled"}
    BY <1>8 DEF Closed, Arm, TypeOK
  <2>3. /\ attempts' \in 0..MaxAttempts
        /\ reconnecting' \in BOOLEAN
        /\ step' \in [Callers -> Flow \cup {"idle", "set"}]
        /\ step'[Main] # "set"
        /\ ref' \in Timers \cup {NoTimer}
    <3>1. CASE Reset
      BY <3>1, ResetType
    <3>2. CASE /\ \E t \in Timers : Schedule(t, step)
               /\ reconnecting' = (reconnecting /\ attempts < MaxAttempts)
      BY <3>2, ScheduleType DEF TypeOK
    <3> QED
      BY <1>8, <3>1, <3>2 DEF Closed
  <2> QED
    BY <1>8, <2>1, <2>2, <2>3 DEF Closed, TypeOK, socketVars
<1>9. ASSUME NEW t \in Timers, Fire(t)
      PROVE  TypeOK'
  BY <1>9 DEF Fire, TypeOK, Callers, Flow
<1>10. ASSUME NEW t \in Timers, SocketEnded(t) \/ BrokerClosed(t)
       PROVE  TypeOK'
  BY <1>10 DEF SocketEnded, BrokerClosed, Arm, TypeOK, Callers, Flow, socketVars
<1>11. ASSUME NEW c \in Callers, AuthDone(c) \/ SocketCreated(c) \/ BrokerDone(c)
       PROVE  TypeOK'
  <2>1. /\ listening' \in BOOLEAN /\ reported' \in BOOLEAN
        /\ reconnecting' \in BOOLEAN /\ forwarder' \in BOOLEAN
    <3>1. CASE AuthDone(c)
      BY <3>1 DEF AuthDone, TypeOK, resetVars, socketVars
    <3>2. CASE SocketCreated(c)
      BY <3>2, Zenon DEF SocketCreated, TypeOK
    <3>3. CASE BrokerDone(c)
      <4>1. (sock # "none") \in BOOLEAN /\ (reconnecting /\ c = Main) \in BOOLEAN
        OBVIOUS
      <4> QED
        BY <3>3, <4>1, Zenon DEF BrokerDone, TypeOK
    <3> QED
      BY <1>11, <3>1, <3>2, <3>3
  <2>2. /\ sock' \in {"none", "connecting", "open", "closed"}
        /\ step' \in [Callers -> Flow \cup {"idle", "set"}]
        /\ step'[Main] # "set"
    BY <1>11 DEF AuthDone, SocketCreated, BrokerDone, TypeOK, Callers, Flow, resetVars,
          socketVars
  <2> QED
    BY <1>11, <2>1, <2>2 DEF AuthDone, SocketCreated, BrokerDone, TypeOK, resetVars
<1>12. ASSUME NEW c \in Callers, FlowFails(c)
       PROVE  TypeOK'
  <2> DEFINE rest == [step EXCEPT ![c] = "idle"]
  <2>1. rest \in [Callers -> Flow \cup {"idle", "set"}] /\ rest[Main] # "set"
    BY DEF TypeOK, Callers
  <2>2. CASE c = Main
    BY <1>12, <2>1, <2>2 DEF FlowFails, TypeOK, resetVars, socketVars
  <2>3. CASE c # Main
    <3>1. PICK t \in Timers : Schedule(t, rest)
      BY <1>12, <2>3 DEF FlowFails
    <3>2. /\ attempts' \in 0..MaxAttempts
          /\ step' \in [Callers -> Flow \cup {"idle", "set"}]
          /\ step'[Main] # "set"
          /\ ref' \in Timers \cup {NoTimer}
      BY <2>1, <3>1, ScheduleType
    <3>3. reconnecting' = FALSE
      BY <1>12, <2>3 DEF FlowFails
    <3> HIDE DEF rest
    <3> QED
      BY <1>12, <3>2, <3>3 DEF FlowFails, TypeOK, resetVars, socketVars
  <2> QED
    BY <2>2, <2>3
<1>13. CASE UNCHANGED vars
  BY <1>13 DEF vars, TypeOK
<1> QED
  BY <1>1, <1>2, <1>3, <1>4, <1>5, <1>6, <1>7, <1>8, <1>9, <1>10, <1>11, <1>12, <1>13
     DEF Next

\* Every variable keeps its type, and the attempts their maximum.
THEOREM TypeCorrect == Spec => []TypeOK
  BY TypeInit, TypeStep, PTL DEF Spec

-----------------------------------------------------------------------------
(* One reconnect at a time, and the watchdog. *)

Busy == CloseHandlers \cup Connecting

\* Holds in every state: a socket that can still report its close has no
\* reconnect beside it, so the one its close starts is alone.
ConnInd ==
    /\ OneReconnect
    /\ AdapterReady
    /\ StallCovered
    /\ \A c \in Callers : step[c] = "broker" => sock # "none"
    /\ listening /\ sock \in {"connecting", "open"} => Busy = {}
    /\ reported => sock = "open" /\ listening
    /\ ~up => sock = "none" /\ Busy = {}

\* How a handler's step changes the set of close handlers.
LEMMA AwaitBusy ==
    ASSUME TypeOK, NEW h \in Handlers, NEW at, NEW reason, Await(h, at, reason)
    PROVE  CloseHandlers' = IF at \in Closing THEN CloseHandlers \cup {h}
                            ELSE CloseHandlers \ {h}
  BY DEF TypeOK, Await, CloseHandlers

LEMMA ResetBusy ==
    ASSUME TypeOK, Reset
    PROVE  /\ Connecting' \subseteq Connecting
           /\ \A c \in Callers : step'[c] \in {step[c], "idle"}
           /\ \A t \in Timers : step'[t] # "set" \/ (step[t] = "set" /\ ref # t)
  BY DEF TypeOK, Reset, Cleared, Connecting, Callers

\* A caller that is connecting, or about to, is alone.
LEMMA CallerAlone ==
    ASSUME TypeOK, ConnInd, NEW c \in Callers, step[c] # "idle"
    PROVE  /\ CloseHandlers = {}
           /\ Connecting = {c}
           /\ \A d \in Callers \ {c} : step[d] = "idle"
           /\ up
           /\ ~reported
           /\ ~(listening /\ sock \in {"connecting", "open"})
           /\ watchdog # "off"
           /\ step[c] \in Flow => ~listening
<1>1. c \in Connecting /\ c \in Busy
  BY DEF Connecting, Busy
<1>2. \A x \in Busy : x = c
  BY <1>1 DEF ConnInd, OneReconnect, Busy
<1>3. c \notin CloseHandlers
  BY ConnectionAssumption DEF CloseHandlers, Callers
<1>4. CloseHandlers = {} /\ Connecting = {c}
  BY <1>1, <1>2, <1>3 DEF Busy
<1>5. \A d \in Callers \ {c} : step[d] = "idle"
  BY <1>4 DEF Connecting
<1>6. up /\ ~(listening /\ sock \in {"connecting", "open"})
  BY <1>1 DEF ConnInd
<1>7. ~reported
  BY <1>6 DEF ConnInd
<1>8. watchdog # "off"
  BY <1>4, <1>6, <1>7 DEF ConnInd, StallCovered, Connected
<1> QED
  BY <1>4, <1>5, <1>6, <1>7, <1>8 DEF ConnInd, OneReconnect

\* A close handler on its way is alone.
LEMMA HandlerAlone ==
    ASSUME TypeOK, ConnInd, NEW h \in CloseHandlers
    PROVE  /\ CloseHandlers = {h}
           /\ Connecting = {}
           /\ \A d \in Callers : step[d] = "idle"
           /\ up
<1>1. \A x \in Busy : x = h
  BY DEF ConnInd, OneReconnect, Busy
<1>2. h \notin Connecting
  BY ConnectionAssumption DEF CloseHandlers, Connecting, Callers
<1> QED
  BY <1>1, <1>2 DEF Busy, Connecting, ConnInd

LEMMA ConnInit == Init => ConnInd
<1> SUFFICES ASSUME Init
             PROVE  ConnInd
  OBVIOUS
<1>1. CloseHandlers = {}
  BY DEF Init, CloseHandlers, Closing, Idle
<1>2. \A c \in Callers : step[c] = IF c = Main THEN "auth" ELSE "idle"
  BY DEF Init, Starting
<1>3. Connecting = {Main} /\ \A t \in Timers : step[t] = "idle"
  BY <1>2, ConnectionAssumption DEF Connecting, Callers
<1>4. ~listening /\ ~reported /\ ~forwarder /\ up
  BY Zenon DEF Init
<1> QED
  BY <1>1, <1>2, <1>3, <1>4
     DEF Init, ConnInd, OneReconnect, AdapterReady, StallCovered, Busy

LEMMA ConnStep == TypeOK /\ ConnInd /\ [Next]_vars => ConnInd'
<1> SUFFICES ASSUME TypeOK, ConnInd, [Next]_vars
             PROVE  ConnInd'
  OBVIOUS
<1> USE ConnectionAssumption
<1> USE DEF ConnInd, OneReconnect, AdapterReady, StallCovered, Connected, Busy
<1>1. CASE Boot
  <2>1. CloseHandlers' = {}
    BY <1>1 DEF Boot, CloseHandlers
  <2>2. \A c \in Callers : step'[c] = IF c = Main THEN "auth" ELSE "idle"
    BY <1>1 DEF Boot, Starting
  <2>3. Connecting' = {Main} /\ \A t \in Timers : step'[t] = "idle"
    BY <2>2 DEF Connecting, Callers
  <2> QED
    BY <1>1, <2>1, <2>2, <2>3 DEF Boot, socketVars
<1>2. CASE Exit \/ Expire
  <2>1. Stop
    BY <1>2 DEF Exit, Expire
  <2>2. CloseHandlers' = {} /\ Connecting' = {} /\ \A c \in Callers : step'[c] = "idle"
    BY <2>1 DEF Stop, CloseHandlers, Connecting, Closing, Idle, Starting
  <2>3. ~up' /\ ~listening' /\ ~reported' /\ ~forwarder' /\ sock' = "none"
    BY <2>1, Zenon DEF Stop
  <2> QED
    BY <2>2, <2>3, ConnectionAssumption DEF Callers
<1>3. CASE Age
  BY <1>3 DEF Age, socketVars, timerVars, CloseHandlers, Connecting
<1>4. CASE SocketOpens
  <2>1. CASE listening
    <3>1. PICK h \in Handlers : Free(h) /\ Await(h, "write", "retry")
      BY <1>4, <2>1 DEF SocketOpens
    <3>2. CloseHandlers' = CloseHandlers \ {h}
      BY <3>1, AwaitBusy DEF Closing
    <3> QED
      BY <1>4, <2>1, <3>2 DEF SocketOpens, timerVars, Connecting
  <2>2. CASE ~listening
    BY <1>4, <2>2 DEF SocketOpens, timerVars, CloseHandlers, Connecting
  <2> QED
    BY <2>1, <2>2
<1>5. ASSUME NEW reason \in Reasons, SocketCloses(reason)
      PROVE  ConnInd'
  <2>1. CASE listening
    <3>1. PICK h \in Handlers : Free(h) /\ Await(h, "unlink", reason)
      BY <1>5, <2>1 DEF SocketCloses
    <3>2. CloseHandlers' = CloseHandlers \cup {h} /\ Busy = {}
      BY <1>5, <2>1, <3>1, AwaitBusy DEF Closing, SocketCloses
    <3>3. Connecting' = {} /\ \A c \in Callers : step'[c] = "idle"
      BY <1>5, <2>1, <3>2 DEF SocketCloses, Connecting, Cleared
    <3>4. ~reported' /\ listening' = listening
      BY <1>5, Zenon DEF SocketCloses
    <3>5. up' = up /\ up /\ sock' = "closed" /\ forwarder' = forwarder /\ watchdog' = watchdog
      BY <1>5 DEF SocketCloses
    <3> QED
      BY <3>2, <3>3, <3>4, <3>5 DEF Callers, Flow
  <2>2. CASE ~listening
    BY <1>5, <2>2 DEF SocketCloses, CloseHandlers, Connecting
  <2> QED
    BY <2>1, <2>2
<1>6. ASSUME NEW h \in Handlers, MarkerWritten(h) \/ MarkOpenFails(h) \/ MarkerRemoved(h)
      PROVE  ConnInd'
  <2>1. CloseHandlers' = CloseHandlers
    BY <1>6, AwaitBusy
       DEF MarkerWritten, MarkOpenFails, MarkerRemoved, CloseHandlers, Closing
  <2> QED
    BY <1>6, <2>1 DEF MarkerWritten, MarkOpenFails, MarkerRemoved, resetVars,
                      socketVars, timerVars, Connecting
<1>7. ASSUME NEW h \in Handlers, Opened(h)
      PROVE  ConnInd'
  <2>1. CloseHandlers' = CloseHandlers \ {h} /\ h \notin CloseHandlers
    BY <1>7, AwaitBusy DEF Opened, CloseHandlers, Closing
  <2> QED
    BY <1>7, <2>1, ResetBusy DEF Opened, resetVars, socketVars, Callers, Flow
<1>8. ASSUME NEW h \in Handlers, Closed(h)
      PROVE  ConnInd'
  <2>1. CloseHandlers' = CloseHandlers \ {h} /\ h \in CloseHandlers
    BY <1>8, AwaitBusy DEF Closed, CloseHandlers, Closing
  <2>2. CloseHandlers' = {} /\ Connecting = {}
    BY <2>1, HandlerAlone
  <2>3. watchdog' # "off"
    BY <1>8 DEF Closed, Arm, TypeOK
  <2>4. CASE Reset
    <3>1. Connecting' = {} /\ \A c \in Callers : step'[c] = "idle"
      BY <2>2, <2>4, ResetBusy DEF Connecting
    <3>2. UNCHANGED <<up, sock, listening, reported, forwarder>> /\ up
      BY <1>8, <2>1, HandlerAlone DEF Closed, socketVars
    <3> QED
      BY <2>2, <2>3, <3>1, <3>2 DEF Callers, Flow
  <2>5. ASSUME NEW t \in Timers, Schedule(t, step)
        PROVE  ConnInd'
    <3>1. \A c \in Callers : step'[c] \in {"idle", IF c = t THEN "set" ELSE "idle"}
      BY <2>2, <2>5 DEF Schedule, Connecting, Cleared, TypeOK, Callers
    <3>2. \A c \in Timers : step'[c] = "set" => c = t /\ ref' = t
      BY <2>2, <2>5, <3>1 DEF Schedule, Connecting, Cleared, TypeOK, Callers
    <3>3. Connecting' \subseteq {t}
      BY <3>1 DEF Connecting
    <3>4. /\ UNCHANGED <<up, sock, listening, reported, forwarder>> /\ up
          /\ ~(listening /\ sock \in {"connecting", "open"})
      BY <1>8, <2>1, HandlerAlone DEF Closed, socketVars
    <3>5. \A c \in Callers : step'[c] \notin Flow
      BY <3>1 DEF Flow
    <3> QED
      BY <2>2, <2>3, <3>2, <3>3, <3>4, <3>5 DEF Flow
  <2> QED
    BY <1>8, <2>4, <2>5 DEF Closed
<1>9. ASSUME NEW t \in Timers, Fire(t)
      PROVE  ConnInd'
  <2>1. CloseHandlers' = CloseHandlers /\ CloseHandlers = {} /\ Connecting = {t}
    BY <1>9, CallerAlone DEF Fire, CloseHandlers, Callers
  <2>2. \A c \in Callers : c # t => step[c] = "idle" /\ step'[c] = "idle"
    BY <1>9, <2>1 DEF Fire, Connecting, TypeOK
  <2>3. step'[t] \in {"idle", "close", "end"}
    BY <1>9 DEF Fire, TypeOK, Callers
  <2>4. Connecting' \subseteq {t}
    BY <2>2 DEF Connecting
  <2>5. ~reported /\ ~(listening /\ sock \in {"connecting", "open"})
    BY <2>1
  <2>6. sock' = sock /\ reported' = reported /\ up' = up /\ watchdog' = watchdog
    BY <1>9 DEF Fire
  <2>7. step'[t] # "idle" => ~listening'
    BY <1>9 DEF Fire, TypeOK, Callers
  <2>8. listening' => listening
    BY <1>9 DEF Fire
  <2>9. forwarder' => forwarder
    BY <1>9 DEF Fire
  <2>10. up
    BY <2>1
  <2>11. \A c \in Callers : step'[c] # "set" /\ step'[c] # "broker"
    BY <2>2, <2>3
  <2>12. \A c \in Callers : step'[c] \in Flow => ~listening'
    BY <2>2, <2>7 DEF Flow
  <2> QED
    BY <2>1, <2>4, <2>5, <2>6, <2>8, <2>9, <2>10, <2>11, <2>12 DEF Callers
<1>10. ASSUME NEW t \in Timers, SocketEnded(t) \/ BrokerClosed(t)
       PROVE  ConnInd'
  <2>1. /\ CloseHandlers' = CloseHandlers /\ CloseHandlers = {} /\ Connecting = {t}
        /\ ~listening /\ ~reported /\ up
    BY <1>10, CallerAlone DEF SocketEnded, BrokerClosed, CloseHandlers, Callers, Flow
  <2>2. \A c \in Callers : c # t => step[c] = "idle" /\ step'[c] = "idle"
    BY <1>10, <2>1 DEF SocketEnded, BrokerClosed, Connecting, TypeOK
  <2>3. step'[t] \in {"close", "auth"}
    BY <1>10 DEF SocketEnded, BrokerClosed, TypeOK, Callers
  <2>4. Connecting' \subseteq {t} /\ \A c \in Callers : step'[c] \notin {"set", "broker"}
    BY <2>2, <2>3 DEF Connecting
  <2>5. /\ ~listening' /\ ~reported' /\ up'
        /\ watchdog' # "off" \/ watchdog = "off"
        /\ forwarder' => sock' # "none"
    <3>1. CASE SocketEnded(t)
      <4>1. ~forwarder'
        BY <3>1, Zenon DEF SocketEnded
      <4> QED
        BY <2>1, <3>1, <4>1 DEF SocketEnded
    <3>2. CASE BrokerClosed(t)
      BY <2>1, <3>2 DEF BrokerClosed, Arm, socketVars
    <3> QED
      BY <1>10, <3>1, <3>2
  <2> QED
    BY <1>10, <2>1, <2>4, <2>5 DEF Callers
<1>11. ASSUME NEW c \in Callers, AuthDone(c) \/ SocketCreated(c) \/ BrokerDone(c)
       PROVE  ConnInd'
  <2>1. /\ CloseHandlers' = CloseHandlers /\ CloseHandlers = {} /\ Connecting = {c}
        /\ ~listening /\ ~reported /\ up
    BY <1>11, CallerAlone DEF AuthDone, SocketCreated, BrokerDone, CloseHandlers, Flow
  <2>2. \A d \in Callers : d # c => step[d] = "idle" /\ step'[d] = "idle"
    BY <1>11, <2>1 DEF AuthDone, SocketCreated, BrokerDone, Connecting, TypeOK
  <2>3. watchdog # "off" /\ watchdog' = watchdog /\ up' = up /\ ~reported'
    <3>1. watchdog # "off" /\ watchdog' = watchdog /\ up' = up
      BY <1>11, CallerAlone DEF AuthDone, SocketCreated, BrokerDone, resetVars
    <3>2. ~reported'
      <4>1. CASE AuthDone(c) \/ BrokerDone(c)
        BY <2>1, <4>1 DEF AuthDone, BrokerDone, resetVars, socketVars
      <4>2. CASE SocketCreated(c)
        BY <4>2, Zenon DEF SocketCreated
      <4> QED
        BY <1>11, <4>1, <4>2
    <3> QED
      BY <3>1, <3>2
  <2>4. CASE AuthDone(c) \/ SocketCreated(c)
    <3>1. /\ step'[c] \in {"socket", "broker"}
          /\ ~listening'
          /\ step'[c] = "broker" \/ forwarder' => sock' # "none"
      <4>1. CASE AuthDone(c)
        BY <2>1, <4>1 DEF AuthDone, TypeOK, resetVars, socketVars
      <4>2. CASE SocketCreated(c)
        <5>1. ~listening'
          BY <4>2, Zenon DEF SocketCreated
        <5> QED
          BY <4>2, <5>1 DEF SocketCreated, TypeOK
      <4> QED
        BY <2>4, <4>1, <4>2
    <3>2. Connecting' \subseteq {c} /\ \A d \in Callers : step'[d] # "set"
      BY <2>2, <3>1 DEF Connecting
    <3> QED
      BY <2>1, <2>2, <2>3, <3>1, <3>2 DEF Callers
  <2>5. CASE BrokerDone(c)
    <3>1. step'[c] = "idle" /\ sock' = sock /\ sock # "none"
      BY <2>5 DEF BrokerDone, TypeOK
    <3>2. Connecting' = {} /\ \A d \in Callers : step'[d] = "idle"
      BY <2>2, <3>1 DEF Connecting
    <3> QED
      BY <2>1, <2>3, <3>1, <3>2 DEF Callers, Flow
  <2> QED
    BY <1>11, <2>4, <2>5
<1>12. ASSUME NEW c \in Callers, FlowFails(c)
       PROVE  ConnInd'
  <2> DEFINE rest == [step EXCEPT ![c] = "idle"]
  <2>1. /\ CloseHandlers' = CloseHandlers /\ CloseHandlers = {} /\ Connecting = {c}
        /\ ~listening /\ ~reported /\ up
    BY <1>12, CallerAlone DEF FlowFails, CloseHandlers, Flow
  <2>2. rest = [d \in Callers |-> "idle"]
    BY <2>1 DEF TypeOK, Connecting
  <2>3. UNCHANGED <<up, socketVars, watchdog, forwarder>>
    BY <1>12 DEF FlowFails, resetVars
  <2>4. CASE c = Main
    <3>1. \A d \in Callers : step'[d] = "idle"
      BY <1>12, <2>2, <2>4 DEF FlowFails
    <3> QED
      BY <2>1, <2>3, <3>1 DEF Callers, Connecting, Flow, socketVars
  <2>5. CASE c # Main
    <3>1. PICK t \in Timers : Schedule(t, rest)
      BY <1>12, <2>5 DEF FlowFails
    <3>2. \A d \in Callers : /\ step'[d] \in {"idle", IF d = t THEN "set" ELSE "idle"}
                             /\ step'[d] = "set" => ref' = t
      BY <2>2, <3>1 DEF Schedule, Cleared, Callers
    <3>3. Connecting' \subseteq {t} /\ \A d \in Timers : step'[d] = "set" => d = t
      BY <3>2 DEF Connecting, Callers
    <3> HIDE DEF rest
    <3> QED
      BY <2>1, <2>3, <3>2, <3>3 DEF Callers, Flow, socketVars
  <2> QED
    BY <2>4, <2>5
<1>13. CASE UNCHANGED vars
  BY <1>13 DEF vars, CloseHandlers, Connecting
<1> QED
  BY <1>1, <1>2, <1>3, <1>4, <1>5, <1>6, <1>7, <1>8, <1>9, <1>10, <1>11, <1>12, <1>13
     DEF Next

THEOREM ConnIndHolds == Spec => []ConnInd
<1>1. Init => TypeOK /\ ConnInd
  BY TypeInit, ConnInit
<1>2. (TypeOK /\ ConnInd) /\ [Next]_vars => (TypeOK /\ ConnInd)'
  BY TypeStep, ConnStep
<1> QED
  BY <1>1, <1>2, PTL DEF Spec

\* Of the close handlers on their way, the timers that are set and the
\* connections being made there is at most one.
THEOREM ReconnectsAlone == Spec => []OneReconnect
<1>1. ConnInd => OneReconnect
  BY DEF ConnInd
<1> QED
  BY <1>1, ConnIndHolds, PTL

\* A gateway that is not connected has its watchdog running, is about to start
\* it, or waits to be paired.
THEOREM StallsCovered == Spec => []StallCovered
<1>1. ConnInd => StallCovered
  BY DEF ConnInd
<1> QED
  BY <1>1, ConnIndHolds, PTL

\* Listeners and the forwarder have a socket and an adapter.
THEOREM AdapterSet == Spec => []AdapterReady
<1>1. ConnInd => AdapterReady
  BY DEF ConnInd
<1> QED
  BY <1>1, ConnIndHolds, PTL
=============================================================================
