------------------------- MODULE ReplyBridgeProofs -------------------------
(* Proofs about ReplyBridge, for every set of forwards, chats and replies. *)
EXTENDS ReplyBridge, FiniteSetTheorems, TLAPS

\* What TypeOK needs to be inductive: a confirm is awaited only for an
\* accepted envelope, and replies answer accepted envelopes.
Linked ==
    /\ \A f \in Forwards : fwd[f] = "confirm" => f \in published
    /\ \A r \in Copies : reply[r].at # "none" => reply[r].id \in published

TypeInd == TypeOK /\ Linked

\* RegistryExplained, and the same of a command that waits for its confirm.
Explained(f) == f \in inBot \/ QueuedFor(f) \/ f \in raced \/ f \in skipped

RegistryInd ==
    \A f \in Forwards : f \in inFlight \/ fwd[f] = "confirm" => Explained(f)

\* The reply messages in the queue that answer f, and the sends they still owe.
Live(f)   == {r \in Copies : reply[r] # NoReply /\ reply[r].id = f}
Unsent(f) == {p \in Copies \X (1..MaxLen) : p[1] \in Live(f) /\ p[2] > reply[p[1]].sent}

\* SendsBounded counts the sends already made; a requeued reply can repeat only
\* what it was paid for, so the sends still owed are counted with them.
Paid(f) ==
    /\ IsFiniteSet(Live(f)) /\ Cardinality(Live(f)) <= answered[f]
    /\ sends[f] + Cardinality(Unsent(f)) <= MaxLen * answered[f] * (1 + faults["crash"])

SendsInd == \A f \in Forwards : Paid(f)

\* A fault is counted and nothing else is.
LEMMA FaultType ==
    ASSUME faults \in [FaultKinds -> Nat], NEW k \in FaultKinds, Fault(k)
    PROVE  faults' \in [FaultKinds -> Nat]
  BY DEF Fault

\* A presence update keeps the types.
LEMMA PresenceType ==
    ASSUME faults \in [FaultKinds -> Nat], typing \subseteq Chats,
           NEW ok \in BOOLEAN, NEW chats \in SUBSET Chats, Presence(ok, chats)
    PROVE  faults' \in [FaultKinds -> Nat] /\ typing' \subseteq Chats
  BY DEF Presence, Fault, FaultKinds

\* A requeued reply stays a reply to the same envelope.
LEMMA ReplyRequeued ==
    ASSUME NEW x \in Reply, NEW y,
           y = [x EXCEPT !.at = "queued", !.sent = 0, !.known = FALSE]
    PROVE  y \in Reply /\ y.id = x.id /\ y.len = x.len /\ y.sent = 0
<1>1. PICK b \in BOOLEAN : b = FALSE
  OBVIOUS
<1>2. y = [x EXCEPT !.at = "queued", !.sent = 0, !.known = b]
  BY <1>1
<1>3. 0 \in 0..MaxLen
  BY BridgeAssumption
<1>4. y \in Reply
  BY <1>2, <1>3 DEF Reply
<1> QED
  BY <1>2, <1>4 DEF Reply

\* A reply that is received stays a reply to the same envelope.
LEMMA ReplyReceived ==
    ASSUME NEW x \in Reply, NEW S, NEW y,
           y = [x EXCEPT !.at = "handling", !.known = x.id \in S]
    PROVE  y \in Reply /\ y.id = x.id /\ y.len = x.len /\ y.sent = x.sent
<1>1. (x.id \in S) \in BOOLEAN
  OBVIOUS
<1>2. PICK b \in BOOLEAN : b = (x.id \in S)
  BY <1>1, Zenon
<1>3. y = [x EXCEPT !.at = "handling", !.known = b]
  BY <1>2
<1> QED
  BY <1>3 DEF Reply

\* A reply that is done waits for its ack with nothing else changed.
LEMMA ReplyFinished ==
    ASSUME NEW x \in Reply, NEW y, y = [x EXCEPT !.at = "ack"]
    PROVE  y.id = x.id /\ y.sent = x.sent
  BY DEF Reply

LEMMA ReplyFields ==
    ASSUME NEW x \in Reply
    PROVE  x.at # "none" /\ x.id \in Forwards /\ x.sent \in 0..MaxLen /\ x.len \in Nat
  BY BridgeAssumption DEF Reply

LEMMA TypeInit == Init => TypeInd
  BY BridgeAssumption DEF Init, TypeInd, TypeOK, Linked, Calling, Reply, NoReply

\* Every action keeps the types and the links, one step per action.
LEMMA TypeStep == TypeInd /\ [Next]_vars => TypeInd'
<1> SUFFICES ASSUME TypeInd, [Next]_vars
             PROVE  TypeInd'
  OBVIOUS
<1> USE BridgeAssumption DEF TypeInd, TypeOK, Linked, Calling, forwardVars, botVars,
        replyVars
<1>1. ASSUME NEW f \in Forwards, Forward(f) \/ React(f) \/ Publish(f) \/ Track(f)
      PROVE  TypeInd'
  BY <1>1 DEF Forward, React, Publish, Track, FwdGoto
<1>2. ASSUME NEW f \in Forwards, ReactFails(f) \/ PublishFails(f) \/ ConfirmFails(f)
      PROVE  TypeInd'
  <2>1. faults' \in [FaultKinds -> Nat]
    BY <1>2, FaultType DEF ReactFails, PublishFails, ConfirmFails, FaultKinds
  <2> QED
    BY <1>2, <2>1 DEF ReactFails, PublishFails, ConfirmFails, FwdGoto
<1>3. ASSUME NEW f \in Forwards, NEW ok \in BOOLEAN, StartTyping(f, ok) \/ StopTyping(f, ok)
      PROVE  TypeInd'
  <2>1. Chat[f] \in Chats
    OBVIOUS
  <2>2. faults' \in [FaultKinds -> Nat] /\ typing' \subseteq Chats
    <3>1. CASE StartTyping(f, ok)
      BY <2>1, <3>1, PresenceType DEF StartTyping
    <3>2. CASE StopTyping(f, ok)
      BY <2>1, <3>2, PresenceType DEF StopTyping
    <3> QED
      BY <1>3, <3>1, <3>2
  <2> QED
    BY <1>3, <2>2 DEF StartTyping, StopTyping, FwdGoto
<1>4. ASSUME NEW f \in Forwards, NEW r \in Copies, NEW n \in 0..MaxLen,
             NEW again \in BOOLEAN, BotAnswers(f, r, n, again)
      PROVE  TypeInd'
  <2> DEFINE new == [id |-> f, len |-> n, at |-> "queued", sent |-> 0, known |-> FALSE]
  <2>1. new \in Reply /\ new.at # "none" /\ new.id = f /\ new.sent <= new.len
    BY DEF Reply
  <2>2. faults' \in [FaultKinds -> Nat]
    BY <1>4, FaultType DEF BotAnswers, FaultKinds
  <2>3. inBot' \subseteq published /\ f \in published
    BY <1>4 DEF BotAnswers
  <2>4. reply' = [reply EXCEPT ![r] = new]
    BY <1>4 DEF BotAnswers
  <2>5. answered' \in [Forwards -> Nat]
    BY <1>4 DEF BotAnswers
  <2>6. UNCHANGED <<fwd, published, skipped, inFlight, raced, typing, sends, failed>>
    BY <1>4 DEF BotAnswers
  <2> HIDE DEF new
  <2>7. /\ reply' \in [Copies -> Reply \cup {NoReply}]
        /\ \A q \in Copies : reply'[q] = IF q = r THEN new ELSE reply[q]
    BY <2>1, <2>4
  <2>8. \A q \in Copies : reply'[q].at # "none" =>
            reply'[q].sent <= reply'[q].len /\ reply'[q].id \in published
    BY <2>1, <2>3, <2>7
  <2> QED
    BY <2>2, <2>3, <2>5, <2>6, <2>7, <2>8
<1>5. ASSUME NEW f \in Forwards, BotSkips(f)
      PROVE  TypeInd'
  BY <1>5 DEF BotSkips
<1>6. ASSUME NEW r \in Copies, Receive(r)
      PROVE  TypeInd'
  <2>1. reply[r] \in Reply
    BY <1>6 DEF Receive, NoReply
  <2> DEFINE new == [reply[r] EXCEPT !.at = "handling", !.known = reply[r].id \in inFlight]
  <2>2. /\ reply[r].at # "none" /\ reply[r].id \in Forwards
        /\ reply[r].sent \in 0..MaxLen /\ reply[r].len \in Nat
    BY <2>1, ReplyFields
  <2>3. new \in Reply /\ new.id = reply[r].id /\ new.len = reply[r].len
                      /\ new.sent = reply[r].sent
    BY <2>1, ReplyReceived
  <2>4. reply' = [reply EXCEPT ![r] = new]
    BY <1>6 DEF Receive
  <2>5. /\ UNCHANGED <<fwd, published, inBot, skipped, answered, typing, sends, failed, faults>>
        /\ inFlight' \subseteq inFlight
        /\ raced' \subseteq published
    BY <1>6, <2>2 DEF Receive
  <2> HIDE DEF new
  <2> QED
    BY <2>1, <2>2, <2>3, <2>4, <2>5
<1>7. ASSUME NEW r \in Copies, SendNext(r)
      PROVE  TypeInd'
  <2>1. reply[r] \in Reply
    BY <1>7 DEF SendNext, NoReply
  <2> QED
    BY <1>7, <2>1 DEF SendNext, Reply
<1>8. ASSUME NEW r \in Copies, SendFails(r)
      PROVE  TypeInd'
  <2>1. reply[r] \in Reply /\ faults' \in [FaultKinds -> Nat]
    BY <1>8, FaultType DEF SendFails, NoReply, FaultKinds
  <2> QED
    BY <1>8, <2>1 DEF SendFails, ReplyAt, Reply
<1>9. ASSUME NEW r \in Copies, NEW ok \in BOOLEAN, StopReply(r, ok)
      PROVE  TypeInd'
  <2>1. reply[r] \in Reply
    BY <1>9 DEF StopReply, NoReply
  <2>2. Chat[reply[r].id] \in Chats
    BY <2>1 DEF Reply
  <2>3. faults' \in [FaultKinds -> Nat] /\ typing' \subseteq Chats
    BY <1>9, <2>2, PresenceType DEF StopReply
  <2> QED
    BY <1>9, <2>1, <2>3 DEF StopReply, ReplyAt, Reply
<1>10. ASSUME NEW r \in Copies, Ack(r)
       PROVE  TypeInd'
  <2>1. NoReply.at = "none"
    BY DEF NoReply
  <2>2. \A q \in Copies : reply'[q] = IF q = r THEN NoReply ELSE reply[q]
    BY <1>10 DEF Ack
  <2>3. reply' \in [Copies -> Reply \cup {NoReply}]
    BY <1>10 DEF Ack
  <2> QED
    BY <1>10, <2>1, <2>2, <2>3 DEF Ack
<1>11. CASE Crash
  <2>1. faults' \in [FaultKinds -> Nat]
    BY <1>11, FaultType DEF Crash, FaultKinds
  <2>2. fwd' \in [Forwards -> Calling \cup {"idle", "done", "lost"}]
    BY <1>11 DEF Crash
  <2>3. ASSUME NEW r \in Copies
        PROVE  /\ reply'[r] \in Reply \cup {NoReply}
               /\ reply'[r].at # "none" => /\ reply'[r].sent <= reply'[r].len
                                           /\ reply'[r].id \in published
    <3>1. CASE reply[r] = NoReply
      BY <1>11, <3>1 DEF Crash, NoReply
    <3>2. CASE reply[r] # NoReply
      <4>1. /\ reply[r] \in Reply /\ reply[r].at # "none" /\ reply[r].id \in published
            /\ reply[r].len \in Nat
        BY <3>2, ReplyFields
      <4>2. reply'[r] = [reply[r] EXCEPT !.at = "queued", !.sent = 0, !.known = FALSE]
        BY <1>11, <3>2 DEF Crash
      <4>3. /\ reply'[r] \in Reply /\ reply'[r].id = reply[r].id
            /\ reply'[r].len = reply[r].len /\ reply'[r].sent = 0
        BY <4>1, <4>2, ReplyRequeued
      <4>4. UNCHANGED published
        BY <1>11 DEF Crash
      <4> QED
        BY <4>1, <4>3, <4>4
    <3> QED
      BY <3>1, <3>2
  <2>4. reply' \in [Copies -> Reply \cup {NoReply}]
    BY <1>11, <2>3 DEF Crash
  <2>5. \A f \in Forwards : fwd'[f] # "confirm"
    BY <1>11 DEF Crash
  <2> QED
    BY <1>11, <2>1, <2>2, <2>3, <2>4, <2>5 DEF Crash
<1>12. CASE UNCHANGED vars
  BY <1>12 DEF vars
<1> QED
  BY <1>1, <1>2, <1>3, <1>4, <1>5, <1>6, <1>7, <1>8, <1>9, <1>10, <1>11, <1>12
  DEF Next, ForwardStep, ReplyStep, BotStep

LEMMA TypeIndHolds == Spec => []TypeInd
  BY TypeInit, TypeStep, PTL DEF Spec

\* Types, and that the registry, the replies and the bot only know envelopes
\* the broker accepted, hold throughout.
THEOREM TypeCorrect == Spec => []TypeOK
  BY TypeIndHolds, PTL DEF TypeInd

-----------------------------------------------------------------------------
LEMMA RegistryInit == Init => RegistryInd
  BY DEF Init, RegistryInd

\* An envelope leaves the bot with a reply queued or a skip, a queued reply is
\* received together with its registry entry, and a confirm that is still
\* awaited then counts as raced.
LEMMA RegistryStep == TypeInd /\ RegistryInd /\ [Next]_vars => RegistryInd'
<1> SUFFICES ASSUME TypeInd, RegistryInd, [Next]_vars
             PROVE  RegistryInd'
  OBVIOUS
<1> USE DEF RegistryInd, Explained, QueuedFor, FwdGoto, forwardVars, botVars, replyVars
<1>1. ASSUME NEW f \in Forwards, Forward(f) \/ React(f) \/ Publish(f) \/ Track(f)
      PROVE  RegistryInd'
  BY <1>1 DEF Forward, React, Publish, Track, TypeInd, TypeOK
<1>2. ASSUME NEW f \in Forwards, ReactFails(f) \/ PublishFails(f) \/ ConfirmFails(f)
      PROVE  RegistryInd'
  BY <1>2 DEF ReactFails, PublishFails, ConfirmFails, TypeInd, TypeOK
<1>3. ASSUME NEW f \in Forwards, NEW ok \in BOOLEAN, StartTyping(f, ok) \/ StopTyping(f, ok)
      PROVE  RegistryInd'
  BY <1>3 DEF StartTyping, StopTyping, TypeInd, TypeOK
<1>4. ASSUME NEW f \in Forwards, NEW r \in Copies, NEW n \in 0..MaxLen,
             NEW again \in BOOLEAN, BotAnswers(f, r, n, again)
      PROVE  RegistryInd'
  <2>1. reply'[r].at = "queued" /\ reply'[r].id = f
    BY <1>4 DEF BotAnswers, TypeInd, TypeOK
  <2>2. \A q \in Copies : reply[q].at = "queued" => reply'[q] = reply[q]
    BY <1>4 DEF BotAnswers, TypeInd, TypeOK, NoReply
  <2>3. \A g \in inBot : g \in inBot' \/ g = f
    BY <1>4 DEF BotAnswers
  <2>4. UNCHANGED <<fwd, inFlight, raced, skipped>>
    BY <1>4 DEF BotAnswers
  <2> QED
    BY <2>1, <2>2, <2>3, <2>4
<1>5. ASSUME NEW f \in Forwards, BotSkips(f)
      PROVE  RegistryInd'
  BY <1>5 DEF BotSkips
<1>6. ASSUME NEW r \in Copies, Receive(r)
      PROVE  RegistryInd'
  <2>1. \A q \in Copies \ {r} : reply'[q] = reply[q]
    BY <1>6 DEF Receive, TypeInd, TypeOK
  <2>2. /\ inFlight' = inFlight \ {reply[r].id}
        /\ raced \subseteq raced' /\ (fwd[reply[r].id] = "confirm" => reply[r].id \in raced')
        /\ UNCHANGED <<fwd, inBot, skipped>>
    BY <1>6 DEF Receive
  <2> QED
    BY <2>1, <2>2
<1>7. ASSUME NEW r \in Copies, SendNext(r) \/ SendFails(r) \/ Ack(r)
      PROVE  RegistryInd'
  BY <1>7 DEF SendNext, SendFails, ReplyAt, Ack, TypeInd, TypeOK
<1>8. ASSUME NEW r \in Copies, NEW ok \in BOOLEAN, StopReply(r, ok)
      PROVE  RegistryInd'
  BY <1>8 DEF StopReply, ReplyAt, TypeInd, TypeOK
<1>9. CASE Crash
  BY <1>9 DEF Crash, Calling, TypeInd, TypeOK
<1>10. CASE UNCHANGED vars
  BY <1>10 DEF vars
<1> QED
  BY <1>1, <1>2, <1>3, <1>4, <1>5, <1>6, <1>7, <1>8, <1>9, <1>10
  DEF Next, ForwardStep, ReplyStep, BotStep

\* For any number of forwards, replies, crashes and failures, the registry
\* holds no entry of a reply already handled, but for the two known leaks.
THEOREM RegistrySound == Spec => []RegistryExplained
<1>1. TypeInd /\ RegistryInd => RegistryExplained
  BY DEF TypeInd, TypeOK, RegistryInd, RegistryExplained, Explained
<1> QED
  BY <1>1, RegistryInit, RegistryStep, TypeIndHolds, PTL DEF Spec

-----------------------------------------------------------------------------
LEMMA TypingInit == Init => TypingExplained
  BY DEF Init, TypingExplained

\* Why a chat shows the bot as composing.
Excuse(f) ==
    \/ fwd[f] \in {"publish", "confirm", "stop"}
    \/ f \in inFlight
    \/ \E r \in Copies : reply[r].at = "handling" /\ reply[r].id = f /\ reply[r].known

\* Cases: each step keeps the command's excuse or passes it on (publish,
\* confirm, registry, reply being sent), until the step that stops typing.
LEMMA TypingStep == TypeInd /\ TypingExplained /\ [Next]_vars => TypingExplained'
<1> SUFFICES ASSUME TypeInd, TypingExplained, [Next]_vars,
                    faults'["presence"] = 0, faults'["send"] = 0,
                    NEW ch \in typing'
             PROVE  \E f \in Forwards : Chat[f] = ch /\ Excuse(f)'
  BY DEF TypingExplained, Excuse
<1>0. faults \in [FaultKinds -> Nat]
  BY DEF TypeInd, TypeOK
<1> USE DEF Excuse, FwdGoto, forwardVars, botVars, replyVars
<1>1. \A k \in FaultKinds : Fault(k) => \A j \in FaultKinds : faults[j] <= faults'[j]
  BY <1>0 DEF Fault, FaultKinds
<1>2. \A k \in {"presence", "send"} : ~Fault(k)
  BY <1>0 DEF Fault, FaultKinds
<1>3. \A k \in {"presence", "send"} : faults[k] <= faults'[k]
  <2>1. UNCHANGED faults \/ \E k \in FaultKinds : Fault(k)
    <3>1. ASSUME NEW ok, NEW chats, Presence(ok, chats)
          PROVE  UNCHANGED faults \/ \E k \in FaultKinds : Fault(k)
      BY <3>1 DEF Presence, FaultKinds
    <3>2. ASSUME NEW f \in Forwards, Forward(f) \/ ForwardStep(f)
          PROVE  UNCHANGED faults \/ \E k \in FaultKinds : Fault(k)
      BY <3>1, <3>2 DEF Forward, ForwardStep, React, ReactFails, StartTyping, Publish,
         PublishFails, Track, ConfirmFails, StopTyping, FaultKinds
    <3>3. ASSUME NEW f \in Forwards, BotStep(f)
          PROVE  UNCHANGED faults \/ \E k \in FaultKinds : Fault(k)
      BY <3>3 DEF BotStep, BotAnswers, BotSkips, FaultKinds
    <3>4. ASSUME NEW r \in Copies, ReplyStep(r)
          PROVE  UNCHANGED faults \/ \E k \in FaultKinds : Fault(k)
      BY <3>1, <3>4 DEF ReplyStep, Receive, SendNext, SendFails, StopReply, Ack,
         FaultKinds
    <3> QED
      BY <3>2, <3>3, <3>4 DEF Next, Crash, FaultKinds, vars
  <2> QED
    BY <1>0, <1>1, <2>1 DEF FaultKinds
<1>4. faults["presence"] = 0 /\ faults["send"] = 0
  BY <1>0, <1>3 DEF FaultKinds
<1>5. ch \in typing => \E f \in Forwards : Chat[f] = ch /\ Excuse(f)
  BY <1>4 DEF TypingExplained
<1>6. ASSUME NEW f \in Forwards, Forward(f) \/ React(f) \/ Publish(f) \/ Track(f)
      PROVE  \E g \in Forwards : Chat[g] = ch /\ Excuse(g)'
  BY <1>5, <1>6 DEF Forward, React, Publish, Track, TypeInd, TypeOK
<1>7. ASSUME NEW f \in Forwards, ReactFails(f) \/ PublishFails(f) \/ ConfirmFails(f)
      PROVE  \E g \in Forwards : Chat[g] = ch /\ Excuse(g)'
  BY <1>5, <1>7 DEF ReactFails, PublishFails, ConfirmFails, TypeInd, TypeOK
<1>8. ASSUME NEW f \in Forwards, NEW ok \in BOOLEAN, StartTyping(f, ok) \/ StopTyping(f, ok)
      PROVE  \E g \in Forwards : Chat[g] = ch /\ Excuse(g)'
  <2>1. CASE StartTyping(f, ok)
    <3>1. typing' = typing \cup {Chat[f]} /\ fwd'[f] = "publish"
      BY <1>2, <2>1 DEF StartTyping, Presence, TypeInd, TypeOK
    <3> QED
      BY <1>5, <2>1, <3>1 DEF StartTyping, TypeInd, TypeOK
  <2>2. CASE StopTyping(f, ok)
    <3>1. typing' = typing \ {Chat[f]}
      BY <1>2, <2>2 DEF StopTyping, Presence
    <3> QED
      BY <1>5, <2>2, <3>1 DEF StopTyping, TypeInd, TypeOK
  <2> QED
    BY <1>8, <2>1, <2>2
<1>9. ASSUME NEW f \in Forwards, BotStep(f)
      PROVE  \E g \in Forwards : Chat[g] = ch /\ Excuse(g)'
  <2>1. \A q \in Copies : reply[q].at = "handling" => reply'[q] = reply[q]
    BY <1>9 DEF BotStep, BotAnswers, BotSkips, TypeInd, TypeOK, NoReply
  <2>2. UNCHANGED <<fwd, inFlight, typing>>
    BY <1>9 DEF BotStep, BotAnswers, BotSkips
  <2> QED
    BY <1>5, <2>1, <2>2
<1>10. ASSUME NEW r \in Copies, Receive(r)
       PROVE  \E g \in Forwards : Chat[g] = ch /\ Excuse(g)'
  <2>1. reply[r] \in Reply /\ reply[r].at = "queued"
    BY <1>10 DEF Receive, TypeInd, TypeOK, NoReply
  <2>2. /\ \A q \in Copies \ {r} : reply'[q] = reply[q]
        /\ inFlight' = inFlight \ {reply[r].id} /\ UNCHANGED <<fwd, typing>>
    BY <1>10 DEF Receive, TypeInd, TypeOK
  <2>3. reply[r].id \in inFlight =>
            reply'[r].at = "handling" /\ reply'[r].id = reply[r].id /\ reply'[r].known
    BY <1>10, <2>1 DEF Receive, TypeInd, TypeOK, Reply
  <2> QED
    BY <1>5, <2>1, <2>2, <2>3
<1>11. ASSUME NEW r \in Copies, SendNext(r) \/ SendFails(r) \/ Ack(r)
       PROVE  \E g \in Forwards : Chat[g] = ch /\ Excuse(g)'
  <2>1. ~SendFails(r)
    BY <1>2 DEF SendFails
  <2>2. \A q \in Copies : reply[q].at = "handling" =>
            /\ reply'[q].at = "handling" /\ reply'[q].id = reply[q].id
            /\ reply'[q].known = reply[q].known
    <3>1. CASE SendNext(r)
      <4>1. reply[r] \in Reply
        BY <3>1 DEF SendNext, TypeInd, TypeOK, NoReply
      <4>2. /\ \A q \in Copies \ {r} : reply'[q] = reply[q]
            /\ reply'[r] = [reply[r] EXCEPT !.sent = @ + 1]
        BY <3>1 DEF SendNext, TypeInd, TypeOK
      <4>3. reply'[r].at = reply[r].at /\ reply'[r].id = reply[r].id
        BY <4>1, <4>2 DEF Reply
      <4>4. reply'[r].known = reply[r].known
        BY <4>1, <4>2 DEF Reply
      <4> QED
        BY <4>2, <4>3, <4>4
    <3>2. CASE Ack(r)
      BY <3>2 DEF Ack, TypeInd, TypeOK
    <3> QED
      BY <1>11, <2>1, <3>1, <3>2
  <2>3. UNCHANGED <<fwd, inFlight, typing>>
    BY <1>11, <2>1 DEF SendNext, Ack
  <2> QED
    BY <1>5, <2>2, <2>3
<1>12. ASSUME NEW r \in Copies, NEW ok \in BOOLEAN, StopReply(r, ok)
       PROVE  \E g \in Forwards : Chat[g] = ch /\ Excuse(g)'
  <2>1. /\ \A q \in Copies \ {r} : reply'[q] = reply[q]
        /\ typing' = IF reply[r].known THEN typing \ {Chat[reply[r].id]} ELSE typing
        /\ UNCHANGED <<fwd, inFlight>>
    BY <1>2, <1>12 DEF StopReply, ReplyAt, Presence, TypeInd, TypeOK
  <2> QED
    BY <1>5, <2>1
<1>13. CASE Crash
  BY <1>13 DEF Crash
<1>14. CASE UNCHANGED vars
  BY <1>5, <1>14 DEF vars
<1> QED
  BY <1>6, <1>7, <1>8, <1>9, <1>10, <1>11, <1>12, <1>13, <1>14
  DEF Next, ForwardStep, ReplyStep

\* For any number of forwards and replies, without failing sends or presence
\* updates a chat composes only for a command on its way.
THEOREM TypingSound == Spec => []TypingExplained
  BY TypingInit, TypingStep, TypeIndHolds, PTL DEF Spec

-----------------------------------------------------------------------------
\* The bound grows with the crashes, and by one reply's
\* length with an answer, and by one length for each reply with a crash.
LEMMA BoundGrows ==
    ASSUME NEW m \in Nat, NEW a \in Nat, NEW c \in Nat, NEW d \in Nat, c <= d
    PROVE  m * a * (1 + c) <= m * a * (1 + d)
<1>1. PICK k \in Nat : k = m * a
  OBVIOUS
<1>2. PICK e \in Nat : d = c + e
  <2>1. d - c \in Nat /\ d = c + (d - c)
    OBVIOUS
  <2> QED
    BY <2>1
<1>3. k * (1 + d) = k * (1 + c) + k * e
  BY <1>2
<1>4. k * e \in Nat /\ k * (1 + c) \in Nat
  OBVIOUS
<1> QED
  BY <1>1, <1>3, <1>4

LEMMA BoundAnswer ==
    ASSUME NEW m \in Nat, NEW a \in Nat, NEW c \in Nat
    PROVE  m * a * (1 + c) + m <= m * (a + 1) * (1 + c)
<1>1. m * (a + 1) = m * a + m
  OBVIOUS
<1>2. PICK k \in Nat : k = m * a
  OBVIOUS
<1>3. (k + m) * (1 + c) = k * (1 + c) + m + m * c
  OBVIOUS
<1>4. m * c \in Nat /\ k * (1 + c) \in Nat
  OBVIOUS
<1> QED
  BY <1>1, <1>2, <1>3, <1>4

LEMMA BoundCrash ==
    ASSUME NEW m \in Nat, NEW a \in Nat, NEW c \in Nat, NEW n \in Nat, n <= a
    PROVE  m * a * (1 + c) + n * m <= m * a * (1 + (c + 1))
<1>1. PICK e \in Nat : a = n + e
  <2>1. a - n \in Nat /\ a = n + (a - n)
    OBVIOUS
  <2> QED
    BY <2>1
<1>2. m * a = n * m + e * m /\ e * m \in Nat /\ n * m \in Nat
  BY <1>1
<1>3. PICK k \in Nat : k = m * a
  OBVIOUS
<1>4. k * (1 + (c + 1)) = k * (1 + c) + k
  OBVIOUS
<1>5. k * (1 + c) \in Nat
  OBVIOUS
<1> QED
  BY <1>2, <1>3, <1>4, <1>5

\* The possible positions in a reply.
LEMMA Lengths == MaxLen \in Nat /\ IsFiniteSet(1..MaxLen) /\ Cardinality(1..MaxLen) = MaxLen
<1>1. MaxLen \in Nat /\ 1 \in Int /\ MaxLen \in Int
  BY BridgeAssumption
<1> QED
  BY <1>1, FS_Interval

\* A reply owes at most its length, so finitely many replies owe finitely much.
LEMMA OwedFinite ==
    ASSUME NEW f, IsFiniteSet(Live(f))
    PROVE  /\ IsFiniteSet(Unsent(f)) /\ Cardinality(Unsent(f)) \in Nat
           /\ Cardinality(Unsent(f)) <= Cardinality(Live(f)) * MaxLen
<1>1. IsFiniteSet(1..MaxLen) /\ Cardinality(1..MaxLen) = MaxLen
  BY Lengths
<1>2. /\ IsFiniteSet(Live(f) \X (1..MaxLen))
      /\ Cardinality(Live(f) \X (1..MaxLen)) = Cardinality(Live(f)) * MaxLen
  BY <1>1, FS_Product
<1>3. Unsent(f) \in SUBSET (Live(f) \X (1..MaxLen))
  BY DEF Unsent
<1> QED
  BY <1>2, <1>3, FS_Subset, FS_CardinalityType

\* The same after a step.
LEMMA OwedFiniteNext ==
    ASSUME NEW f, IsFiniteSet(Live(f)')
    PROVE  /\ IsFiniteSet(Unsent(f)') /\ Cardinality(Unsent(f)') \in Nat
           /\ Cardinality(Unsent(f)') <= Cardinality(Live(f)') * MaxLen
<1>1. IsFiniteSet(1..MaxLen) /\ Cardinality(1..MaxLen) = MaxLen
  BY Lengths
<1>2. /\ IsFiniteSet(Live(f)' \X (1..MaxLen))
      /\ Cardinality(Live(f)' \X (1..MaxLen)) = Cardinality(Live(f)') * MaxLen
  BY <1>1, FS_Product
<1>3. Unsent(f)' \in SUBSET (Live(f)' \X (1..MaxLen))
  BY DEF Unsent
<1> QED
  BY <1>2, <1>3, FS_Subset, FS_CardinalityType

\* A step that sends nothing for f and answers f no more keeps f's account, if
\* no reply to f appears or forgets what it sent.
LEMMA PaidKept ==
    ASSUME TypeInd, TypeInd', NEW f \in Forwards, Paid(f),
           Live(f)' \subseteq Live(f), Unsent(f)' \subseteq Unsent(f),
           sends'[f] = sends[f], answered'[f] = answered[f],
           faults["crash"] <= faults'["crash"]
    PROVE  Paid(f)'
<1> DEFINE c == faults["crash"]  d == faults'["crash"]
<1>1. /\ MaxLen \in Nat /\ answered[f] \in Nat /\ sends[f] \in Nat
      /\ c \in Nat /\ d \in Nat /\ c <= d
  BY BridgeAssumption DEF TypeInd, TypeOK, FaultKinds
<1>2. /\ IsFiniteSet(Live(f)) /\ Cardinality(Live(f)) <= answered[f]
      /\ sends[f] + Cardinality(Unsent(f)) <= MaxLen * answered[f] * (1 + c)
  BY DEF Paid
<1>3. /\ IsFiniteSet(Live(f)') /\ Cardinality(Live(f)') <= Cardinality(Live(f))
      /\ Cardinality(Live(f)') \in Nat /\ Cardinality(Live(f)) \in Nat
  BY <1>2, FS_Subset, FS_CardinalityType
<1>4. IsFiniteSet(Unsent(f)) /\ Cardinality(Unsent(f)) \in Nat
  BY <1>2, OwedFinite
<1>5. Cardinality(Unsent(f)') <= Cardinality(Unsent(f)) /\ Cardinality(Unsent(f)') \in Nat
  BY <1>4, FS_Subset, FS_CardinalityType
<1>6. MaxLen * answered[f] * (1 + c) <= MaxLen * answered[f] * (1 + d)
  BY <1>1, BoundGrows
<1>7. MaxLen * answered[f] * (1 + c) \in Nat /\ MaxLen * answered[f] * (1 + d) \in Nat
  BY <1>1
<1>8. Cardinality(Live(f)') <= answered'[f]
  BY <1>1, <1>2, <1>3
<1>9. sends'[f] + Cardinality(Unsent(f)') <= MaxLen * answered[f] * (1 + d)
  BY <1>1, <1>2, <1>4, <1>5, <1>6, <1>7
<1> QED
  BY <1>3, <1>8, <1>9 DEF Paid

\* A reply that keeps its place, its envelope and its count, or is gone, owes
\* no more than before.
LEMMA RepliesKept ==
    ASSUME \A q \in Copies : \/ reply'[q] = NoReply
                             \/ /\ reply[q] # NoReply /\ reply'[q].id = reply[q].id
                                /\ reply'[q].sent = reply[q].sent,
           NEW f
    PROVE  Live(f)' \subseteq Live(f) /\ Unsent(f)' \subseteq Unsent(f)
<1>1. Live(f)' \subseteq Live(f)
  BY DEF Live
<1>2. ASSUME NEW p \in Copies \X (1..MaxLen), p[1] \in Live(f)', p[2] > reply'[p[1]].sent
      PROVE  p[1] \in Live(f) /\ p[2] > reply[p[1]].sent
  <2>1. p[1] \in Copies /\ reply'[p[1]] # NoReply
    BY <1>2 DEF Live
  <2> QED
    BY <1>1, <1>2, <2>1
<1> QED
  BY <1>1, <1>2 DEF Unsent

\* The send of a message turns one owed send into a send made.
LEMMA PaidSend ==
    ASSUME TypeInd, TypeInd', SendsInd, NEW r \in Copies, SendNext(r),
           NEW f \in Forwards
    PROVE  Paid(f)'
<1> DEFINE g == reply[r].id
           k == reply[r].sent + 1
<1>1. reply[r] \in Reply /\ reply[r].sent < reply[r].len
  BY DEF SendNext, TypeInd, TypeOK, NoReply
<1>2. g \in Forwards /\ k \in 1..MaxLen
  BY <1>1, BridgeAssumption DEF Reply
<1>3. /\ \A q \in Copies \ {r} : reply'[q] = reply[q]
      /\ reply'[r] = [reply[r] EXCEPT !.sent = @ + 1]
  BY DEF SendNext, TypeInd, TypeOK
<1>4. /\ reply'[r].id = g /\ reply'[r].sent = k
      /\ reply'[r].at = "handling" /\ reply[r].at = "handling"
  BY <1>1, <1>3 DEF Reply, SendNext
<1>5. reply'[r] # NoReply /\ reply[r] # NoReply
  BY <1>4 DEF NoReply
<1>6. Live(f)' = Live(f)
  BY <1>3, <1>4, <1>5 DEF Live
<1>7. /\ UNCHANGED <<answered, faults>>
      /\ sends' = [sends EXCEPT ![g] = @ + 1]
  BY DEF SendNext, botVars
<1>8. /\ MaxLen \in Nat /\ answered[f] \in Nat /\ sends[f] \in Nat /\ faults["crash"] \in Nat
  BY BridgeAssumption DEF TypeInd, TypeOK, FaultKinds
<1>9. Paid(f)
  BY DEF SendsInd
<1>10. IsFiniteSet(Live(f))
  BY <1>9 DEF Paid
<1>11. reply[r].sent \in Nat
  BY <1>1, BridgeAssumption DEF Reply
<1>12. CASE f # g
  <2>1. r \notin Live(f)
    BY <1>12 DEF Live
  <2>2. Unsent(f)' \subseteq Unsent(f)
    <3>1. ASSUME NEW p \in Copies \X (1..MaxLen), p[1] \in Live(f)', p[2] > reply'[p[1]].sent
          PROVE  p[1] \in Live(f) /\ p[2] > reply[p[1]].sent
      BY <1>3, <1>6, <2>1, <3>1
    <3> QED
      BY <3>1 DEF Unsent
  <2>3. /\ sends'[f] = sends[f] /\ answered'[f] = answered[f]
        /\ faults["crash"] <= faults'["crash"]
    BY <1>7, <1>8, <1>12 DEF TypeInd, TypeOK
  <2> QED
    BY <1>6, <1>9, <2>2, <2>3, PaidKept
<1>13. CASE f = g
  <2> HIDE DEF k
  <2>1. r \in Live(f)
    BY <1>5, <1>13 DEF Live
  <2>2. <<r, k>> \in Unsent(f)
    <3>1. k > reply[r].sent
      BY <1>11 DEF k
    <3> QED
      BY <1>2, <2>1, <3>1 DEF Unsent
  <2>3. Unsent(f)' \subseteq Unsent(f) \ {<<r, k>>}
    <3>1. ASSUME NEW p \in Copies \X (1..MaxLen), p[1] \in Live(f)', p[2] > reply'[p[1]].sent
          PROVE  p[1] \in Live(f) /\ p[2] > reply[p[1]].sent /\ p # <<r, k>>
      <4>1. CASE p[1] = r
        <5>1. p[2] > k /\ p[2] \in Int
          BY <1>4, <3>1, <4>1
        <5>2. p[2] > reply[r].sent /\ p[2] # k
          BY <5>1, <1>11 DEF k
        <5> QED
          BY <2>1, <4>1, <5>2
      <4>2. CASE p[1] # r
        BY <1>3, <1>6, <3>1, <4>2
      <4> QED
        BY <4>1, <4>2
    <3> QED
      BY <3>1 DEF Unsent
  <2>4. IsFiniteSet(Unsent(f)) /\ Cardinality(Unsent(f)) \in Nat
    BY <1>10, OwedFinite
  <2>5. /\ IsFiniteSet(Unsent(f) \ {<<r, k>>})
        /\ Cardinality(Unsent(f) \ {<<r, k>>}) = Cardinality(Unsent(f)) - 1
    BY <2>2, <2>4, FS_RemoveElement
  <2>6. Cardinality(Unsent(f)') <= Cardinality(Unsent(f)) - 1
    BY <2>3, <2>5, FS_Subset
  <2>7. Cardinality(Unsent(f)') \in Nat
    BY <1>6, <1>10, OwedFiniteNext
  <2>8. sends'[f] = sends[f] + 1
    BY <1>7, <1>13 DEF TypeInd, TypeOK
  <2>9. sends'[f] + Cardinality(Unsent(f)') <= sends[f] + Cardinality(Unsent(f))
    BY <1>8, <2>4, <2>6, <2>7, <2>8
  <2>10. PICK b \in Nat : b = MaxLen * answered[f] * (1 + faults["crash"])
    BY <1>8
  <2>11. b = MaxLen * answered'[f] * (1 + faults'["crash"])
    BY <1>7, <2>10
  <2>12. sends'[f] + Cardinality(Unsent(f)') <= b
    BY <1>8, <1>9, <2>4, <2>7, <2>8, <2>9, <2>10 DEF Paid
  <2> QED
    BY <1>6, <1>7, <1>9, <2>11, <2>12 DEF Paid
<1> QED
  BY <1>12, <1>13

\* A new answer owes one reply's length and raises the bound by as much.
LEMMA PaidAnswer ==
    ASSUME TypeInd, TypeInd', SendsInd, NEW g \in Forwards, NEW r \in Copies,
           NEW n \in 0..MaxLen, NEW again \in BOOLEAN, BotAnswers(g, r, n, again),
           NEW f \in Forwards
    PROVE  Paid(f)'
<1> DEFINE c == faults["crash"]  d == faults'["crash"]
<1>1. /\ MaxLen \in Nat /\ answered[f] \in Nat /\ sends[f] \in Nat
      /\ c \in Nat /\ d \in Nat
  BY BridgeAssumption DEF TypeInd, TypeOK, FaultKinds
<1>2. d = c
  BY DEF BotAnswers, Fault, FaultKinds, TypeInd, TypeOK
<1>3. Paid(f)
  BY DEF SendsInd
<1>4. /\ reply[r] = NoReply
      /\ \A q \in Copies \ {r} : reply'[q] = reply[q]
      /\ reply'[r].id = g /\ reply'[r].sent = 0 /\ reply'[r].at = "queued"
  BY DEF BotAnswers, TypeInd, TypeOK
<1>5. UNCHANGED sends /\ answered' = [answered EXCEPT ![g] = @ + 1]
  BY DEF BotAnswers
<1>6. reply'[r] # NoReply /\ r \notin Live(f)
  BY <1>4 DEF NoReply, Live
<1>7. IsFiniteSet(Live(f)) /\ Cardinality(Live(f)) \in Nat /\ Cardinality(Live(f)) <= answered[f]
  BY <1>3, FS_CardinalityType DEF Paid
<1>8. CASE f # g
  <2>1. Live(f)' \subseteq Live(f)
    BY <1>4, <1>6, <1>8 DEF Live
  <2>2. Unsent(f)' \subseteq Unsent(f)
    <3>1. ASSUME NEW p \in Copies \X (1..MaxLen), p[1] \in Live(f)', p[2] > reply'[p[1]].sent
          PROVE  p[1] \in Live(f) /\ p[2] > reply[p[1]].sent
      <4>1. p[1] # r
        BY <1>6, <2>1, <3>1
      <4> QED
        BY <1>4, <2>1, <3>1, <4>1
    <3> QED
      BY <3>1 DEF Unsent
  <2>3. sends'[f] = sends[f] /\ answered'[f] = answered[f] /\ c <= d
    BY <1>1, <1>2, <1>5, <1>8 DEF TypeInd, TypeOK
  <2> QED
    BY <1>3, <2>1, <2>2, <2>3, PaidKept
<1>9. CASE f = g
  <2>1. Live(f)' = Live(f) \cup {r}
    BY <1>4, <1>6, <1>9 DEF Live
  <2>2. /\ IsFiniteSet(Live(f)')
        /\ Cardinality(Live(f)') = Cardinality(Live(f)) + 1
    BY <1>6, <1>7, <2>1, FS_AddElement
  <2>3. answered'[f] = answered[f] + 1
    BY <1>5, <1>9 DEF TypeInd, TypeOK
  <2>4. Unsent(f)' \subseteq Unsent(f) \cup ({r} \X (1..MaxLen))
    <3>1. ASSUME NEW p \in Copies \X (1..MaxLen), p[1] \in Live(f)', p[2] > reply'[p[1]].sent,
                 p[1] # r
          PROVE  p[1] \in Live(f) /\ p[2] > reply[p[1]].sent
      BY <1>4, <2>1, <3>1
    <3> QED
      BY <3>1 DEF Unsent
  <2>5. /\ IsFiniteSet({r} \X (1..MaxLen))
        /\ Cardinality({r} \X (1..MaxLen)) = MaxLen
    <3>1. IsFiniteSet(1..MaxLen) /\ Cardinality(1..MaxLen) = MaxLen
      BY Lengths
    <3>2. IsFiniteSet({r}) /\ Cardinality({r}) = 1
      BY FS_Singleton
    <3>3. /\ IsFiniteSet({r} \X (1..MaxLen))
          /\ Cardinality({r} \X (1..MaxLen)) = 1 * MaxLen
      BY <3>1, <3>2, FS_Product
    <3> QED
      BY <1>1, <3>3
  <2>6. IsFiniteSet(Unsent(f)) /\ Cardinality(Unsent(f)) \in Nat
    BY <1>7, OwedFinite
  <2> DEFINE more == {r} \X (1..MaxLen)
  <2>7. /\ IsFiniteSet(Unsent(f) \cup more)
        /\ Cardinality(Unsent(f) \cup more)
             = Cardinality(Unsent(f)) + MaxLen - Cardinality(Unsent(f) \cap more)
    BY <2>5, <2>6, FS_Union
  <2>8. Cardinality(Unsent(f) \cap more) \in Nat
    BY <2>6, FS_Intersection, FS_CardinalityType
  <2>9. /\ Cardinality(Unsent(f)') <= Cardinality(Unsent(f) \cup more)
        /\ Cardinality(Unsent(f)') \in Nat
    BY <2>2, <2>4, <2>7, FS_Subset, OwedFiniteNext
  <2>10. Cardinality(Unsent(f)') <= Cardinality(Unsent(f)) + MaxLen
    BY <1>1, <2>6, <2>7, <2>8, <2>9
  <2>11. MaxLen * answered[f] * (1 + c) + MaxLen <= MaxLen * (answered[f] + 1) * (1 + c)
    BY <1>1, BoundAnswer
  <2>12. MaxLen * answered[f] * (1 + c) \in Nat /\ MaxLen * (answered[f] + 1) * (1 + c) \in Nat
    BY <1>1
  <2>13. sends[f] + Cardinality(Unsent(f)) <= MaxLen * answered[f] * (1 + c)
    BY <1>3 DEF Paid
  <2>14. sends[f] + Cardinality(Unsent(f)') <= MaxLen * (answered[f] + 1) * (1 + c)
    BY <1>1, <2>6, <2>9, <2>10, <2>11, <2>12, <2>13
  <2>15. Cardinality(Live(f)') <= answered'[f]
    BY <1>1, <1>7, <2>2, <2>3
  <2> QED
    BY <1>2, <1>5, <2>2, <2>3, <2>14, <2>15 DEF Paid
<1> QED
  BY <1>8, <1>9

\* A crash makes every reply in the queue owe its whole length again.
LEMMA PaidCrash ==
    ASSUME TypeInd, TypeInd', SendsInd, Crash, NEW f \in Forwards
    PROVE  Paid(f)'
<1> DEFINE c == faults["crash"]
<1>1. /\ MaxLen \in Nat /\ answered[f] \in Nat /\ sends[f] \in Nat /\ c \in Nat
  BY BridgeAssumption DEF TypeInd, TypeOK, FaultKinds
<1>2. faults'["crash"] = c + 1 /\ UNCHANGED <<sends, answered>>
  BY DEF Crash, Fault, FaultKinds, TypeInd, TypeOK, botVars
<1>3. Paid(f)
  BY DEF SendsInd
<1>4. Live(f)' \subseteq Live(f)
  <2>1. ASSUME NEW q \in Copies, reply'[q] # NoReply
        PROVE  reply[q] # NoReply /\ reply'[q].id = reply[q].id
    <3>1. /\ reply[q] # NoReply
          /\ reply'[q] = [reply[q] EXCEPT !.at = "queued", !.sent = 0, !.known = FALSE]
      BY <2>1 DEF Crash
    <3>2. reply[q] \in Reply
      BY <3>1 DEF TypeInd, TypeOK
    <3> QED
      BY <3>1, <3>2, ReplyRequeued
  <2> QED
    BY <2>1 DEF Live
<1>5. IsFiniteSet(Live(f)) /\ Cardinality(Live(f)) \in Nat /\ Cardinality(Live(f)) <= answered[f]
  BY <1>3, FS_CardinalityType DEF Paid
<1>6. /\ IsFiniteSet(Live(f)') /\ Cardinality(Live(f)') \in Nat
      /\ Cardinality(Live(f)') <= answered[f]
  BY <1>1, <1>4, <1>5, FS_Subset, FS_CardinalityType
<1>7. /\ Cardinality(Unsent(f)') \in Nat
      /\ Cardinality(Unsent(f)') <= Cardinality(Live(f)') * MaxLen
  BY <1>6, OwedFiniteNext
<1>8. /\ MaxLen * answered[f] * (1 + c) + Cardinality(Live(f)') * MaxLen
           <= MaxLen * answered[f] * (1 + (c + 1))
  BY <1>1, <1>6, BoundCrash
<1>9. /\ MaxLen * answered[f] * (1 + c) \in Nat /\ Cardinality(Live(f)') * MaxLen \in Nat
      /\ MaxLen * answered[f] * (1 + (c + 1)) \in Nat
  BY <1>1, <1>6
<1>10. sends[f] <= MaxLen * answered[f] * (1 + c)
  <2>1. Cardinality(Unsent(f)) \in Nat
    BY <1>5, OwedFinite
  <2> QED
    BY <1>1, <1>3, <1>9, <2>1 DEF Paid
<1>11. sends[f] + Cardinality(Unsent(f)') <= MaxLen * answered[f] * (1 + (c + 1))
  BY <1>1, <1>7, <1>8, <1>9, <1>10
<1> QED
  BY <1>2, <1>6, <1>11 DEF Paid

LEMMA SendsInit == Init => SendsInd
<1> SUFFICES ASSUME Init, NEW f \in Forwards
             PROVE  Paid(f)
  BY DEF SendsInd
<1>1. Live(f) = {} /\ Unsent(f) = {}
  BY DEF Init, Live, Unsent
<1>2. /\ MaxLen \in Nat /\ answered[f] = 0 /\ sends[f] = 0 /\ faults["crash"] = 0
  BY BridgeAssumption DEF Init, FaultKinds
<1>3. MaxLen * 0 * (1 + 0) = 0
  BY <1>2
<1> QED
  BY <1>1, <1>2, <1>3, FS_EmptySet DEF Paid

\* Cases: a send, an answer and a crash move the account; every other step
\* leaves the replies where they are or takes one away.
LEMMA SendsStep == TypeInd /\ TypeInd' /\ SendsInd /\ [Next]_vars => SendsInd'
<1> SUFFICES ASSUME TypeInd, TypeInd', SendsInd, [Next]_vars, NEW f \in Forwards
             PROVE  Paid(f)'
  BY DEF SendsInd
<1>0. faults \in [FaultKinds -> Nat] /\ Paid(f)
  BY DEF TypeInd, TypeOK, SendsInd
<1>1. \A k \in FaultKinds : Fault(k) => faults["crash"] <= faults'["crash"]
  BY <1>0 DEF Fault, FaultKinds
<1>2. UNCHANGED faults => faults["crash"] <= faults'["crash"]
  BY <1>0 DEF FaultKinds
<1>3. \A ok, chats : Presence(ok, chats) => faults["crash"] <= faults'["crash"]
  BY <1>1, <1>2 DEF Presence, FaultKinds
<1>4. ASSUME UNCHANGED <<reply, sends, answered>>, faults["crash"] <= faults'["crash"]
      PROVE  Paid(f)'
  <2>1. Live(f)' \subseteq Live(f) /\ Unsent(f)' \subseteq Unsent(f)
    BY <1>4 DEF Live, Unsent
  <2> QED
    BY <1>0, <1>4, <2>1, PaidKept
<1>5. ASSUME NEW g \in Forwards, Forward(g) \/ ForwardStep(g) \/ BotSkips(g)
      PROVE  Paid(f)'
  <2>1. UNCHANGED <<reply, sends, answered>>
    BY <1>5 DEF Forward, ForwardStep, React, ReactFails, StartTyping, Publish,
       PublishFails, Track, ConfirmFails, StopTyping, BotSkips, botVars, replyVars
  <2>2. faults["crash"] <= faults'["crash"]
    BY <1>1, <1>2, <1>3, <1>5 DEF Forward, ForwardStep, React, ReactFails, StartTyping,
       Publish, PublishFails, Track, ConfirmFails, StopTyping, BotSkips, FaultKinds
  <2> QED
    BY <1>4, <2>1, <2>2
<1>6. ASSUME NEW g \in Forwards, NEW r \in Copies, NEW n \in 0..MaxLen,
             NEW again \in BOOLEAN, BotAnswers(g, r, n, again)
      PROVE  Paid(f)'
  BY <1>6, PaidAnswer
<1>7. ASSUME NEW r \in Copies, UNCHANGED <<sends, answered>>,
             faults["crash"] <= faults'["crash"],
             \A q \in Copies \ {r} : reply'[q] = reply[q],
             \/ reply'[r] = NoReply
             \/ /\ reply[r] # NoReply /\ reply'[r].id = reply[r].id
                /\ reply'[r].sent = reply[r].sent
      PROVE  Paid(f)'
  <2>1. Live(f)' \subseteq Live(f) /\ Unsent(f)' \subseteq Unsent(f)
    BY <1>7, RepliesKept
  <2> QED
    BY <1>0, <1>7, <2>1, PaidKept
<1>8. ASSUME NEW r \in Copies, Receive(r)
      PROVE  Paid(f)'
  <2> DEFINE new == [reply[r] EXCEPT !.at = "handling", !.known = reply[r].id \in inFlight]
  <2>1. reply[r] \in Reply /\ reply[r] # NoReply
    BY <1>8 DEF Receive, TypeInd, TypeOK, NoReply
  <2>2. /\ \A q \in Copies \ {r} : reply'[q] = reply[q]
        /\ reply'[r] = new
    BY <1>8 DEF Receive, TypeInd, TypeOK
  <2>3. UNCHANGED <<sends, answered, faults>>
    BY <1>8 DEF Receive, botVars
  <2>4. new.id = reply[r].id /\ new.sent = reply[r].sent
    BY <2>1, ReplyReceived
  <2> HIDE DEF new
  <2> QED
    BY <1>2, <1>7, <2>1, <2>2, <2>3, <2>4
<1>9. ASSUME NEW r \in Copies, ReplyAt(r, "ack"), reply[r].at = "handling",
             UNCHANGED <<sends, answered>>, faults["crash"] <= faults'["crash"]
      PROVE  Paid(f)'
  <2>1. reply[r] \in Reply /\ reply[r] # NoReply
    BY <1>9 DEF TypeInd, TypeOK, NoReply
  <2>2. /\ \A q \in Copies \ {r} : reply'[q] = reply[q]
        /\ reply'[r] = [reply[r] EXCEPT !.at = "ack"]
    BY <1>9 DEF ReplyAt, TypeInd, TypeOK
  <2>3. reply'[r].id = reply[r].id /\ reply'[r].sent = reply[r].sent
    BY <2>1, <2>2, ReplyFinished
  <2> QED
    BY <1>7, <1>9, <2>1, <2>2, <2>3
<1>10. ASSUME NEW r \in Copies, SendFails(r)
       PROVE  Paid(f)'
  <2>1. UNCHANGED <<sends, answered>> /\ ReplyAt(r, "ack") /\ reply[r].at = "handling"
    BY <1>10 DEF SendFails, botVars
  <2>2. faults["crash"] <= faults'["crash"]
    BY <1>1, <1>10 DEF SendFails, FaultKinds
  <2> QED
    BY <1>9, <2>1, <2>2
<1>11. ASSUME NEW r \in Copies, NEW ok \in BOOLEAN, StopReply(r, ok)
       PROVE  Paid(f)'
  <2>1. UNCHANGED <<sends, answered>> /\ ReplyAt(r, "ack") /\ reply[r].at = "handling"
    BY <1>11 DEF StopReply, botVars
  <2>2. faults["crash"] <= faults'["crash"]
    BY <1>2, <1>3, <1>11 DEF StopReply
  <2> QED
    BY <1>9, <2>1, <2>2
<1>12. ASSUME NEW r \in Copies, Ack(r)
       PROVE  Paid(f)'
  <2>1. /\ \A q \in Copies \ {r} : reply'[q] = reply[q]
        /\ reply'[r] = NoReply /\ UNCHANGED <<sends, answered, faults>>
    BY <1>12 DEF Ack, botVars, TypeInd, TypeOK
  <2> QED
    BY <1>2, <1>7, <2>1
<1>13. ASSUME NEW r \in Copies, SendNext(r)
       PROVE  Paid(f)'
  BY <1>13, PaidSend
<1>14. CASE Crash
  BY <1>14, PaidCrash
<1>15. CASE UNCHANGED vars
  BY <1>2, <1>4, <1>15 DEF vars
<1> QED
  BY <1>5, <1>6, <1>8, <1>10, <1>11, <1>12, <1>13, <1>14, <1>15
  DEF Next, BotStep, ReplyStep

\* For any number of forwards, replies, answers and faults, a chat gets each
\* reply once, and once more at most per gateway restart.
THEOREM SendsStayBounded == Spec => []SendsBounded
<1>1. TypeInd /\ SendsInd => SendsBounded
  <2> SUFFICES ASSUME TypeInd, SendsInd, NEW f \in Forwards
               PROVE  sends[f] <= MaxLen * answered[f] * (1 + faults["crash"])
    BY DEF SendsBounded
  <2>1. Paid(f) /\ sends[f] \in Nat
    BY DEF SendsInd, TypeInd, TypeOK
  <2>2. Cardinality(Unsent(f)) \in Nat
    BY <2>1, OwedFinite DEF Paid
  <2>3. MaxLen * answered[f] * (1 + faults["crash"]) \in Nat
    BY BridgeAssumption DEF TypeInd, TypeOK, FaultKinds
  <2> QED
    BY <2>1, <2>2, <2>3 DEF Paid
<1> QED
  BY <1>1, SendsInit, SendsStep, TypeIndHolds, PTL DEF Spec
=============================================================================
