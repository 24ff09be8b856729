----------------------- MODULE CommandDeliveryProofs -----------------------
(* Proofs about CommandDelivery, for every set of commands and copies. *)
EXTENDS CommandDelivery, Integers, TLAPS

LEMMA TypeInit == Init => TypeOK
  BY ConstantsAssumption DEF Init, TypeOK, Places, Steps, Envelope, Blank

\* Cases: every action keeps every variable within its type, and a copy is
\* unacked exactly as long as it has a task.
LEMMA TypeStep == TypeOK /\ [Next]_vars => TypeOK'
<1> SUFFICES ASSUME TypeOK, [Next]_vars
             PROVE  TypeOK'
  OBVIOUS
<1> USE ConstantsAssumption DEF TypeOK, Places, Steps, Fault, Enqueue, Goto,
        Cmd, brokerVars, taskVars
<1>1. ASSUME NEW c \in Cmds, NEW u \in Tags, Publish(c, u) \/ PublishAgain(c, u)
      PROVE  TypeOK'
  <2> DEFINE e == [cmd |-> c, attempts |-> 0, replayed |-> FALSE]
  <2>1. e \in Envelope
    BY DEF Envelope
  <2> HIDE DEF e
  <2>2. CASE Publish(c, u)
    BY <2>1, <2>2 DEF Publish, e
  <2>3. CASE PublishAgain(c, u)
    <3>1. faults' \in [FaultKinds -> Nat]
      BY <2>3 DEF PublishAgain, FaultKinds
    <3> QED
      BY <2>1, <2>3, <3>1 DEF PublishAgain, e
  <2> QED
    BY <1>1, <2>2, <2>3
<1>2. ASSUME NEW t \in Tags, NEW u \in Tags, NEW acked \in BOOLEAN,
             Replay(t, u, acked)
      PROVE  TypeOK'
  <2> DEFINE e == [env[t] EXCEPT !.attempts = 0, !.replayed = TRUE]
  <2>1. env[t] \in Envelope /\ t # u
    BY <1>2 DEF Replay
  <2>2. e \in Envelope
    BY <2>1 DEF Envelope
  <2>3. /\ at' \in [Tags -> Places]
        /\ \A v \in Tags : at'[v] = "unacked" <=> at[v] = "unacked"
        /\ \A v \in Tags : at'[v] # "none" => v = u \/ (at[v] # "none" /\ ~(v = t /\ acked))
    BY <1>2, <2>1 DEF Replay
  <2> HIDE DEF e
  <2>4. /\ env' \in [Tags -> Envelope \cup {Blank}]
        /\ env'[u] = e
        /\ \A v \in Tags \ {u} : ~(v = t /\ acked) => env'[v] = env[v]
    BY <1>2, <2>1, <2>2 DEF Replay, e
  <2>5. UNCHANGED step /\ faults' \in [FaultKinds -> Nat]
    BY <1>2 DEF Replay, FaultKinds
  <2> QED
    BY <1>2, <2>2, <2>3, <2>4, <2>5 DEF Replay
<1>3. ASSUME Crash \/ CloseConsumer
      PROVE  TypeOK'
  BY <1>3 DEF Crash, CloseConsumer, Die, FaultKinds
<1>4. ASSUME StopConsuming \/ DrainTimeout \/ CloseIdle \/ Start
      PROVE  TypeOK'
  BY <1>4 DEF StopConsuming, DrainTimeout, CloseIdle, Start, FaultKinds
<1>5. ASSUME NEW t \in Tags, Deliver(t) \/ RetryDue(t)
      PROVE  TypeOK'
  BY <1>5 DEF Deliver, RetryDue, Guarded, Keyed, Envelope
<1>6. ASSUME NEW t \in Tags, Progress(t)
      PROVE  TypeOK'
  <2>1. CASE CheckInbox(t)
    BY <2>1 DEF CheckInbox, Release
  <2>2. CASE Refuse(t) \/ Admit(t) \/ EnterLane(t) \/ Finish(t)
    BY <2>2 DEF Refuse, Admit, EnterLane, Finish
  <2>3. ASSUME NEW limit \in {1, MaxAttempts}, Fail(t, limit)
        PROVE  TypeOK'
    BY <2>3 DEF Fail
  <2>4. ASSUME NEW u \in Tags, ScheduleRetry(t, u)
        PROVE  TypeOK'
    BY <2>4 DEF ScheduleRetry, Release, Retried, Envelope
  <2>5. ASSUME NEW u \in Tags, DeadLetter(t, u)
        PROVE  TypeOK'
    BY <2>5 DEF DeadLetter, Envelope
  <2>6. CASE PublishReply(t)
    BY <2>6 DEF PublishReply, Answered, Envelope
  <2>7. CASE MarkAnswered(t)
    BY <2>7 DEF MarkAnswered, Release, Envelope
  <2>8. CASE Ack(t)
    BY <2>8 DEF Ack, Blank
  <2>9. CASE Reject(t)
    BY <2>9 DEF Reject, Envelope
  <2>10. CASE PoisonCrash(t)
    BY <2>10 DEF PoisonCrash, Die
  <2> QED
    BY <1>6, <2>1, <2>2, <2>3, <2>4, <2>5, <2>6, <2>7, <2>8, <2>9, <2>10
    DEF Progress
<1>7. ASSUME NEW t \in Tags, Faulty(t)
      PROVE  TypeOK'
  <2>1. CASE CheckInboxFailsOpen(t) \/ MarkAnsweredFails(t)
    BY <2>1 DEF CheckInboxFailsOpen, MarkAnsweredFails, Release, FaultKinds
  <2>2. CASE PublishFails(t)
    BY <2>2 DEF PublishFails, PublishFault, Release, FaultKinds
  <2>3. ASSUME NEW u \in Tags, PublishUnconfirmed(t, u)
        PROVE  TypeOK'
    BY <2>3 DEF PublishUnconfirmed, PublishFault, Release, FaultKinds, Retried,
                Answered, Envelope
  <2> QED
    BY <1>7, <2>1, <2>2, <2>3 DEF Faulty
<1>8. CASE UNCHANGED vars
  BY <1>8 DEF vars
<1> QED
  BY <1>1, <1>2, <1>3, <1>4, <1>5, <1>6, <1>7, <1>8 DEF Next, Environment

\* Types, and "unacked exactly while a task handles it", hold throughout.
THEOREM TypeCorrect == Spec => []TypeOK
  BY TypeInit, TypeStep, PTL DEF Spec

-----------------------------------------------------------------------------
(* The exclusive lane. *)

LEMMA LaneInit == Init => LaneSafe
  BY ConstantsAssumption DEF Init, LaneSafe, LaneHeld, LaneUsed, LaneQueue, InLane,
     LaneSteps

\* Cases: the lane changes hands only in EnterLane and in the steps that leave
\* the AsyncExitStack; everywhere else the holder's copy keeps its command.
LEMMA LaneStep == TypeOK /\ LaneSafe /\ [Next]_vars => LaneSafe'
<1> SUFFICES ASSUME TypeOK, LaneSafe, [Next]_vars
             PROVE  LaneSafe'
  OBVIOUS
<1> USE ConstantsAssumption DEF TypeOK, LaneSafe, LaneHeld, LaneUsed, LaneQueue,
        InLane, LaneSteps, Cmd, Enqueue, Goto, Steps, brokerVars, taskVars
<1>1. ASSUME NEW c \in Cmds, NEW u \in Tags, Publish(c, u) \/ PublishAgain(c, u)
      PROVE  LaneSafe'
  BY <1>1 DEF Publish, PublishAgain
<1>2. ASSUME NEW t \in Tags, NEW u \in Tags, NEW acked \in BOOLEAN,
             Replay(t, u, acked)
      PROVE  LaneSafe'
  BY <1>2 DEF Replay
<1>3. ASSUME Crash \/ CloseConsumer
      PROVE  LaneSafe'
  BY <1>3 DEF Crash, CloseConsumer, Die
<1>4. ASSUME StopConsuming \/ DrainTimeout \/ CloseIdle \/ Start
      PROVE  LaneSafe'
  BY <1>4 DEF StopConsuming, DrainTimeout, CloseIdle, Start
<1>5. ASSUME NEW t \in Tags, Deliver(t) \/ RetryDue(t)
      PROVE  LaneSafe'
  BY <1>5 DEF Deliver, RetryDue
<1>6. ASSUME NEW t \in Tags, Progress(t)
      PROVE  LaneSafe'
  <2>1. CASE CheckInbox(t)
    BY <2>1 DEF CheckInbox, Release
  <2>2. CASE Refuse(t) \/ Admit(t) \/ EnterLane(t) \/ Finish(t)
    <3>1. CASE Refuse(t) \/ Finish(t)
      BY <3>1 DEF Refuse, Finish
    <3>2. CASE Admit(t)
      BY <3>2 DEF Admit
    <3>3. CASE EnterLane(t)
      BY <3>3 DEF EnterLane
    <3> QED
      BY <2>2, <3>1, <3>2, <3>3
  <2>3. ASSUME NEW limit \in {1, MaxAttempts}, Fail(t, limit)
        PROVE  LaneSafe'
    BY <2>3 DEF Fail
  <2>4. ASSUME NEW u \in Tags, ScheduleRetry(t, u)
        PROVE  LaneSafe'
    BY <2>4 DEF ScheduleRetry, Release
  <2>5. ASSUME NEW u \in Tags, DeadLetter(t, u)
        PROVE  LaneSafe'
    BY <2>5 DEF DeadLetter
  <2>6. CASE PublishReply(t)
    BY <2>6 DEF PublishReply
  <2>7. CASE MarkAnswered(t)
    BY <2>7 DEF MarkAnswered, Release
  <2>8. CASE Ack(t)
    BY <2>8 DEF Ack
  <2>9. CASE Reject(t)
    BY <2>9 DEF Reject
  <2>10. CASE PoisonCrash(t)
    BY <2>10 DEF PoisonCrash, Die
  <2> QED
    BY <1>6, <2>1, <2>2, <2>3, <2>4, <2>5, <2>6, <2>7, <2>8, <2>9, <2>10
    DEF Progress
<1>7. ASSUME NEW t \in Tags, Faulty(t)
      PROVE  LaneSafe'
  <2>1. CASE CheckInboxFailsOpen(t) \/ MarkAnsweredFails(t)
    BY <2>1 DEF CheckInboxFailsOpen, MarkAnsweredFails, Release
  <2>2. CASE PublishFails(t)
    BY <2>2 DEF PublishFails, Release
  <2>3. ASSUME NEW u \in Tags, PublishUnconfirmed(t, u)
        PROVE  LaneSafe'
    BY <2>3 DEF PublishUnconfirmed, Release
  <2> QED
    BY <1>7, <2>1, <2>2, <2>3 DEF Faulty
<1>8. CASE UNCHANGED vars
  BY <1>8 DEF vars
<1> QED
  BY <1>1, <1>2, <1>3, <1>4, <1>5, <1>6, <1>7, <1>8 DEF Next, Environment

\* Downloads never overlap and the lane is never leaked.
THEOREM LaneExclusive == Spec => []LaneSafe
  BY TypeInit, TypeStep, LaneInit, LaneStep, PTL DEF Spec

-----------------------------------------------------------------------------
(* The claims. *)

\* ClaimsSafe, one quantifier at a time.
ClaimsInd ==
    /\ \A t \in Tags : Claims(t) => Cmd(t) \in running
    /\ \A c \in running : \E t \in Tags : Claims(t) /\ Cmd(t) = c
    /\ \A t, u \in Tags : Claims(t) /\ Claims(u) /\ Cmd(t) = Cmd(u) => t = u

LEMMA ClaimsIndSafe == ClaimsInd <=> ClaimsSafe
  BY DEF ClaimsInd, ClaimsSafe, ClaimsMatch, ClaimsUnique

LEMMA ClaimsInit == Init => ClaimsInd
  BY DEF Init, ClaimsInd, Claims, Claiming

\* Cases: a claim begins in Deliver, only if its command is not running, and
\* ends in Release; a crash ends them all.
LEMMA ClaimsStep == TypeOK /\ ClaimsInd /\ [Next]_vars => ClaimsInd'
<1> SUFFICES ASSUME TypeOK, ClaimsInd, [Next]_vars
             PROVE  ClaimsInd'
  OBVIOUS
<1> USE ConstantsAssumption DEF TypeOK, ClaimsInd, Claims, Claiming, Guarded,
        Keyed, Cmd, Enqueue, Goto, Steps, brokerVars, taskVars
<1>1. ASSUME NEW c \in Cmds, NEW u \in Tags, Publish(c, u) \/ PublishAgain(c, u)
      PROVE  ClaimsInd'
  BY <1>1 DEF Publish, PublishAgain
<1>2. ASSUME NEW t \in Tags, NEW u \in Tags, NEW acked \in BOOLEAN,
             Replay(t, u, acked)
      PROVE  ClaimsInd'
  BY <1>2 DEF Replay
<1>3. ASSUME Crash \/ CloseConsumer
      PROVE  ClaimsInd'
  BY <1>3 DEF Crash, CloseConsumer, Die
<1>4. ASSUME StopConsuming \/ DrainTimeout \/ CloseIdle \/ Start
      PROVE  ClaimsInd'
  BY <1>4 DEF StopConsuming, DrainTimeout, CloseIdle, Start
<1>5. ASSUME NEW t \in Tags, Deliver(t) \/ RetryDue(t)
      PROVE  ClaimsInd'
  BY <1>5 DEF Deliver, RetryDue
<1>6. ASSUME NEW t \in Tags, Progress(t)
      PROVE  ClaimsInd'
  <2>1. CASE CheckInbox(t)
    BY <2>1 DEF CheckInbox, Release
  <2>2. CASE Refuse(t) \/ Admit(t) \/ EnterLane(t) \/ Finish(t)
    BY <2>2 DEF Refuse, Admit, EnterLane, Finish
  <2>3. ASSUME NEW limit \in {1, MaxAttempts}, Fail(t, limit)
        PROVE  ClaimsInd'
    BY <2>3 DEF Fail
  <2>4. ASSUME NEW u \in Tags, ScheduleRetry(t, u)
        PROVE  ClaimsInd'
    BY <2>4 DEF ScheduleRetry, Release
  <2>5. ASSUME NEW u \in Tags, DeadLetter(t, u)
        PROVE  ClaimsInd'
    BY <2>5 DEF DeadLetter
  <2>6. CASE PublishReply(t)
    BY <2>6 DEF PublishReply
  <2>7. CASE MarkAnswered(t)
    BY <2>7 DEF MarkAnswered, Release
  <2>8. CASE Ack(t)
    BY <2>8 DEF Ack
  <2>9. CASE Reject(t)
    BY <2>9 DEF Reject
  <2>10. CASE PoisonCrash(t)
    BY <2>10 DEF PoisonCrash, Die
  <2> QED
    BY <1>6, <2>1, <2>2, <2>3, <2>4, <2>5, <2>6, <2>7, <2>8, <2>9, <2>10
    DEF Progress
<1>7. ASSUME NEW t \in Tags, Faulty(t)
      PROVE  ClaimsInd'
  <2>1. CASE CheckInboxFailsOpen(t) \/ MarkAnsweredFails(t)
    BY <2>1 DEF CheckInboxFailsOpen, MarkAnsweredFails, Release
  <2>2. CASE PublishFails(t)
    BY <2>2 DEF PublishFails, Release
  <2>3. ASSUME NEW u \in Tags, PublishUnconfirmed(t, u)
        PROVE  ClaimsInd'
    BY <2>3 DEF PublishUnconfirmed, Release
  <2> QED
    BY <1>7, <2>1, <2>2, <2>3 DEF Faulty
<1>8. CASE UNCHANGED vars
  BY <1>8 DEF vars
<1> QED
  BY <1>1, <1>2, <1>3, <1>4, <1>5, <1>6, <1>7, <1>8 DEF Next, Environment

\* A keyed command is in the hands of one delivery at a time, and the claims
\* in memory are exactly those of the deliveries under way.
THEOREM ClaimsExclusive == Spec => []ClaimsSafe
  BY TypeInit, TypeStep, ClaimsInit, ClaimsStep, ClaimsIndSafe, PTL DEF Spec

-----------------------------------------------------------------------------
(* The inbox, and no command lost in silence. *)

LEMMA InboxInit == Init => InboxSound
  BY DEF Init, InboxSound

\* Cases: only MarkAnswered adds a key, and only PublishReply leads there.
LEMMA InboxStep == TypeOK /\ InboxSound /\ [Next]_vars => InboxSound'
<1> SUFFICES ASSUME TypeOK, InboxSound, [Next]_vars
             PROVE  InboxSound'
  OBVIOUS
<1> USE ConstantsAssumption DEF TypeOK, InboxSound, Answered, Cmd, Enqueue, Goto,
        Steps, Envelope, brokerVars, taskVars
<1>1. ASSUME NEW c \in Cmds, NEW u \in Tags, Publish(c, u) \/ PublishAgain(c, u)
      PROVE  InboxSound'
  BY <1>1 DEF Publish, PublishAgain
<1>2. ASSUME NEW t \in Tags, NEW u \in Tags, NEW acked \in BOOLEAN,
             Replay(t, u, acked)
      PROVE  InboxSound'
  BY <1>2 DEF Replay
<1>3. ASSUME Crash \/ CloseConsumer
      PROVE  InboxSound'
  BY <1>3 DEF Crash, CloseConsumer, Die
<1>4. ASSUME StopConsuming \/ DrainTimeout \/ CloseIdle \/ Start
      PROVE  InboxSound'
  BY <1>4 DEF StopConsuming, DrainTimeout, CloseIdle, Start
<1>5. ASSUME NEW t \in Tags, Deliver(t) \/ RetryDue(t)
      PROVE  InboxSound'
  BY <1>5 DEF Deliver, RetryDue
<1>6. ASSUME NEW t \in Tags, Progress(t)
      PROVE  InboxSound'
  <2>1. CASE CheckInbox(t)
    BY <2>1 DEF CheckInbox, Release
  <2>2. CASE Refuse(t) \/ Admit(t) \/ EnterLane(t) \/ Finish(t)
    BY <2>2 DEF Refuse, Admit, EnterLane, Finish
  <2>3. ASSUME NEW limit \in {1, MaxAttempts}, Fail(t, limit)
        PROVE  InboxSound'
    BY <2>3 DEF Fail
  <2>4. ASSUME NEW u \in Tags, ScheduleRetry(t, u)
        PROVE  InboxSound'
    BY <2>4 DEF ScheduleRetry, Release
  <2>5. ASSUME NEW u \in Tags, DeadLetter(t, u)
        PROVE  InboxSound'
    BY <2>5 DEF DeadLetter
  <2>6. CASE PublishReply(t)
    BY <2>6 DEF PublishReply
  <2>7. CASE MarkAnswered(t)
    BY <2>7 DEF MarkAnswered, Release
  <2>8. CASE Ack(t)
    BY <2>8 DEF Ack
  <2>9. CASE Reject(t)
    BY <2>9 DEF Reject
  <2>10. CASE PoisonCrash(t)
    BY <2>10 DEF PoisonCrash, Die
  <2> QED
    BY <1>6, <2>1, <2>2, <2>3, <2>4, <2>5, <2>6, <2>7, <2>8, <2>9, <2>10
    DEF Progress
<1>7. ASSUME NEW t \in Tags, Faulty(t)
      PROVE  InboxSound'
  <2>1. CASE CheckInboxFailsOpen(t) \/ MarkAnsweredFails(t)
    BY <2>1 DEF CheckInboxFailsOpen, MarkAnsweredFails, Release
  <2>2. CASE PublishFails(t)
    BY <2>2 DEF PublishFails, Release
  <2>3. ASSUME NEW u \in Tags, PublishUnconfirmed(t, u)
        PROVE  InboxSound'
    BY <2>3 DEF PublishUnconfirmed, Release
  <2> QED
    BY <1>7, <2>1, <2>2, <2>3 DEF Faulty
<1>8. CASE UNCHANGED vars
  BY <1>8 DEF vars
<1> QED
  BY <1>1, <1>2, <1>3, <1>4, <1>5, <1>6, <1>7, <1>8 DEF Next, Environment

LEMMA AccountedInit == Init => Accounted
  BY DEF Init, Accounted

\* What a step has to do with the pending copies of unanswered commands.
LEMMA CarriedOn ==
  ASSUME Accounted, accepted \subseteq Cmds,
         accepted' = accepted, rejected \subseteq rejected',
         \A c \in Cmds : answers[c] > 0 => answers'[c] > 0,
         \A v \in Tags : Pending(v) =>
            \/ answers'[Cmd(v)] > 0
            \/ Cmd(v) \in rejected'
            \/ \E w \in Tags : Cmd(w)' = Cmd(v) /\ Pending(w)'
  PROVE  Accounted'
  BY DEF Accounted

\* Cases: a copy stops being pending only when its command is answered,
\* rejected, or carried on by another copy: the parked one (ScheduleRetry) or
\* the delivery that holds the claim (Deliver, by ClaimsInd).
LEMMA AccountedStep ==
    TypeOK /\ ClaimsInd /\ InboxSound /\ Accounted /\ [Next]_vars => Accounted'
<1> SUFFICES ASSUME TypeOK, ClaimsInd, InboxSound, Accounted, [Next]_vars
             PROVE  Accounted'
  OBVIOUS
<1> USE ConstantsAssumption DEF TypeOK, Accounted, Pending, Answered, Cmd, Enqueue,
        Goto, Steps, Envelope, brokerVars, taskVars
<1>1. ASSUME NEW c \in Cmds, NEW u \in Tags, Publish(c, u) \/ PublishAgain(c, u)
      PROVE  Accounted'
  BY <1>1 DEF Publish, PublishAgain
<1>2. ASSUME NEW t \in Tags, NEW u \in Tags, NEW acked \in BOOLEAN,
             Replay(t, u, acked)
      PROVE  Accounted'
  BY <1>2 DEF Replay
<1>3. ASSUME Crash \/ CloseConsumer
      PROVE  Accounted'
  BY <1>3 DEF Crash, CloseConsumer, Die
<1>4. ASSUME StopConsuming \/ DrainTimeout \/ CloseIdle \/ Start
      PROVE  Accounted'
  BY <1>4 DEF StopConsuming, DrainTimeout, CloseIdle, Start
<1>5. ASSUME NEW t \in Tags, Deliver(t) \/ RetryDue(t)
      PROVE  Accounted'
  <2>1. CASE RetryDue(t)
    BY <2>1 DEF RetryDue
  <2>2. CASE Deliver(t) /\ Guarded(t) /\ Cmd(t) \in running
    <3>1. PICK w \in Tags : Claims(w) /\ Cmd(w) = Cmd(t)
      BY <2>2 DEF ClaimsInd
    <3>2. at[w] = "unacked" /\ step[w] # "ack" /\ w # t
      BY <2>2, <3>1 DEF Claims, Claiming, Deliver
    <3>3. /\ at' = [at EXCEPT ![t] = "unacked"]
          /\ step' = [step EXCEPT ![t] = "ack"]
          /\ UNCHANGED <<env, answers, accepted, rejected>>
      BY <2>2 DEF Deliver
    <3>4. Cmd(w)' = Cmd(t) /\ Pending(w)'
      BY <3>1, <3>2, <3>3
    <3>5. \A v \in Tags \ {t} : Pending(v) => Cmd(v)' = Cmd(v) /\ Pending(v)'
      BY <3>3
    <3> QED
      BY <3>3, <3>4, <3>5, CarriedOn
  <2>3. CASE Deliver(t) /\ ~(Guarded(t) /\ Cmd(t) \in running)
    <3>1. /\ at' = [at EXCEPT ![t] = "unacked"]
          /\ step'[t] # "ack"
          /\ \A v \in Tags \ {t} : step'[v] = step[v]
          /\ UNCHANGED <<env, answers, accepted, rejected>>
      BY <2>3 DEF Deliver
    <3> QED
      BY <3>1
  <2> QED
    BY <1>5, <2>1, <2>2, <2>3
<1>6. ASSUME NEW t \in Tags, Progress(t)
      PROVE  Accounted'
  <2>1. CASE CheckInbox(t)
    <3>1. Cmd(t) \in inbox => answers[Cmd(t)] > 0
      BY DEF InboxSound
    <3>2. /\ UNCHANGED <<at, env, answers, accepted, rejected>>
          /\ \A v \in Tags \ {t} : step'[v] = step[v]
          /\ Cmd(t) \notin inbox => step'[t] = "handle"
      BY <2>1 DEF CheckInbox
    <3>3. step[t] = "check" /\ at[t] = "unacked"
      BY <2>1 DEF CheckInbox
    <3>4. \A v \in Tags : Pending(v) =>
             answers'[Cmd(v)] > 0 \/ (Cmd(v)' = Cmd(v) /\ Pending(v)')
      BY <3>1, <3>2, <3>3
    <3> QED
      BY <3>2, <3>4, CarriedOn
  <2>2. CASE Refuse(t) \/ Admit(t) \/ EnterLane(t) \/ Finish(t)
    BY <2>2 DEF Refuse, Admit, EnterLane, Finish
  <2>3. ASSUME NEW limit \in {1, MaxAttempts}, Fail(t, limit)
        PROVE  Accounted'
    BY <2>3 DEF Fail
  <2>4. ASSUME NEW u \in Tags, ScheduleRetry(t, u)
        PROVE  Accounted'
    <3>1. /\ at[t] = "unacked" /\ at[u] = "none" /\ t # u
          /\ at' = [at EXCEPT ![u] = "retry"]
          /\ env' = [env EXCEPT ![u] = Retried(t)]
          /\ step' = [step EXCEPT ![t] = "ack"]
          /\ UNCHANGED <<answers, accepted, rejected>>
      BY <2>4 DEF ScheduleRetry
    <3>2. env[t] \in Envelope /\ Retried(t).cmd = Cmd(t)
      BY <3>1 DEF Retried
    <3>3. Cmd(u)' = Cmd(t) /\ Pending(u)'
      BY <3>1, <3>2
    <3>4. \A v \in Tags \ {t, u} : Pending(v) => Cmd(v)' = Cmd(v) /\ Pending(v)'
      BY <3>1
    <3>5. ~Pending(u)
      BY <3>1
    <3> QED
      BY <3>1, <3>3, <3>4, <3>5, CarriedOn
  <2>5. ASSUME NEW u \in Tags, DeadLetter(t, u)
        PROVE  Accounted'
    BY <2>5 DEF DeadLetter
  <2>6. CASE PublishReply(t)
    BY <2>6 DEF PublishReply
  <2>7. CASE MarkAnswered(t)
    <3>1. answers[Cmd(t)] > 0
      BY <2>7 DEF MarkAnswered, InboxSound
    <3>2. /\ UNCHANGED <<at, env, answers, accepted, rejected>>
          /\ \A v \in Tags \ {t} : step'[v] = step[v]
      BY <2>7 DEF MarkAnswered
    <3> QED
      BY <3>1, <3>2, CarriedOn
  <2>8. CASE Ack(t)
    BY <2>8 DEF Ack
  <2>9. CASE Reject(t)
    BY <2>9 DEF Reject
  <2>10. CASE PoisonCrash(t)
    BY <2>10 DEF PoisonCrash, Die
  <2> QED
    BY <1>6, <2>1, <2>2, <2>3, <2>4, <2>5, <2>6, <2>7, <2>8, <2>9, <2>10
    DEF Progress
<1>7. ASSUME NEW t \in Tags, Faulty(t)
      PROVE  Accounted'
  <2>1. CASE CheckInboxFailsOpen(t) \/ MarkAnsweredFails(t)
    <3>1. CASE CheckInboxFailsOpen(t)
      BY <3>1 DEF CheckInboxFailsOpen
    <3>2. CASE MarkAnsweredFails(t)
      <4>1. answers[Cmd(t)] > 0
        BY <3>2 DEF MarkAnsweredFails, InboxSound
      <4>2. /\ UNCHANGED <<at, env, answers, accepted, rejected>>
            /\ \A v \in Tags \ {t} : step'[v] = step[v]
        BY <3>2 DEF MarkAnsweredFails
      <4> QED
        BY <4>1, <4>2, CarriedOn
    <3> QED
      BY <2>1, <3>1, <3>2
  <2>2. CASE PublishFails(t)
    BY <2>2 DEF PublishFails, Release
  <2>3. ASSUME NEW u \in Tags, PublishUnconfirmed(t, u)
        PROVE  Accounted'
    BY <2>3 DEF PublishUnconfirmed, Release
  <2> QED
    BY <1>7, <2>1, <2>2, <2>3 DEF Faulty
<1>8. CASE UNCHANGED vars
  BY <1>8 DEF vars
<1> QED
  BY <1>1, <1>2, <1>3, <1>4, <1>5, <1>6, <1>7, <1>8 DEF Next, Environment

\* A key in the inbox always stands for an answered command.
THEOREM InboxOnlyAnswered == Spec => []InboxSound
  BY TypeInit, TypeStep, InboxInit, InboxStep, PTL DEF Spec

\* An accepted command is answered, rejected, or still on its way.
THEOREM NothingVanishes == Spec => []Accounted
  BY TypeInit, TypeStep, ClaimsInit, ClaimsStep, InboxInit, InboxStep,
     AccountedInit, AccountedStep, PTL DEF Spec
-----------------------------------------------------------------------------
(* How often a command is answered.  Every answer that is not remembered   *)
(* cost a fault, so that a command being worked on, or one that may be     *)
(* delivered again, has been answered at most once for each fault.         *)

Working == {"handle", "lane", "run", "retry", "dlq", "reply", "refuse"}
At(c, steps) == \E t \in Tags : step[t] \in steps /\ Cmd(t) = c

Spent == faults["crash"] + faults["timeout"] + faults["redis"] + faults["publish"]

\* Once the publish connection is closed, a task that is left may still get one
\* answer out without a confirm: the timeout pays for it.
Allowance == IF phase = "closing" THEN Spent - 1 ELSE Spent

Bound(c) ==
    /\ answers[c] <= Allowance + 1
    /\ At(c, Working) => answers[c] <= Allowance
    /\ (c \notin inbox /\ ~At(c, {"mark"}) /\ (phase # "closing" \/ At(c, {"check"})))
         => answers[c] <= Allowance

Undisturbed == faults["replay"] = 0 /\ accepted \cap Poison = {}

\* Copies come from the gateway, and only an operator makes a replayed one.
Sourced ==
    /\ \A t \in Tags : at[t] # "none" => Cmd(t) \in accepted
    /\ faults["replay"] = 0 => \A t \in Tags : at[t] # "none" => ~env[t].replayed

BoundedInd == Undisturbed => \A c \in Cmds \ Unkeyed : Bound(c)

LEMMA SourcedInit == Init => Sourced
  BY DEF Init, Sourced

LEMMA SourcedStep == TypeOK /\ Sourced /\ [Next]_vars => Sourced'
<1> SUFFICES ASSUME TypeOK, Sourced, [Next]_vars
             PROVE  Sourced'
  OBVIOUS
<1> USE DEF Sourced, Cmd
<1>0. /\ env \in [Tags -> Envelope \cup {Blank}] /\ at \in [Tags -> Places]
      /\ faults \in [FaultKinds -> Nat]
      /\ \A t \in Tags : at[t] # "none" => env[t] \in Envelope
      /\ \A t \in Tags : at[t] = "unacked" <=> step[t] # "idle"
  BY DEF TypeOK
\* A step that makes no copy and counts no replay.
<1>1. ASSUME \A t \in Tags : at'[t] # "none" => at[t] # "none" /\ env'[t] = env[t],
             accepted \subseteq accepted', faults'["replay"] = faults["replay"]
      PROVE  Sourced'
  BY <1>1
\* A step that copies the envelope of t to u.
<1>2. ASSUME NEW t \in Tags, NEW u \in Tags, at[t] # "none",
             env'[u].cmd = env[t].cmd, env'[u].replayed = env[t].replayed,
             \A v \in Tags \ {u} : at'[v] # "none" => at[v] # "none" /\ env'[v] = env[v],
             accepted' = accepted, faults'["replay"] = faults["replay"]
      PROVE  Sourced'
  BY <1>2
<1>3. ASSUME NEW c \in Cmds, NEW u \in Tags, Publish(c, u) \/ PublishAgain(c, u)
      PROVE  Sourced'
  <2>1. /\ c \in accepted' /\ accepted \subseteq accepted'
        /\ at' = [at EXCEPT ![u] = "commands"]
        /\ env' = [env EXCEPT ![u] = [cmd |-> c, attempts |-> 0, replayed |-> FALSE]]
        /\ faults'["replay"] = faults["replay"]
    BY <1>0, <1>3 DEF Publish, PublishAgain, Enqueue, Fault, FaultKinds
  <2>2. env'[u].cmd = c /\ ~env'[u].replayed
    BY <1>0, <2>1
  <2>3. \A v \in Tags \ {u} : at'[v] = at[v] /\ env'[v] = env[v]
    BY <1>0, <2>1
  <2> QED
    BY <2>1, <2>2, <2>3
<1>4. ASSUME NEW t \in Tags, NEW u \in Tags, NEW acked \in BOOLEAN, Replay(t, u, acked)
      PROVE  Sourced'
  <2>1. /\ at[t] = "dlq" /\ at[u] = "none" /\ t # u /\ UNCHANGED accepted
        /\ faults'["replay"] = faults["replay"] + 1
        /\ env' = [env EXCEPT ![u] = [env[t] EXCEPT !.attempts = 0, !.replayed = TRUE],
                              ![t] = IF acked THEN Blank ELSE @]
        /\ at' = [at EXCEPT ![u] = "commands", ![t] = IF acked THEN "none" ELSE "dlq"]
    BY <1>0, <1>4 DEF Replay, Fault, FaultKinds
  <2>2. env'[u].cmd = env[t].cmd
    BY <1>0, <2>1 DEF Envelope
  <2>3. \A v \in Tags \ {u} : at'[v] # "none" => at[v] # "none" /\ env'[v] = env[v]
    BY <1>0, <2>1
  <2>4. faults'["replay"] # 0
    BY <1>0, <2>1 DEF FaultKinds
  <2>5. ASSUME NEW v \in Tags, at'[v] # "none" PROVE env'[v].cmd \in accepted'
    <3>0. env[t].cmd \in accepted /\ accepted' = accepted
      BY <2>1
    <3>1. CASE v = u
      BY <2>2, <3>0, <3>1
    <3>2. CASE v # u
      BY <2>3, <2>5, <3>0, <3>2
    <3> QED
      BY <3>1, <3>2
  <2> QED
    BY <2>4, <2>5
<1>5. ASSUME NEW t \in Tags, NEW u \in Tags,
             \/ ScheduleRetry(t, u) \/ DeadLetter(t, u)
             \/ PublishUnconfirmed(t, u) /\ step[t] \in {"retry", "dlq"}
      PROVE  Sourced'
  <2>1. /\ at[t] # "none" /\ UNCHANGED accepted /\ faults'["replay"] = faults["replay"]
        /\ env' = [env EXCEPT ![u] = Retried(t)] \/ env' = [env EXCEPT ![u] = env[t]]
        /\ at' = [at EXCEPT ![u] = "retry"] \/ at' = [at EXCEPT ![u] = "dlq"]
    BY <1>0, <1>5
    DEF ScheduleRetry, DeadLetter, PublishUnconfirmed, PublishFault, Enqueue, Fault, FaultKinds
  <2>2. /\ Retried(t).cmd = env[t].cmd /\ Retried(t).replayed = env[t].replayed
    BY <1>0, <2>1 DEF Retried, Envelope
  <2>3. env'[u].cmd = env[t].cmd /\ env'[u].replayed = env[t].replayed
    BY <1>0, <2>1, <2>2
  <2>4. \A v \in Tags \ {u} : at'[v] = at[v] /\ env'[v] = env[v]
    BY <1>0, <2>1
  <2> QED
    BY <1>2, <2>1, <2>3, <2>4
<1>6. CASE Crash \/ CloseConsumer \/ \E t \in Tags : PoisonCrash(t)
  BY <1>0, <1>1, <1>6 DEF Crash, CloseConsumer, PoisonCrash, Die, Fault, FaultKinds
<1>7. CASE StopConsuming \/ DrainTimeout \/ CloseIdle \/ Start
  BY <1>0, <1>1, <1>7 DEF StopConsuming, DrainTimeout, CloseIdle, Start, Fault, FaultKinds,
     brokerVars
<1>8. ASSUME NEW t \in Tags, Deliver(t) \/ RetryDue(t) \/ Ack(t) \/ Reject(t)
      PROVE  Sourced'
  BY <1>0, <1>1, <1>8 DEF Deliver, RetryDue, Ack, Reject
<1>9. ASSUME NEW t \in Tags,
             \/ CheckInbox(t) \/ Refuse(t) \/ Admit(t) \/ EnterLane(t) \/ Finish(t)
             \/ (\E limit \in {1, MaxAttempts} : Fail(t, limit))
             \/ PublishReply(t) \/ MarkAnswered(t) \/ CheckInboxFailsOpen(t)
             \/ MarkAnsweredFails(t) \/ PublishFails(t)
             \/ \E u \in Tags : PublishUnconfirmed(t, u) /\ step[t] \in {"reply", "refuse"}
      PROVE  Sourced'
  <2>1. UNCHANGED <<at, env, accepted>>
    BY <1>9
    DEF CheckInbox, Refuse, Admit, EnterLane, Finish, Fail, PublishReply, MarkAnswered,
        CheckInboxFailsOpen, MarkAnsweredFails, PublishFails, PublishUnconfirmed, brokerVars
  <2>2. faults'["replay"] = faults["replay"]
    BY <1>0, <1>9
    DEF CheckInbox, Refuse, Admit, EnterLane, Finish, Fail, PublishReply, MarkAnswered,
        CheckInboxFailsOpen, MarkAnsweredFails, PublishFails, PublishUnconfirmed,
        PublishFault, Fault, FaultKinds
  <2> QED
    BY <1>1, <2>1, <2>2
<1>10. CASE UNCHANGED vars
  BY <1>1, <1>10 DEF vars
<1>11. ASSUME NEW t \in Tags, NEW u \in Tags, PublishUnconfirmed(t, u)
       PROVE  step[t] \in {"retry", "dlq"} \/ step[t] \in {"reply", "refuse"}
  BY <1>11 DEF PublishUnconfirmed
<1> QED
  BY <1>3, <1>4, <1>5, <1>6, <1>7, <1>8, <1>9, <1>10, <1>11
  DEF Next, Environment, Progress, Faulty

-----------------------------------------------------------------------------
LEMMA AllowanceType ==
    ASSUME TypeOK
    PROVE  /\ Allowance \in Int /\ Spent \in Nat
           /\ phase # "closing" => Allowance = Spent
           /\ phase = "closing" => Allowance = Spent - 1
  BY DEF TypeOK, FaultKinds, Allowance, Spent

LEMMA AllowanceTypeNext == ASSUME TypeOK' PROVE Allowance' \in Int /\ Spent' \in Nat
  BY DEF TypeOK, FaultKinds, Allowance, Spent

LEMMA FaultSpent ==
    ASSUME TypeOK, NEW k \in FaultKinds, Fault(k)
    PROVE  /\ k \in {"crash", "timeout", "redis", "publish"} => Spent' = Spent + 1
           /\ k \notin {"crash", "timeout", "redis", "publish"} => Spent' = Spent
  <1>1. faults \in [FaultKinds -> Nat] /\ faults' = [faults EXCEPT ![k] = @ + 1]
    BY DEF TypeOK, Fault
  <1>2. CASE k = "crash"
    BY <1>1, <1>2 DEF Spent, FaultKinds
  <1>3. CASE k = "timeout"
    BY <1>1, <1>3 DEF Spent, FaultKinds
  <1>4. CASE k = "redis"
    BY <1>1, <1>4 DEF Spent, FaultKinds
  <1>5. CASE k = "publish"
    BY <1>1, <1>5 DEF Spent, FaultKinds
  <1>6. CASE k \in {"duplicate", "stop", "replay"}
    BY <1>1, <1>6 DEF Spent, FaultKinds
  <1> QED
    BY <1>2, <1>3, <1>4, <1>5, <1>6 DEF FaultKinds

\* A step of the task of t, which other tasks do not notice.
Moved(t, s) ==
    /\ step' = [step EXCEPT ![t] = s]
    /\ \A v \in Tags : step'[v] # "idle" => Cmd(v)' = Cmd(v)

LEMMA Moves ==
    ASSUME TypeOK, NEW t \in Tags, NEW s, Moved(t, s), NEW S, "idle" \notin S, NEW d
    PROVE  /\ At(d, S)' => At(d, S) \/ (d = Cmd(t) /\ s \in S)
           /\ (At(d, S) /\ (d = Cmd(t) => step[t] \notin S)) => At(d, S)'
           /\ (Cmd(t) = d /\ s \in S) => At(d, S)'
  BY DEF TypeOK, Moved, At

\* A keyed command that is no replay is worked on by one task at a time.
LEMMA Alone ==
    ASSUME TypeOK, ClaimsInd, Sourced, faults["replay"] = 0,
           NEW t \in Tags, NEW c, Cmd(t) = c, Keyed(t), step[t] \in Claiming,
           NEW s, Moved(t, s), NEW S, S \subseteq Claiming, s \notin S
    PROVE  ~At(c, S)' /\ (step[t] \notin S => ~At(c, S))
<1>1. ASSUME NEW v \in Tags, step[v] \in Claiming, Cmd(v) = c PROVE v = t
  <2>1. at[v] # "none" /\ at[t] # "none"
    BY <1>1 DEF TypeOK, Claiming, Steps
  <2>2. Claims(v) /\ Claims(t)
    BY <1>1, <2>1 DEF Sourced, Claims, Guarded, Keyed
  <2> QED
    BY <1>1, <2>2 DEF ClaimsInd
<1>2. "idle" \notin S
  BY DEF Claiming
<1>3. ASSUME step[t] \notin S PROVE ~At(c, S)
  BY <1>1, <1>3 DEF At
<1>4. ~At(c, S)'
  <2>1. ASSUME NEW v \in Tags, step'[v] \in S, Cmd(v)' = c PROVE FALSE
    <3>1. v # t
      BY <2>1 DEF Moved, TypeOK
    <3>2. step'[v] = step[v] /\ step'[v] # "idle"
      BY <1>2, <2>1, <3>1 DEF Moved, TypeOK
    <3>3. Cmd(v) = c
      BY <2>1, <3>2 DEF Moved
    <3> QED
      BY <1>1, <2>1, <3>1, <3>2, <3>3
  <2> QED
    BY <2>1 DEF At
<1> QED
  BY <1>3, <1>4

\* What was accepted stays accepted, and replays are only ever counted.
LEMMA Growing ==
    ASSUME TypeOK, [Next]_vars
    PROVE  accepted \subseteq accepted' /\ faults["replay"] <= faults'["replay"]
<1>1. faults \in [FaultKinds -> Nat] /\ "replay" \in FaultKinds
  BY DEF TypeOK, FaultKinds
<1>2. ASSUME UNCHANGED faults \/ \E k \in FaultKinds : Fault(k)
      PROVE  faults["replay"] <= faults'["replay"]
  BY <1>1, <1>2 DEF Fault
<1>3. ASSUME NEW t \in Tags, Progress(t) \/ Faulty(t) \/ Deliver(t) \/ RetryDue(t)
      PROVE  accepted' = accepted /\ (UNCHANGED faults \/ \E k \in FaultKinds : Fault(k))
  <2>1. CASE Progress(t)
    BY <2>1
    DEF Progress, CheckInbox, Refuse, Admit, EnterLane, Finish, Fail, ScheduleRetry,
        DeadLetter, PublishReply, MarkAnswered, Ack, Reject, PoisonCrash, Die
  <2>2. CASE Faulty(t)
    BY <2>2
    DEF Faulty, CheckInboxFailsOpen, MarkAnsweredFails, PublishFails, PublishUnconfirmed,
        PublishFault, FaultKinds
  <2>3. CASE Deliver(t) \/ RetryDue(t)
    BY <2>3 DEF Deliver, RetryDue
  <2> QED
    BY <1>3, <2>1, <2>2, <2>3
<1>4. CASE Environment
  <2>1. accepted \subseteq accepted' /\ (UNCHANGED faults \/ \E k \in FaultKinds : Fault(k))
    BY <1>4
    DEF Environment, Publish, PublishAgain, Replay, Crash, Die, StopConsuming, DrainTimeout,
        FaultKinds
  <2> QED
    BY <1>2, <2>1
<1>5. CASE CloseIdle \/ CloseConsumer \/ Start \/ UNCHANGED vars
  BY <1>1, <1>2, <1>5 DEF CloseIdle, CloseConsumer, Die, Start, vars
<1> QED
  BY <1>2, <1>3, <1>4, <1>5 DEF Next

LEMMA BoundedInit == Init => BoundedInd
  BY ConstantsAssumption DEF Init, BoundedInd, Bound, Allowance, Spent, At, Working, FaultKinds

\* Nothing happened to d, or something that only lessens what it may get.
LEMMA BoundKept ==
    ASSUME TypeOK, TypeOK', NEW d \in Cmds, Bound(d), answers'[d] = answers[d],
           Allowance <= Allowance',
           At(d, Working)' => At(d, Working),
           At(d, {"mark"}) => At(d, {"mark"})' \/ d \in inbox',
           d \in inbox => d \in inbox',
           phase' # "closing" => phase # "closing",
           phase' = "closing" => (At(d, {"check"})' => At(d, {"check"}))
    PROVE  Bound(d)'
<1>1. answers[d] \in Nat /\ Allowance \in Int /\ Allowance' \in Int
  BY AllowanceType, AllowanceTypeNext DEF TypeOK
<1>2. answers'[d] <= Allowance' + 1
  BY <1>1 DEF Bound
<1>3. ASSUME At(d, Working)' PROVE answers'[d] <= Allowance'
  <2>1. answers[d] <= Allowance
    BY <1>3 DEF Bound
  <2> QED
    BY <1>1, <2>1
<1>4. ASSUME d \notin inbox', ~At(d, {"mark"})', phase' # "closing" \/ At(d, {"check"})'
      PROVE  answers'[d] <= Allowance'
  <2>1. answers[d] <= Allowance
    BY <1>4 DEF Bound
  <2> QED
    BY <1>1, <2>1
<1> QED
  BY <1>2, <1>3, <1>4 DEF Bound

\* A fault is on record for whatever d was told so far.
LEMMA BoundForgiven ==
    ASSUME TypeOK, TypeOK', NEW d \in Cmds, Bound(d), answers'[d] = answers[d],
           Allowance + 1 <= Allowance'
    PROVE  Bound(d)'
<1>1. answers[d] \in Nat /\ Allowance \in Int /\ Allowance' \in Int
  BY AllowanceType, AllowanceTypeNext DEF TypeOK
<1>2. answers'[d] <= Allowance'
  BY <1>1 DEF Bound
<1> QED
  BY <1>1, <1>2 DEF Bound

\* What the steps of one task share: nothing but the task's own command is touched.
LEMMA OthersKept ==
    ASSUME TypeOK, TypeOK', NEW t \in Tags, NEW s, Moved(t, s),
           NEW d \in Cmds, d # Cmd(t), Bound(d), answers'[d] = answers[d],
           Allowance <= Allowance', d \in inbox => d \in inbox', UNCHANGED phase
    PROVE  Bound(d)'
<1>1. \A S : "idle" \notin S => (At(d, S)' => At(d, S)) /\ (At(d, S) => At(d, S)')
  BY Moves
<1>2. "idle" \notin Working /\ "idle" \notin {"mark"} /\ "idle" \notin {"check"}
  BY DEF Working
<1> QED
  BY <1>1, <1>2, BoundKept

LEMMA BoundedStep ==
    TypeOK /\ TypeOK' /\ ClaimsInd /\ Sourced /\ BoundedInd /\ [Next]_vars => BoundedInd'
<1> SUFFICES ASSUME TypeOK, TypeOK', ClaimsInd, Sourced, BoundedInd, [Next]_vars,
                    Undisturbed', NEW d \in Cmds \ Unkeyed
             PROVE  Bound(d)'
  BY DEF BoundedInd
<1>0. /\ env \in [Tags -> Envelope \cup {Blank}] /\ at \in [Tags -> Places]
      /\ step \in [Tags -> Steps] /\ faults \in [FaultKinds -> Nat]
      /\ answers \in [Cmds -> Nat]
      /\ \A t \in Tags : at[t] # "none" => env[t] \in Envelope
      /\ \A t \in Tags : at[t] = "unacked" <=> step[t] # "idle"
      /\ Allowance \in Int /\ Allowance' \in Int /\ Spent \in Nat /\ Spent' \in Nat
      /\ d \in Cmds
  BY AllowanceType, AllowanceTypeNext DEF TypeOK
<1>1. faults["replay"] = 0 /\ accepted \cap Poison = {} /\ Bound(d)
  <2>1. accepted \subseteq accepted' /\ faults["replay"] <= faults'["replay"]
    BY <1>0, Growing
  <2>2. faults["replay"] \in Nat
    BY <1>0 DEF FaultKinds
  <2> QED
    BY <2>1, <2>2 DEF BoundedInd, Undisturbed
<1>2. "idle" \notin Working /\ "idle" \notin {"mark"} /\ "idle" \notin {"check"}
  BY DEF Working
<1>3. ASSUME UNCHANGED <<step, answers, inbox, phase>>, Spent' = Spent,
             \A v \in Tags : step[v] # "idle" => Cmd(v)' = Cmd(v)
      PROVE  Bound(d)'
  <2>1. \A S : "idle" \notin S => (At(d, S)' => At(d, S)) /\ (At(d, S) => At(d, S)')
    BY <1>3 DEF At
  <2>2. Allowance' = Allowance
    BY <1>3 DEF Allowance
  <2> QED
    BY <1>0, <1>1, <1>2, <1>3, <2>1, <2>2, BoundKept
\* A task goes on, or ends without an answer, and no fault counts.
<1>4. ASSUME NEW t \in Tags, NEW s, Moved(t, s), UNCHANGED <<answers, phase>>,
             Allowance' = Allowance, inbox \subseteq inbox',
             s \in Working => step[t] \in Working,
             step[t] = "mark" /\ Keyed(t) => s = "mark" \/ Cmd(t) \in inbox',
             s = "check" => phase # "closing"
      PROVE  Bound(d)'
  <2>1. At(d, Working)' => At(d, Working)
    BY <1>0, <1>2, <1>4, Moves DEF At
  <2>2. At(d, {"mark"}) => At(d, {"mark"})' \/ d \in inbox'
    <3>1. CASE d = Cmd(t) /\ step[t] = "mark"
      BY <1>2, <1>4, <3>1, Moves DEF Keyed
    <3>2. CASE ~(d = Cmd(t) /\ step[t] = "mark")
      BY <1>2, <1>4, <3>2, Moves
    <3> QED
      BY <3>1, <3>2
  <2>3. phase' = "closing" => (At(d, {"check"})' => At(d, {"check"}))
    BY <1>2, <1>4, Moves
  <2> QED
    BY <1>0, <1>1, <1>4, <2>1, <2>2, <2>3, BoundKept
<1>5. ASSUME NEW t \in Tags, Deliver(t) PROVE Bound(d)'
  <2>1. at[t] = "commands" /\ phase = "consuming" /\ step[t] = "idle"
    BY <1>0, <1>5 DEF Deliver
  <2> DEFINE s == step'[t]
  <2>2. Moved(t, s) /\ UNCHANGED <<answers, phase, inbox>> /\ Allowance' = Allowance
    BY <1>0, <1>5 DEF Deliver, Goto, Moved, Cmd, Allowance, Spent
  <2>3. CASE Keyed(t)
    <3>1. Guarded(t)
      BY <1>1, <2>1, <2>3 DEF Sourced, Guarded
    <3>2. s \in {"check", "ack"}
      BY <1>0, <1>5, <3>1 DEF Deliver, Goto
    <3> QED
      BY <1>4, <2>1, <2>2, <3>2 DEF Working
  <2>4. CASE ~Keyed(t)
    <3>1. d # Cmd(t)
      BY <2>4 DEF Keyed
    <3> QED
      BY <1>0, <1>1, <2>2, <3>1, OthersKept
  <2> QED
    BY <2>3, <2>4
<1>6. ASSUME NEW t \in Tags,
             \/ Refuse(t) \/ Admit(t) \/ EnterLane(t) \/ Finish(t)
             \/ (\E limit \in {1, MaxAttempts} : Fail(t, limit))
             \/ \E u \in Tags : ScheduleRetry(t, u) \/ DeadLetter(t, u)
      PROVE  Bound(d)'
  <2>1. step[t] \in Working
    BY <1>6
    DEF Refuse, Admit, EnterLane, Finish, Fail, ScheduleRetry, DeadLetter, Working
  <2>2. /\ UNCHANGED <<answers, phase, inbox, faults>>
        /\ \E s \in Working \cup {"ack"} : step' = [step EXCEPT ![t] = s]
    BY <1>6
    DEF Refuse, Admit, EnterLane, Finish, Fail, ScheduleRetry, DeadLetter, Goto, Working
  <2>3. \A v \in Tags : step'[v] # "idle" => Cmd(v)' = Cmd(v)
    <3>1. step[t] # "idle" /\ \A v \in Tags : step'[v] # "idle" => step[v] # "idle"
      BY <1>0, <1>2, <2>1, <2>2
    <3>2. \A v \in Tags : step[v] # "idle" => env'[v] = env[v]
      BY <1>0, <1>6
      DEF Refuse, Admit, EnterLane, Finish, Fail, ScheduleRetry, DeadLetter, Enqueue,
          brokerVars
    <3> QED
      BY <3>1, <3>2 DEF Cmd
  <2>4. Allowance' = Allowance
    BY <2>2 DEF Allowance, Spent
  <2> QED
    BY <1>4, <2>1, <2>2, <2>3, <2>4 DEF Moved, Working
<1>7. ASSUME NEW t \in Tags, CheckInbox(t) PROVE Bound(d)'
  <2>1. /\ step[t] = "check" /\ UNCHANGED <<env, answers, inbox, phase, faults>>
        /\ step' = [step EXCEPT ![t] = IF Cmd(t) \in inbox THEN "ack" ELSE "handle"]
    BY <1>7 DEF CheckInbox, Goto, brokerVars
  <2>2. Allowance' = Allowance
    BY <2>1 DEF Allowance, Spent
  <2>3. CASE Cmd(t) \in inbox
    <3>1. Moved(t, "ack")
      BY <2>1, <2>3 DEF Moved, Cmd
    <3> QED
      BY <1>4, <2>1, <2>2, <3>1 DEF Working
  <2>4. CASE Cmd(t) \notin inbox /\ d # Cmd(t)
    <3>1. Moved(t, "handle")
      BY <2>1, <2>4 DEF Moved, Cmd
    <3> QED
      BY <1>0, <1>1, <2>1, <2>2, <2>4, <3>1, OthersKept
  <2>5. CASE Cmd(t) \notin inbox /\ d = Cmd(t)
    <3>1. Moved(t, "handle")
      BY <2>1, <2>5 DEF Moved, Cmd
    <3>2. ~At(d, {"mark"})
      BY <1>1, <2>1, <2>5, <3>1, Alone DEF Keyed, Claiming, Steps
    <3>3. At(d, {"check"})
      BY <2>1, <2>5 DEF At
    <3>4. answers[d] <= Allowance
      BY <1>1, <2>5, <3>2, <3>3 DEF Bound
    <3> QED
      BY <1>0, <2>1, <2>2, <3>4 DEF Bound
  <2> QED
    BY <2>3, <2>4, <2>5
<1>8. ASSUME NEW t \in Tags, PublishReply(t) PROVE Bound(d)'
  <2>1. /\ step[t] \in {"reply", "refuse"} /\ phase # "closing"
        /\ answers' = Answered(Cmd(t)) /\ Moved(t, "mark")
        /\ UNCHANGED <<inbox, phase, faults>>
    BY <1>8 DEF PublishReply, CanPublish, Moved, Goto, Cmd, brokerVars
  <2>2. Allowance' = Allowance
    BY <2>1 DEF Allowance, Spent
  <2>3. CASE d # Cmd(t)
    <3>1. answers'[d] = answers[d]
      BY <1>0, <2>1, <2>3 DEF Answered
    <3> QED
      BY <1>0, <1>1, <2>1, <2>2, <2>3, <3>1, OthersKept
  <2>4. CASE d = Cmd(t)
    <3>1. At(d, Working)
      BY <2>1, <2>4 DEF At, Working
    <3>2. answers[d] <= Allowance /\ answers'[d] <= answers[d] + 1 /\ answers'[d] \in Nat
      BY <1>0, <1>1, <2>1, <2>4, <3>1 DEF Bound, Answered
    <3>3. ~At(d, Working)'
      BY <1>1, <2>1, <2>4, Alone DEF Keyed, Claiming, Steps, Working
    <3>4. At(d, {"mark"})'
      BY <2>1, <2>4, Moves
    <3> QED
      BY <1>0, <2>2, <3>2, <3>3, <3>4 DEF Bound
  <2> QED
    BY <2>3, <2>4
<1>9. ASSUME NEW t \in Tags, MarkAnswered(t) \/ Ack(t) \/ Reject(t) PROVE Bound(d)'
  <2>1. /\ UNCHANGED <<answers, phase, faults>> /\ inbox \subseteq inbox'
        /\ step[t] \in {"mark", "ack", "reject"}
        /\ step[t] = "mark" /\ Keyed(t) => Cmd(t) \in inbox'
    BY <1>9 DEF MarkAnswered, Ack, Reject
  <2>2. Moved(t, "ack") \/ Moved(t, "idle")
    BY <1>0, <1>9 DEF MarkAnswered, Ack, Reject, Moved, Goto, Cmd, brokerVars
  <2>3. Allowance' = Allowance
    BY <2>1 DEF Allowance, Spent
  <2> QED
    BY <1>4, <2>1, <2>2, <2>3 DEF Working
<1>10. ASSUME NEW t \in Tags,
              \/ CheckInboxFailsOpen(t) \/ MarkAnsweredFails(t)
              \/ PublishFails(t) /\ phase # "closing"
       PROVE  Bound(d)'
  <2>1. UNCHANGED <<answers, phase>> /\ (Fault("redis") \/ Fault("publish"))
    BY <1>10 DEF CheckInboxFailsOpen, MarkAnsweredFails, PublishFails, PublishFault
  <2>2. Spent' = Spent + 1
    BY <2>1, FaultSpent DEF FaultKinds
  <2>3. Allowance + 1 <= Allowance'
    BY <1>0, <2>1, <2>2 DEF Allowance
  <2> QED
    BY <1>0, <1>1, <2>1, <2>3, BoundForgiven
<1>11. ASSUME NEW t \in Tags, PublishFails(t), phase = "closing" PROVE Bound(d)'
  <2>1. /\ UNCHANGED <<answers, phase, faults, inbox>> /\ Moved(t, "reject")
        /\ step[t] \in {"retry", "dlq", "reply", "refuse"}
    BY <1>11 DEF PublishFails, PublishFault, Moved, Goto, Cmd, brokerVars
  <2>2. Allowance' = Allowance
    BY <2>1 DEF Allowance, Spent
  <2> QED
    BY <1>4, <2>1, <2>2 DEF Working
<1>12. ASSUME NEW t \in Tags, NEW u \in Tags, PublishUnconfirmed(t, u) PROVE Bound(d)'
  <2>1. /\ step[t] \in {"retry", "dlq", "reply", "refuse"} /\ UNCHANGED <<phase, inbox>>
        /\ step' = [step EXCEPT ![t] = "reject"]
        /\ \A v \in Tags : step[v] # "idle" => env'[v] = env[v]
    BY <1>0, <1>12 DEF PublishUnconfirmed, Goto, Enqueue, brokerVars
  <2>2. Moved(t, "reject")
    BY <1>0, <2>1 DEF Moved, Cmd
  <2>3. UNCHANGED answers \/ answers' = Answered(Cmd(t))
    BY <1>12 DEF PublishUnconfirmed
  <2>4. d # Cmd(t) => answers'[d] = answers[d]
    BY <1>0, <2>3 DEF Answered
  <2>5. CASE phase # "closing"
    <3>1. Spent' = Spent + 1
      BY <1>12, <2>5, FaultSpent DEF PublishUnconfirmed, PublishFault, FaultKinds
    <3>2. Allowance + 1 = Allowance'
      BY <1>0, <2>1, <2>5, <3>1 DEF Allowance
    <3>3. CASE d # Cmd(t)
      BY <1>0, <1>1, <2>4, <3>2, <3>3, BoundForgiven
    <3>4. CASE d = Cmd(t)
      <4>1. At(d, Working)
        BY <2>1, <3>4 DEF At, Working
      <4>2. answers[d] <= Allowance /\ answers'[d] <= answers[d] + 1 /\ answers'[d] \in Nat
        BY <1>0, <1>1, <2>3, <3>4, <4>1 DEF Bound, Answered
      <4> QED
        BY <1>0, <3>2, <4>2 DEF Bound
    <3> QED
      BY <3>3, <3>4
  <2>6. CASE phase = "closing"
    <3>1. UNCHANGED faults
      BY <1>12, <2>6 DEF PublishUnconfirmed, PublishFault
    <3>2. Allowance' = Allowance
      BY <2>1, <3>1 DEF Allowance, Spent
    <3>3. CASE d # Cmd(t)
      BY <1>0, <1>1, <2>1, <2>2, <2>4, <3>2, <3>3, OthersKept
    <3>4. CASE d = Cmd(t)
      <4>1. At(d, Working)
        BY <2>1, <3>4 DEF At, Working
      <4>2. answers[d] <= Allowance /\ answers'[d] <= answers[d] + 1 /\ answers'[d] \in Nat
        BY <1>0, <1>1, <2>3, <3>4, <4>1 DEF Bound, Answered
      <4>3. ~At(d, Working)' /\ ~At(d, {"check"})'
        BY <1>1, <2>1, <2>2, <3>4, Alone DEF Keyed, Claiming, Steps, Working
      <4> QED
        BY <1>0, <2>1, <2>6, <3>2, <4>2, <4>3 DEF Bound
    <3> QED
      BY <3>3, <3>4
  <2> QED
    BY <2>5, <2>6
<1>13. CASE Crash \/ CloseConsumer
  <2>1. UNCHANGED answers
    BY <1>13 DEF Crash, CloseConsumer, Die
  <2>2. Allowance + 1 <= Allowance'
    <3>1. CASE Crash
      <4>1. Spent' = Spent + 1 /\ phase' = "consuming"
        BY <3>1, FaultSpent DEF Crash, FaultKinds
      <4> QED
        BY <1>0, <4>1 DEF Allowance
    <3>2. CASE CloseConsumer
      <4>1. phase = "closing" /\ phase' = "stopped" /\ Spent' = Spent
        BY <3>2 DEF CloseConsumer, Spent
      <4> QED
        BY <1>0, <4>1 DEF Allowance
    <3> QED
      BY <1>13, <3>1, <3>2
  <2> QED
    BY <1>0, <1>1, <2>1, <2>2, BoundForgiven
<1>14. ASSUME NEW t \in Tags, PoisonCrash(t) PROVE FALSE
  <2>1. step[t] # "idle" /\ Cmd(t) \in Poison
    BY <1>14 DEF PoisonCrash
  <2> QED
    BY <1>0, <1>1, <2>1 DEF Sourced
<1>15. CASE StopConsuming \/ DrainTimeout \/ CloseIdle \/ Start
  <2>1. /\ UNCHANGED <<at, env, step, answers, inbox>>
        /\ phase # "closing"
    BY <1>15 DEF StopConsuming, DrainTimeout, CloseIdle, Start, brokerVars, taskVars
  <2>2. Allowance' = Allowance
    <3>1. CASE StopConsuming
      <4>1. Spent' = Spent /\ phase' = "draining"
        BY <3>1, FaultSpent DEF StopConsuming, FaultKinds
      <4> QED
        BY <2>1, <4>1 DEF Allowance
    <3>2. CASE DrainTimeout
      <4>1. Spent' = Spent + 1 /\ phase' = "closing"
        BY <3>2, FaultSpent DEF DrainTimeout, FaultKinds
      <4> QED
        BY <1>0, <2>1, <4>1 DEF Allowance
    <3>3. CASE CloseIdle \/ Start
      <4>1. Spent' = Spent /\ phase' # "closing"
        BY <3>3 DEF CloseIdle, Start, Spent
      <4> QED
        BY <2>1, <4>1 DEF Allowance
    <3> QED
      BY <1>15, <3>1, <3>2, <3>3
  <2>3. \A S : (At(d, S)' => At(d, S)) /\ (At(d, S) => At(d, S)')
    BY <2>1 DEF At, Cmd
  <2> QED
    BY <1>0, <1>1, <2>1, <2>2, <2>3, BoundKept
<1>16. ASSUME NEW c \in Cmds, NEW u \in Tags, Publish(c, u) \/ PublishAgain(c, u)
       PROVE  Bound(d)'
  <2>1. /\ UNCHANGED <<step, answers, inbox, phase>> /\ at[u] = "none"
        /\ \A v \in Tags : v # u => env'[v] = env[v]
    BY <1>0, <1>16 DEF Publish, PublishAgain, Enqueue, taskVars
  <2>2. Spent' = Spent
    BY <1>16, FaultSpent DEF Publish, PublishAgain, FaultKinds, Spent
  <2>3. \A v \in Tags : step[v] # "idle" => Cmd(v)' = Cmd(v)
    BY <1>0, <2>1 DEF Cmd
  <2> QED
    BY <1>3, <2>1, <2>2, <2>3
<1>17. ASSUME NEW t \in Tags, NEW u \in Tags, NEW acked \in BOOLEAN, Replay(t, u, acked)
       PROVE  FALSE
  <2>1. faults'["replay"] = faults["replay"] + 1
    BY <1>0, <1>17 DEF Replay, Fault, FaultKinds
  <2> QED
    BY <1>1, <2>1 DEF Undisturbed
<1>18. ASSUME NEW t \in Tags, RetryDue(t) PROVE Bound(d)'
  BY <1>3, <1>18 DEF RetryDue, taskVars, Cmd, Spent
<1>19. CASE UNCHANGED vars
  BY <1>3, <1>19 DEF vars, Cmd, Spent
<1> QED
  BY <1>5, <1>6, <1>7, <1>8, <1>9, <1>10, <1>11, <1>12, <1>13, <1>14, <1>15, <1>16, <1>17,
     <1>18, <1>19
  DEF Next, Environment, Progress, Faulty

LEMMA BoundedIndSound == TypeOK /\ BoundedInd => AnswersBounded
<1> SUFFICES ASSUME TypeOK, BoundedInd, Undisturbed, NEW c \in Cmds \ Unkeyed
             PROVE  answers[c] <= 1 + faults["crash"] + faults["timeout"]
                                    + faults["redis"] + faults["publish"]
  BY DEF AnswersBounded, Undisturbed
<1>1. answers[c] <= Allowance + 1 /\ answers[c] \in Nat
  BY DEF BoundedInd, Bound, TypeOK
<1>2. Allowance <= Spent /\ Allowance \in Int /\ Spent \in Nat
  BY AllowanceType DEF Allowance
<1>3. answers[c] <= Spent + 1
  BY <1>1, <1>2
<1> QED
  BY <1>3 DEF Spent, TypeOK, FaultKinds

\* Without a replay or a poison command, a keyed command is answered once, and once
\* more at most for each crash, drain timeout, Redis outage or failed publish.
THEOREM AnswersStayBounded == Spec => []AnswersBounded
<1>1. TypeOK /\ ClaimsInd /\ Sourced /\ BoundedInd /\ [Next]_vars => BoundedInd'
  BY TypeStep, BoundedStep
<1> QED
  BY <1>1, TypeInit, TypeStep, ClaimsInit, ClaimsStep, SourcedInit, SourcedStep, BoundedInit,
     BoundedIndSound, PTL DEF Spec
=============================================================================
