-------------------------- MODULE PlatformSupervisor --------------------------
(***************************************************************************)
(* The core connects each chat platform in a task of its own, which        *)
(* retries until the platform is up or refuses the credentials.  When the  *)
(* core stops, the tasks are cancelled and what connected is shut down in  *)
(* turn.  Connecting opens things (channels, pollers, sessions) before it  *)
(* returns the shutdown that closes them; time between attempts is left    *)
(* out.                                                                    *)
(***************************************************************************)
EXTENDS Naturals, Sequences

CONSTANTS Platforms,
          Tidy,             \* those that close what they opened when connecting fails
          MaxRetries        \* bound on the failed attempts

VARIABLES status,           \* _statuses
          task,             \* where _supervise is
          shutdowns,        \* _shutdowns
          app,              \* running, cancelling, shutting, stopped
          open,             \* connections of each platform that are open
          halfOpen,         \* those left by an attempt that failed or was cancelled
          raised,           \* a shutdown raised
          retries

vars == <<status, task, shutdowns, app, open, halfOpen, raised, retries>>

TypeOK == /\ status \in [Platforms -> {"starting", "retrying", "up", "failed"}]
          /\ task \in [Platforms -> {"connecting", "opened", "backoff", "done"}]
          /\ shutdowns \in Seq(Platforms)
          /\ app \in {"running", "cancelling", "shutting", "stopped"}
          /\ open \in [Platforms -> Nat] /\ halfOpen \in [Platforms -> Nat]
          /\ raised \in BOOLEAN
          /\ retries \in 0..MaxRetries

Init == /\ status = [p \in Platforms |-> "starting"]
        /\ task = [p \in Platforms |-> "connecting"]
        /\ shutdowns = <<>> /\ app = "running"
        /\ open = [p \in Platforms |-> 0] /\ halfOpen = [p \in Platforms |-> 0]
        /\ raised = FALSE /\ retries = 0

\* stop() cancels every task before any of them runs again.
Live == app = "running"

Opens(p) == /\ Live
            /\ task[p] = "connecting"
            /\ task' = [task EXCEPT ![p] = "opened"]
            /\ open' = [open EXCEPT ![p] = @ + 1]
            /\ UNCHANGED <<status, shutdowns, app, halfOpen, raised, retries>>

\* connect() returns, its shutdown is kept.
Connected(p) == /\ Live
                /\ task[p] = "opened"
                /\ task' = [task EXCEPT ![p] = "done"]
                /\ shutdowns' = Append(shutdowns, p)
                /\ status' = [status EXCEPT ![p] = "up"]
                /\ UNCHANGED <<app, open, halfOpen, raised, retries>>

LeavesOpen(p) == task[p] = "opened" /\ p \notin Tidy

\* A connect that does not get to its end.
Abandon(p) ==
    IF LeavesOpen(p) THEN halfOpen' = [halfOpen EXCEPT ![p] = @ + 1] /\ UNCHANGED open
    ELSE /\ open' = IF task[p] = "opened" THEN [open EXCEPT ![p] = @ - 1] ELSE open
         /\ UNCHANGED halfOpen

Refused(p) == /\ Live
              /\ task[p] = "connecting"
              /\ task' = [task EXCEPT ![p] = "done"]
              /\ status' = [status EXCEPT ![p] = "failed"]
              /\ UNCHANGED <<shutdowns, app, open, halfOpen, raised, retries>>

Fails(p) == /\ Live
            /\ task[p] \in {"connecting", "opened"}
            /\ retries < MaxRetries
            /\ retries' = retries + 1
            /\ task' = [task EXCEPT ![p] = "backoff"]
            /\ status' = [status EXCEPT ![p] = "retrying"]
            /\ Abandon(p)
            /\ UNCHANGED <<shutdowns, app, raised>>

Retry(p) == /\ Live
            /\ task[p] = "backoff"
            /\ task' = [task EXCEPT ![p] = "connecting"]
            /\ UNCHANGED <<status, shutdowns, app, open, halfOpen, raised, retries>>

Stop == /\ app = "running"
        /\ app' = "cancelling"
        /\ UNCHANGED <<status, task, shutdowns, open, halfOpen, raised, retries>>

Cancelled(p) == /\ app = "cancelling"
                /\ task[p] # "done"
                /\ task' = [task EXCEPT ![p] = "done"]
                /\ Abandon(p)
                /\ UNCHANGED <<status, shutdowns, app, raised, retries>>

\* Mutant: the shutdowns run without waiting for the cancelled tasks.
GatheredAlways == TRUE

\* asyncio.gather(*self._tasks)
Gathered == \A p \in Platforms : task[p] = "done"

Gather == /\ app = "cancelling"
          /\ Gathered
          /\ app' = "shutting"
          /\ UNCHANGED <<status, task, shutdowns, open, halfOpen, raised, retries>>

ShutDown == /\ app = "shutting"
            /\ shutdowns # <<>>
            /\ shutdowns' = Tail(shutdowns)
            /\ open' = [open EXCEPT ![Head(shutdowns)] = @ - 1]
            /\ UNCHANGED <<status, task, app, halfOpen, raised, retries>>

\* A shutdown that raises ends stop(), and those after it never run.
ShutDownRaises == /\ app = "shutting"
                  /\ shutdowns # <<>>
                  /\ raised' = TRUE
                  /\ app' = "stopped"
                  /\ UNCHANGED <<status, task, shutdowns, open, halfOpen, retries>>

Stopped == /\ app = "shutting"
           /\ shutdowns = <<>>
           /\ app' = "stopped"
           /\ UNCHANGED <<status, task, shutdowns, open, halfOpen, raised, retries>>

Next == \/ \E p \in Platforms : \/ Opens(p) \/ Connected(p) \/ Refused(p) \/ Fails(p)
                                \/ Retry(p) \/ Cancelled(p)
        \/ Stop \/ Gather \/ ShutDown \/ ShutDownRaises \/ Stopped

Spec == Init /\ [][Next]_vars

-----------------------------------------------------------------------------
\* Whatever failed, was retried or cancelled half-way, a connection always has an
\* attempt under way, a shutdown that will close it or a platform that leaves its
\* failed attempts open; so a stop in which no shutdown raises closes the rest.
StopClosesAll ==
    /\ \A p \in Tidy : halfOpen[p] = 0
    /\ app = "stopped" /\ ~raised => open = halfOpen
=============================================================================
