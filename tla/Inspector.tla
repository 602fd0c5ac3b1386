----------------------------- MODULE Inspector -----------------------------
(***************************************************************************)
(* The inspector bridge (apps/inspector/src/main.cpp): the main thread runs *)
(* the runtime, whose event lines it publishes to a log and to WebSocket    *)
(* clients; a thread of the server greets each client with the two lines    *)
(* that make sense of the others.                                           *)
(*                                                                          *)
(* A line is its number; lines keeps what kind each one is.  The runtime    *)
(* and the WebSocket server are libraries: the runtime may emit any line    *)
(* while it is initialised or ticked, and throw; the server lists a client  *)
(* before its handshake and calls back when the handshake is done.          *)
(***************************************************************************)
EXTENDS Integers, Sequences, FiniteSets

CONSTANTS
  Clients,     \* connections, each made once
  TickLimits,  \* values of max_ticks; with 0 the run is endless
  MaxLines,    \* bound: lines the runtime emits
  NoClient     \* nobody holds the cache's mutex

ASSUME InspectorAssumption ==
  /\ TickLimits \subseteq Nat
  /\ MaxLines \in Nat
  /\ NoClient \notin Clients

VARIABLES
  maxTicks,   \* max_ticks, never changed
  phase,      \* where main is
  ticks,      \* tick_count
  running,    \* g_running
  exitCode,   \* exit_code
  lines,      \* history: the kinds of the lines published so far
  step,       \* where publish_line is
  targets,    \* the clients its loop still has to send to
  logGood,    \* log_file.good()
  logged,     \* history: the lines in the log
  cache,      \* replay_cache: the number of each bootstrap line, or 0
  lock,       \* holder of replay_cache.mutex
  status,     \* of each client
  received,   \* history: the lines sent to each client, and by whom
  openedAt    \* history: the lines already under way when the client opened

mainVars == <<maxTicks, phase, ticks, running, exitCode>>
publishVars == <<lines, step, targets, logGood, logged, cache>>
clientVars == <<lock, status, received, openedAt>>
vars == <<mainVars, publishVars, clientVars>>

Bootstrap == {"run_start", "bt_def"}
Kinds == Bootstrap \cup {"event", "failure"}
Sent == [line : Nat \ {0}, by : {"greeting", "broadcast"}]

Init ==
  /\ maxTicks \in TickLimits
  /\ phase = "attach"
  /\ ticks = 0
  /\ running = TRUE
  /\ exitCode = 0
  /\ lines = <<>>
  /\ step = "idle"
  /\ targets = {}
  /\ logGood \in BOOLEAN
  /\ logged = <<>>
  /\ cache = [b \in Bootstrap |-> 0]
  /\ lock = NoClient
  /\ status = [c \in Clients |-> "away"]
  /\ received = [c \in Clients |-> <<>>]
  /\ openedAt = [c \in Clients |-> 0]

\* websocket.send: to a client that is not open it has no effect.
Send(c, line, by) ==
  received' = IF status[c] \in {"open", "greeting", "greeted"}
              THEN [received EXCEPT ![c] = Append(@, [line |-> line, by |-> by])]
              ELSE received

-----------------------------------------------------------------------------
(* publish_line *)

\* The line listener is called: CacheBootstrapLine, under the mutex.
PublishLine(kind) ==
  /\ step = "idle"
  /\ kind \in Bootstrap => lock = NoClient
  /\ lines' = Append(lines, kind)
  /\ cache' = IF kind \in Bootstrap THEN [cache EXCEPT ![kind] = Len(lines) + 1] ELSE cache
  /\ step' = "write"
  /\ UNCHANGED <<targets, logGood, logged>>

\* Faulty variant: only the clients that were greeted are sent to.
WriteAndListGreeted ==
  /\ step = "write"
  /\ logged' = IF logGood THEN Append(logged, Len(lines)) ELSE logged
  /\ logGood' \in {logGood, FALSE}
  /\ targets' = {c \in Clients : status[c] = "greeted"}
  /\ step' = "send"
  /\ UNCHANGED <<mainVars, lines, cache, clientVars>>

\* Faulty variant: the log is not flushed line by line.
WriteUnflushedAndListClients ==
  /\ step = "write"
  /\ logged' = [i \in 1 .. Len(lines) - 1 |-> i]
  /\ targets' = {c \in Clients : status[c] \notin {"away", "gone"}}
  /\ step' = "send"
  /\ UNCHANGED <<mainVars, lines, logGood, cache, clientVars>>

\* The line is written to the log, which a failed write leaves bad, and the
\* clients are listed.
WriteAndListClients ==
  /\ step = "write"
  /\ logged' = IF logGood THEN Append(logged, Len(lines)) ELSE logged
  /\ logGood' \in {logGood, FALSE}
  /\ targets' = {c \in Clients : status[c] \notin {"away", "gone"}}
  /\ step' = "send"
  /\ UNCHANGED <<mainVars, lines, cache, clientVars>>

\* One client of the list.
Broadcast(c) ==
  /\ step = "send"
  /\ c \in targets
  /\ targets' = targets \ {c}
  /\ Send(c, Len(lines), "broadcast")
  /\ UNCHANGED <<mainVars, lines, step, logGood, logged, cache, lock, status, openedAt>>

LinePublished ==
  /\ step = "send"
  /\ targets = {}
  /\ step' = "idle"
  /\ UNCHANGED <<mainVars, lines, targets, logGood, logged, cache, clientVars>>

-----------------------------------------------------------------------------
(* main, between two lines *)

\* The runtime emits a line; a bootstrap line is emitted once.
RuntimeEmits(kind) ==
  /\ phase \in {"initialise", "tick"}
  /\ Len(lines) < MaxLines
  /\ kind \in Bootstrap => \A i \in DOMAIN lines : lines[i] # kind
  /\ PublishLine(kind)
  /\ UNCHANGED <<mainVars, clientVars>>

\* AttachBackend, or the initialisation, succeeds.
Succeeds ==
  /\ step = "idle"
  /\ \/ phase = "attach" /\ phase' = "initialise"
     \/ phase = "initialise" /\ phase' = "loop"
  /\ UNCHANGED <<maxTicks, ticks, running, exitCode, publishVars, clientVars>>

\* Faulty variant: the error only sets the exit code.
FailsSilently ==
  /\ step = "idle"
  /\ phase \in {"attach", "initialise", "tick"}
  /\ phase' = "closing"
  /\ exitCode' = 1
  /\ UNCHANGED <<maxTicks, ticks, running, publishVars, clientVars>>

\* AttachBackend, the initialisation or a tick throws: EmitInspectorError.
Fails ==
  /\ step = "idle"
  /\ phase \in {"attach", "initialise", "tick"}
  /\ phase' = "closing"
  /\ exitCode' = 1
  /\ PublishLine("failure")
  /\ UNCHANGED <<maxTicks, ticks, running, clientVars>>

\* Faulty variant: the flag is not read by the loop.
IgnoresSignal ==
  /\ phase = "loop"
  /\ IF maxTicks > 0 /\ ticks >= maxTicks THEN phase' = "closing" ELSE phase' = "tick"
  /\ UNCHANGED <<maxTicks, ticks, running, exitCode, publishVars, clientVars>>

\* The head of the loop.
LoopHead ==
  /\ phase = "loop"
  /\ IF ~running \/ (maxTicks > 0 /\ ticks >= maxTicks)
     THEN phase' = "closing"
     ELSE phase' = "tick"
  /\ UNCHANGED <<maxTicks, ticks, running, exitCode, publishVars, clientVars>>

\* Faulty variant: ticks are not counted.
TickReturnsUncounted ==
  /\ phase = "tick"
  /\ step = "idle"
  /\ phase' = "loop"
  /\ UNCHANGED <<maxTicks, ticks, running, exitCode, publishVars, clientVars>>

\* tick_instance returns, and the loop sleeps until the next tick.  The test of
\* the flag before the sleep leads where the head of the loop does.
TickReturns ==
  /\ phase = "tick"
  /\ step = "idle"
  /\ ticks' = IF maxTicks > 0 THEN ticks + 1 ELSE ticks
  /\ phase' = "loop"
  /\ UNCHANGED <<maxTicks, running, exitCode, publishVars, clientVars>>

\* SIGINT or SIGTERM.
Signal ==
  /\ running
  /\ running' = FALSE
  /\ UNCHANGED <<maxTicks, phase, ticks, exitCode, publishVars, clientVars>>

\* CloseClientsGracefully, after the listener was cleared.
CloseClients ==
  /\ phase = "closing"
  /\ step = "idle"
  /\ phase' = "stopping"
  /\ status' = [c \in Clients |->
                  IF status[c] \in {"away", "greeting"} THEN status[c] ELSE "gone"]
  /\ UNCHANGED <<maxTicks, ticks, running, exitCode, publishVars, lock, received, openedAt>>

\* server.stop waits for the server's threads.
StopServer ==
  /\ phase = "stopping"
  /\ \A c \in Clients : status[c] # "greeting"
  /\ phase' = "stopped"
  /\ status' = [c \in Clients |-> "gone"]
  /\ UNCHANGED <<maxTicks, ticks, running, exitCode, publishVars, lock, received, openedAt>>

-----------------------------------------------------------------------------
(* The server's thread for a client *)

\* A connection is accepted and listed.
Joins(c) ==
  /\ phase # "stopped"
  /\ status[c] = "away"
  /\ status' = [status EXCEPT ![c] = "joined"]
  /\ UNCHANGED <<mainVars, publishVars, lock, received, openedAt>>

\* Its handshake is done: from now on lines reach it.
Opens(c) ==
  /\ status[c] = "joined"
  /\ status' = [status EXCEPT ![c] = "open"]
  /\ openedAt' = [openedAt EXCEPT ![c] = Len(lines)]
  /\ UNCHANGED <<mainVars, publishVars, lock, received>>

\* The Open callback takes the mutex and sends run_start.
GreetsRunStart(c) ==
  /\ status[c] = "open"
  /\ lock = NoClient
  /\ lock' = c
  /\ IF cache["run_start"] # 0
     THEN Send(c, cache["run_start"], "greeting")
     ELSE UNCHANGED received
  /\ status' = [status EXCEPT ![c] = "greeting"]
  /\ UNCHANGED <<mainVars, publishVars, openedAt>>

\* It sends bt_def and releases the mutex.
GreetsBtDef(c) ==
  /\ status[c] = "greeting"
  /\ lock' = NoClient
  /\ IF cache["bt_def"] # 0
     THEN Send(c, cache["bt_def"], "greeting")
     ELSE UNCHANGED received
  /\ status' = [status EXCEPT ![c] = "greeted"]
  /\ UNCHANGED <<mainVars, publishVars, openedAt>>

\* The client disconnects, or its handshake fails.
Leaves(c) ==
  /\ status[c] \in {"joined", "greeted"}
  /\ status' = [status EXCEPT ![c] = "gone"]
  /\ UNCHANGED <<mainVars, publishVars, lock, received, openedAt>>

\* What the process does of its own, the runtime's lines apart.
MainNext ==
  \/ WriteAndListClients
  \/ \E c \in Clients : Broadcast(c)
  \/ LinePublished
  \/ Succeeds
  \/ Fails
  \/ LoopHead
  \/ TickReturns
  \/ CloseClients
  \/ StopServer

ServerNext(c) == Joins(c) \/ Opens(c) \/ GreetsRunStart(c) \/ GreetsBtDef(c) \/ Leaves(c)

Stopped == phase = "stopped" /\ UNCHANGED vars

Next ==
  \/ MainNext
  \/ \E kind \in Kinds \ {"failure"} : RuntimeEmits(kind)
  \/ Signal
  \/ \E c \in Clients : ServerNext(c)
  \/ Stopped

Spec == Init /\ [][Next]_vars

\* Threads run, and ticks come to an end; nobody need connect or send a signal.
FairSpec ==
  /\ Spec
  /\ WF_vars(MainNext)
  /\ \A c \in Clients : WF_vars(GreetsBtDef(c))

-----------------------------------------------------------------------------

\* The places of what was broadcast to a client.
Broadcasts(c) == {i \in DOMAIN received[c] : received[c][i].by = "broadcast"}

\* The last line that has been sent to c, if c is still connected.
SentUpTo(c) ==
  IF step = "write" \/ (step = "send" /\ c \in targets) THEN Len(lines) - 1 ELSE Len(lines)

\* A greeted client has both bootstrap lines as soon as they are published,
\* whether the cache or the broadcast brought them.
BootstrapReaches ==
  \A c \in Clients :
    status[c] = "greeted" =>
      \A k \in 1 .. SentUpTo(c) :
        lines[k] \in Bootstrap => \E i \in DOMAIN received[c] : received[c][i].line = k

\* From the moment it opens, a client misses no line, gets them in order and
\* once each, while the main thread publishes and the server greets; the first
\* may be one that was under way.  The bootstrap lines of before reach it too.
NoGap ==
  /\ BootstrapReaches
  /\ \A c \in Clients : status[c] \in {"open", "greeting", "greeted"} =>
       /\ \A i, j \in Broadcasts(c) : i < j => received[c][i].line < received[c][j].line
       /\ \A i \in Broadcasts(c) : received[c][i].line \in openedAt[c] .. SentUpTo(c)
       /\ \A k \in openedAt[c] + 1 .. SentUpTo(c) : \E i \in Broadcasts(c) : received[c][i].line = k

\* What is broadcast is in the log, unless the log went bad.
LogIsAhead ==
  logGood => \A c \in Clients : \A i \in DOMAIN received[c] :
    received[c][i].by = "broadcast" => \E j \in DOMAIN logged : logged[j] = received[c][i].line

\* When the process gives up, the failure is its last line and every client
\* still there has it before its connection is closed.
FailureIsReported ==
  phase = "closing" /\ step = "idle" /\ exitCode = 1 =>
    /\ lines # <<>> /\ lines[Len(lines)] = "failure"
    /\ \A c \in Clients : status[c] = "greeted" /\ openedAt[c] < Len(lines) =>
         \E i \in DOMAIN received[c] : received[c][i].line = Len(lines)

\* A client receives each line once, as the log does.
EachLineOnce ==
  \A c \in Clients : \A i, j \in DOMAIN received[c] :
    received[c][i].line = received[c][j].line => i = j

\* A signal ends the process, at the latest with the tick under way.
SignalStops == ~running ~> phase = "stopped"

\* So does max_ticks.
RunEnds == maxTicks > 0 => <>(phase = "stopped")

=============================================================================
