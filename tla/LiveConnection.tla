--------------------------- MODULE LiveConnection ---------------------------
(***************************************************************************)
(* The live connection of the Studio (apps/studio/src/App.tsx): the connect *)
(* and disconnect buttons, the endpoint field, the auto-reconnect box, the  *)
(* callbacks of the WebSocket and the timer of a scheduled retry.           *)
(*                                                                          *)
(* An action is one event of the browser: a click, a socket event or a      *)
(* timer.  Retries are timed by a growing delay; here a timer may fire at   *)
(* any moment.  The attempt number only sets that delay and is left out.    *)
(* Messages are not modelled here: they touch no state of the connection.   *)
(***************************************************************************)
EXTENDS FiniteSets

CONSTANTS
  Sockets,    \* names for WebSocket objects
  Urls,       \* what the endpoint field may hold ...
  EmptyUrl,   \* ... the blank text among it
  BadUrls,    \* ... and those the WebSocket constructor rejects
  NoSocket,   \* null
  NoTimer     \* null

ASSUME SocketsAssumption ==
  /\ NoSocket \notin Sockets
  /\ NoTimer \notin Urls
  /\ BadUrls \subseteq Urls \ {EmptyUrl}

VARIABLES
  sockets,           \* the sockets that have their handlers, by name
  wsRef,             \* wsRef.current
  timer,             \* reconnectTimerRef.current: the URL its closure will use
  manual,            \* manualDisconnectRef.current
  liveStatus,        \* liveStatus
  liveUrl,           \* liveUrl
  reconnectEnabled   \* liveReconnectEnabled, and reconnectEnabledRef after its effect

connectionVars == <<sockets, wsRef, timer, manual, liveStatus, liveUrl, reconnectEnabled>>

\* A socket with its readyState ("failed" between its error and its close
\* event) and the URL it was made for.
Socket == [phase : {"connecting", "open", "failed"}, url : Urls]

ConnectionTypeOK ==
  /\ DOMAIN sockets \subseteq Sockets
  /\ \A s \in DOMAIN sockets : sockets[s] \in Socket
  /\ wsRef \in Sockets \cup {NoSocket}
  /\ timer \in Urls \cup {NoTimer}
  /\ manual \in BOOLEAN
  /\ liveStatus \in {"disconnected", "connecting", "connected", "error"}
  /\ liveUrl \in Urls
  /\ reconnectEnabled \in BOOLEAN

ConnectionInit ==
  /\ sockets = [s \in {} |-> NoSocket]
  /\ wsRef = NoSocket
  /\ timer = NoTimer
  /\ manual = FALSE
  /\ liveStatus = "disconnected"
  /\ liveUrl \in Urls
  /\ reconnectEnabled = TRUE

\* The sockets left once the handlers of s are set to null.
Without(s) == [x \in DOMAIN sockets \ {s} |-> sockets[x]]

-----------------------------------------------------------------------------

\* connectLive(attempt) from the removal of the existing socket on.  The
\* constructor throws on a bad URL, after the status was set.
OpenSocket(url) ==
  /\ liveStatus' = "connecting"
  /\ IF url \in BadUrls
     THEN /\ sockets' = Without(wsRef)
          /\ wsRef' = NoSocket
     ELSE \E s \in Sockets \ DOMAIN sockets :
            /\ sockets' = [x \in (DOMAIN sockets \ {wsRef}) \cup {s} |->
                             IF x = s
                             THEN [phase |-> "connecting", url |-> url]
                             ELSE sockets[x]]
            /\ wsRef' = s

\* Faulty variant: a scheduled retry survives the click.
ConnectBesideRetry ==
  /\ liveStatus \in {"disconnected", "error"}
  /\ IF liveUrl = EmptyUrl
     THEN /\ liveStatus' = "error"
          /\ UNCHANGED <<sockets, wsRef, manual>>
     ELSE /\ manual' = FALSE
          /\ OpenSocket(liveUrl)
  /\ UNCHANGED <<timer, liveUrl, reconnectEnabled>>

\* The connect button: connectLive(0).
ConnectLiveManual ==
  /\ liveStatus \in {"disconnected", "error"}
  /\ IF liveUrl = EmptyUrl
     THEN /\ liveStatus' = "error"
          /\ UNCHANGED <<sockets, wsRef, timer, manual>>
     ELSE /\ manual' = FALSE
          /\ timer' = NoTimer
          /\ OpenSocket(liveUrl)
  /\ UNCHANGED <<liveUrl, reconnectEnabled>>

\* Faulty variant: the socket is closed with its handlers on.
DisconnectWithHandlers ==
  /\ liveStatus # "disconnected"
  /\ manual' = TRUE
  /\ timer' = NoTimer
  /\ wsRef' = NoSocket
  /\ liveStatus' = "disconnected"
  /\ UNCHANGED <<sockets, liveUrl, reconnectEnabled>>

\* The disconnect button.
DisconnectLive ==
  /\ liveStatus # "disconnected"
  /\ manual' = TRUE
  /\ timer' = NoTimer
  /\ sockets' = Without(wsRef)
  /\ wsRef' = NoSocket
  /\ liveStatus' = "disconnected"
  /\ UNCHANGED <<liveUrl, reconnectEnabled>>

SetLiveUrl(url) ==
  /\ liveUrl' = url
  /\ UNCHANGED <<sockets, wsRef, timer, manual, liveStatus, reconnectEnabled>>

\* The auto-reconnect box and the effect that copies it to the ref.
SetLiveReconnectEnabled(enabled) ==
  /\ reconnectEnabled' = enabled
  /\ UNCHANGED <<sockets, wsRef, timer, manual, liveStatus, liveUrl>>

\* The timer of a retry calls connectLive(nextAttempt) of the render in which
\* the lost socket was made, whose liveUrl is that of the socket.
RetryTimerFires ==
  /\ timer # NoTimer
  /\ timer' = NoTimer
  /\ OpenSocket(timer)
  /\ UNCHANGED <<manual, liveUrl, reconnectEnabled>>

-----------------------------------------------------------------------------
(* Events of a socket that still has its handlers *)

\* onopen
SocketOpens(s) ==
  /\ sockets[s].phase = "connecting"
  /\ sockets' = [sockets EXCEPT ![s].phase = "open"]
  /\ timer' = NoTimer
  /\ liveStatus' = "connected"
  /\ UNCHANGED <<wsRef, manual, liveUrl, reconnectEnabled>>

\* Faulty variant: the error is logged only.
SocketErrsSilently(s) ==
  /\ sockets[s].phase # "failed"
  /\ sockets' = [sockets EXCEPT ![s].phase = "failed"]
  /\ UNCHANGED <<wsRef, timer, manual, liveStatus, liveUrl, reconnectEnabled>>

\* onerror.  Its close event follows, in the same task or in a later one.
SocketErrs(s) ==
  /\ sockets[s].phase # "failed"
  /\ sockets' = [sockets EXCEPT ![s].phase = "failed"]
  /\ liveStatus' = "error"
  /\ UNCHANGED <<wsRef, timer, manual, liveUrl, reconnectEnabled>>

\* onclose with code 1000 or 1005: the server closed the connection.
SocketClosesNormally(s) ==
  /\ sockets[s].phase = "open"
  /\ sockets' = Without(s)
  /\ wsRef' = IF wsRef = s THEN NoSocket ELSE wsRef
  /\ liveStatus' = "disconnected"
  /\ UNCHANGED <<timer, manual, liveUrl, reconnectEnabled>>

\* Faulty variant: no retry is scheduled.
SocketDropsForGood(s) ==
  /\ sockets[s].phase \in {"open", "failed"}
  /\ sockets' = Without(s)
  /\ wsRef' = IF wsRef = s THEN NoSocket ELSE wsRef
  /\ liveStatus' = "error"
  /\ UNCHANGED <<timer, manual, liveUrl, reconnectEnabled>>

\* onclose with any other code: the connection failed or broke.
SocketDrops(s) ==
  /\ sockets[s].phase \in {"open", "failed"}
  /\ sockets' = Without(s)
  /\ wsRef' = IF wsRef = s THEN NoSocket ELSE wsRef
  /\ liveStatus' = "error"
  /\ timer' = IF manual \/ ~reconnectEnabled THEN timer ELSE sockets[s].url
  /\ UNCHANGED <<manual, liveUrl, reconnectEnabled>>

UserNext ==
  \/ ConnectLiveManual
  \/ DisconnectLive
  \/ \E url \in Urls : SetLiveUrl(url)
  \/ \E enabled \in BOOLEAN : SetLiveReconnectEnabled(enabled)

SocketNext(s) ==
  /\ s \in DOMAIN sockets
  /\ \/ SocketOpens(s)
     \/ SocketErrs(s)
     \/ SocketClosesNormally(s)
     \/ SocketDrops(s)

ConnectionNext == UserNext \/ RetryTimerFires \/ \E s \in Sockets : SocketNext(s)

ConnectionSpec == ConnectionInit /\ [][ConnectionNext]_connectionVars

\* A timer fires, and the close event of a failed socket is delivered.
ConnectionFairness ==
  /\ WF_connectionVars(RetryTimerFires)
  /\ \A s \in Sockets :
       WF_connectionVars(s \in DOMAIN sockets /\ sockets[s].phase = "failed" /\ SocketDrops(s))

-----------------------------------------------------------------------------

\* Two connections never feed the same replay, and no retry is scheduled
\* beside a connection: connectLive takes the handlers off the old socket and
\* clears the timer, whichever of a click, a timer or a late close comes first.
OneConnection ==
  /\ DOMAIN sockets = {wsRef} \ {NoSocket}
  /\ timer # NoTimer => wsRef = NoSocket

\* After the disconnect button, and until the connect button, no socket event
\* and no timer can bring the connection back.
DisconnectIsFinal == manual => DOMAIN sockets = {} /\ timer = NoTimer

\* The status is that of the socket in wsRef.  A rejected URL is excluded: see
\* AttemptsAreVisible.
StatusIsOfSocket ==
  /\ liveStatus = "connected" <=> \E s \in {wsRef} \cap DOMAIN sockets : sockets[s].phase = "open"
  /\ \A s \in DOMAIN sockets : sockets[s].phase = "connecting" => liveStatus = "connecting"

\* "connecting" means that an attempt is under way, whose end will be reported.
AttemptsAreVisible == liveStatus = "connecting" => wsRef # NoSocket

\* A connection lost with auto-reconnect on, and left alone by the user, is
\* tried again: the error never stays.
LossIsRetried ==
  []reconnectEnabled /\ [](liveUrl # EmptyUrl)
    => (liveStatus = "error" ~> liveStatus # "error")

ConnectionSafety == ConnectionTypeOK /\ OneConnection /\ DisconnectIsFinal /\ StatusIsOfSocket
=============================================================================
