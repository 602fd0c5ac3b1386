------------------------- MODULE LiveStudioProofs -------------------------
(***************************************************************************)
(* Safety of the live connection, for any sockets and addresses, and of the *)
(* live session, for all payloads, logs and bounds.  The composition is an  *)
(* instance of each, so what is proved of either holds of the Studio.       *)
(***************************************************************************)
EXTENDS LiveStudio, NaturalLemmas, SequenceTheorems

-----------------------------------------------------------------------------
(* The connection *)

LEMMA SafetyInit == ConnectionInit => ConnectionSafety
BY SocketsAssumption
DEF ConnectionInit, ConnectionSafety, ConnectionTypeOK, OneConnection, DisconnectIsFinal, StatusIsOfSocket

\* A new attempt, from a state without a scheduled retry, is the one connection.
LEMMA OpenSocketSafety ==
  ASSUME ConnectionSafety, NEW url \in Urls, OpenSocket(url),
         timer' = NoTimer, manual' = FALSE,
         liveUrl' = liveUrl, reconnectEnabled' = reconnectEnabled
  PROVE  ConnectionSafety'
<1>1. /\ ConnectionTypeOK /\ DOMAIN sockets = {wsRef} \ {NoSocket}
      /\ liveStatus' = "connecting"
  BY DEF ConnectionSafety, OneConnection, OpenSocket
<1>2. CASE url \in BadUrls
  <2>1. sockets' = [x \in {} |-> sockets[x]] /\ wsRef' = NoSocket
    BY <1>1, <1>2 DEF OpenSocket, Without
  <2> QED
    BY <1>1, <2>1, SocketsAssumption
    DEF ConnectionSafety, ConnectionTypeOK, OneConnection, DisconnectIsFinal, StatusIsOfSocket
<1>3. CASE url \notin BadUrls
  <2> DEFINE new == [phase |-> "connecting", url |-> url]
  <2>1. PICK s \in Sockets : sockets' = [x \in {s} |-> new] /\ wsRef' = s
    BY <1>1, <1>3 DEF OpenSocket
  <2>2. new \in Socket /\ new.phase = "connecting"
    BY DEF Socket
  <2> HIDE DEF new
  <2>3. ConnectionTypeOK'
    BY <1>1, <2>1, <2>2, SocketsAssumption DEF ConnectionTypeOK
  <2>4. OneConnection' /\ DisconnectIsFinal'
    BY <2>1, SocketsAssumption DEF OneConnection, DisconnectIsFinal
  <2>5. StatusIsOfSocket'
    BY <1>1, <2>1, <2>2 DEF StatusIsOfSocket
  <2> QED
    BY <2>3, <2>4, <2>5 DEF ConnectionSafety
<1> QED
  BY <1>2, <1>3

LEMMA UserSafety ==
  ASSUME ConnectionSafety, UserNext \/ RetryTimerFires
  PROVE  ConnectionSafety'
<1>1. ASSUME ConnectLiveManual PROVE ConnectionSafety'
  <2>1. CASE liveUrl = EmptyUrl
    BY <1>1, <2>1 DEF ConnectLiveManual, ConnectionSafety, ConnectionTypeOK, OneConnection, DisconnectIsFinal,
                      StatusIsOfSocket
  <2>2. CASE liveUrl # EmptyUrl
    <3>1. liveUrl \in Urls
      BY DEF ConnectionSafety, ConnectionTypeOK
    <3> QED
      BY <1>1, <2>2, <3>1, OpenSocketSafety DEF ConnectLiveManual
  <2> QED
    BY <2>1, <2>2
<1>2. ASSUME DisconnectLive PROVE ConnectionSafety'
  <2>1. sockets' = [x \in {} |-> sockets[x]]
    BY <1>2 DEF DisconnectLive, Without, ConnectionSafety, OneConnection
  <2> QED
    BY <1>2, <2>1, SocketsAssumption
    DEF DisconnectLive, ConnectionSafety, ConnectionTypeOK, OneConnection, DisconnectIsFinal, StatusIsOfSocket
<1>3. ASSUME NEW url \in Urls, SetLiveUrl(url) PROVE ConnectionSafety'
  BY <1>3 DEF SetLiveUrl, ConnectionSafety, ConnectionTypeOK, OneConnection, DisconnectIsFinal, StatusIsOfSocket
<1>4. ASSUME NEW enabled \in BOOLEAN, SetLiveReconnectEnabled(enabled) PROVE ConnectionSafety'
  BY <1>4 DEF SetLiveReconnectEnabled, ConnectionSafety, ConnectionTypeOK, OneConnection, DisconnectIsFinal,
              StatusIsOfSocket
<1>5. ASSUME RetryTimerFires PROVE ConnectionSafety'
  <2>1. timer \in Urls /\ ~ manual /\ manual \in BOOLEAN
    BY <1>5 DEF RetryTimerFires, ConnectionSafety, ConnectionTypeOK, DisconnectIsFinal
  <2> QED
    BY <1>5, <2>1, OpenSocketSafety DEF RetryTimerFires
<1> QED
  BY <1>1, <1>2, <1>3, <1>4, <1>5 DEF UserNext

LEMMA SocketSafety ==
  ASSUME ConnectionSafety, NEW s \in Sockets, SocketNext(s)
  PROVE  ConnectionSafety'
<1>1. /\ ConnectionTypeOK /\ s = wsRef /\ DOMAIN sockets = {s} /\ s # NoSocket
      /\ timer = NoTimer /\ manual = FALSE /\ sockets[s] \in Socket
  BY SocketsAssumption DEF ConnectionSafety, ConnectionTypeOK, OneConnection, DisconnectIsFinal, SocketNext
<1>2. /\ liveStatus = "connected" <=> sockets[s].phase = "open"
      /\ sockets[s].phase = "connecting" => liveStatus = "connecting"
  BY <1>1 DEF ConnectionSafety, StatusIsOfSocket
<1>3. ASSUME NEW phase \in {"open", "failed"},
             sockets' = [sockets EXCEPT ![s].phase = phase],
             wsRef' = wsRef, timer' = NoTimer, manual' = manual, liveUrl' = liveUrl,
             reconnectEnabled' = reconnectEnabled,
             liveStatus' = IF phase = "open" THEN "connected" ELSE "error"
      PROVE  ConnectionSafety'
  <2>1. /\ DOMAIN sockets' = {s} /\ sockets'[s] \in Socket /\ sockets'[s].phase = phase
    BY <1>1, <1>3 DEF Socket
  <2>2. ConnectionTypeOK'
    BY <1>1, <1>3, <2>1 DEF ConnectionTypeOK
  <2>3. OneConnection' /\ DisconnectIsFinal' /\ StatusIsOfSocket'
    BY <1>1, <1>3, <2>1 DEF OneConnection, DisconnectIsFinal, StatusIsOfSocket
  <2> QED
    BY <2>2, <2>3 DEF ConnectionSafety
<1>4. ASSUME sockets' = Without(s), wsRef' = NoSocket, manual' = manual,
             timer' \in Urls \cup {NoTimer}, liveStatus' \in {"disconnected", "error"},
             liveUrl' = liveUrl, reconnectEnabled' = reconnectEnabled
      PROVE  ConnectionSafety'
  <2>1. sockets' = [x \in {} |-> sockets[x]]
    BY <1>1, <1>4 DEF Without
  <2> QED
    BY <1>1, <1>4, <2>1
    DEF ConnectionSafety, ConnectionTypeOK, OneConnection, DisconnectIsFinal, StatusIsOfSocket
<1>5. CASE SocketOpens(s)
  BY <1>1, <1>3, <1>5 DEF SocketOpens
<1>6. CASE SocketErrs(s)
  BY <1>1, <1>3, <1>6 DEF SocketErrs
<1>7. CASE SocketClosesNormally(s)
  BY <1>1, <1>4, <1>7 DEF SocketClosesNormally
<1>8. CASE SocketDrops(s)
  <2>1. timer' \in Urls \cup {NoTimer}
    BY <1>1, <1>8 DEF SocketDrops, Socket
  <2> QED
    BY <1>1, <1>4, <1>8, <2>1 DEF SocketDrops
<1> QED
  BY <1>5, <1>6, <1>7, <1>8 DEF SocketNext

LEMMA SafetyStep ==
  ASSUME ConnectionSafety, [ConnectionNext]_connectionVars
  PROVE  ConnectionSafety'
<1>1. CASE UNCHANGED connectionVars
  BY <1>1 DEF connectionVars, ConnectionSafety, ConnectionTypeOK, OneConnection, DisconnectIsFinal, StatusIsOfSocket
<1>2. CASE ConnectionNext
  BY <1>2, UserSafety, SocketSafety DEF ConnectionNext
<1> QED
  BY <1>1, <1>2

\* One connection at a time, none after a disconnect, and a status that tells
\* the truth: the four parts are inductive together, for the handlers that may
\* run and the timer that may fire are exactly those of wsRef.
THEOREM ConnectionSafe ==
  ConnectionSpec => [](ConnectionTypeOK /\ OneConnection /\ DisconnectIsFinal /\ StatusIsOfSocket)
<1>1. ConnectionSafety /\ [ConnectionNext]_connectionVars => ConnectionSafety'
  BY SafetyStep
<1>2. ConnectionSafety => ConnectionTypeOK /\ OneConnection /\ DisconnectIsFinal /\ StatusIsOfSocket
  BY DEF ConnectionSafety
<1> QED
  BY <1>1, <1>2, SafetyInit, PTL DEF ConnectionSpec

\* What the panel says of the connection is what the socket is doing, whichever
\* of clicks, socket events and retries came last (liveStatus and wsRef).
THEOREM StatusTellsTheSocket == ConnectionSpec => []StatusIsOfSocket
<1>1. ConnectionSafety => StatusIsOfSocket
  BY DEF ConnectionSafety
<1>2. ConnectionSafety /\ [ConnectionNext]_connectionVars => ConnectionSafety'
  BY SafetyStep
<1> QED
  BY <1>1, <1>2, SafetyInit, PTL DEF ConnectionSpec

\* While no URL is rejected by the constructor, "connecting" has an attempt
\* behind it.
THEOREM AttemptsVisible == BadUrls = {} => (ConnectionSpec => []AttemptsAreVisible)
<1> SUFFICES ASSUME BadUrls = {} PROVE ConnectionSpec => []AttemptsAreVisible
  OBVIOUS
<1>1. ConnectionInit => AttemptsAreVisible
  BY DEF ConnectionInit, AttemptsAreVisible
<1>2. ConnectionSafety /\ AttemptsAreVisible /\ [ConnectionNext]_connectionVars => AttemptsAreVisible'
  <2> SUFFICES ASSUME ConnectionSafety, AttemptsAreVisible, [ConnectionNext]_connectionVars PROVE AttemptsAreVisible'
    OBVIOUS
  <2>1. \A url : OpenSocket(url) => wsRef' # NoSocket
    BY SocketsAssumption DEF OpenSocket
  <2>2. UserNext => AttemptsAreVisible'
    BY <2>1 DEF UserNext, ConnectLiveManual, DisconnectLive, SetLiveUrl,
                SetLiveReconnectEnabled, AttemptsAreVisible
  <2>3. RetryTimerFires => AttemptsAreVisible'
    BY <2>1 DEF RetryTimerFires, AttemptsAreVisible
  <2>4. ASSUME NEW s \in Sockets, SocketNext(s) PROVE AttemptsAreVisible'
    BY <2>4 DEF SocketNext, SocketOpens, SocketErrs, SocketClosesNormally, SocketDrops,
                AttemptsAreVisible
  <2>5. CASE UNCHANGED connectionVars
    BY <2>5 DEF connectionVars, AttemptsAreVisible
  <2> QED
    BY <2>2, <2>3, <2>4, <2>5 DEF ConnectionNext
<1>3. ConnectionSafety /\ [ConnectionNext]_connectionVars => ConnectionSafety'
  BY SafetyStep
<1> QED
  BY <1>1, <1>2, <1>3, SafetyInit, PTL DEF ConnectionSpec

\* A lost connection has a retry scheduled, or its close event, which schedules
\* one, is still to come.
RetryIsUnderWay ==
  liveStatus = "error" => timer # NoTimer \/ \E s \in DOMAIN sockets : sockets[s].phase = "failed"

\* The status stays an error only where something is left that ends it.
LEMMA RetryStep ==
  ASSUME ConnectionSafety, RetryIsUnderWay, reconnectEnabled, liveUrl # EmptyUrl,
         [ConnectionNext]_connectionVars
  PROVE  RetryIsUnderWay'
<1>1. ASSUME ConnectLiveManual PROVE RetryIsUnderWay'
  BY <1>1 DEF ConnectLiveManual, OpenSocket, RetryIsUnderWay
<1>2. ASSUME DisconnectLive PROVE RetryIsUnderWay'
  BY <1>2 DEF DisconnectLive, RetryIsUnderWay
<1>3. ASSUME NEW url \in Urls, SetLiveUrl(url) PROVE RetryIsUnderWay'
  BY <1>3 DEF SetLiveUrl, RetryIsUnderWay
<1>4. ASSUME NEW enabled \in BOOLEAN, SetLiveReconnectEnabled(enabled) PROVE RetryIsUnderWay'
  BY <1>4 DEF SetLiveReconnectEnabled, RetryIsUnderWay
<1>5. ASSUME RetryTimerFires PROVE RetryIsUnderWay'
  BY <1>5 DEF RetryTimerFires, OpenSocket, RetryIsUnderWay
<1>6. ASSUME NEW s \in Sockets, SocketNext(s) PROVE RetryIsUnderWay'
  <2>1. s \in DOMAIN sockets /\ sockets[s] \in Socket /\ manual = FALSE
    BY <1>6 DEF SocketNext, ConnectionSafety, ConnectionTypeOK, DisconnectIsFinal
  <2>2. CASE SocketOpens(s) \/ SocketClosesNormally(s)
    BY <2>2 DEF SocketOpens, SocketClosesNormally, RetryIsUnderWay
  <2>3. CASE SocketErrs(s)
    <3>1. s \in DOMAIN sockets' /\ sockets'[s].phase = "failed"
      BY <2>1, <2>3 DEF SocketErrs, Socket
    <3> QED
      BY <3>1 DEF RetryIsUnderWay
  <2>4. CASE SocketDrops(s)
    <3>1. timer' = sockets[s].url /\ sockets[s].url \in Urls
      BY <2>1, <2>4 DEF SocketDrops, Socket
    <3> QED
      BY <3>1, SocketsAssumption DEF RetryIsUnderWay
  <2> QED
    BY <1>6, <2>2, <2>3, <2>4 DEF SocketNext
<1>7. CASE UNCHANGED connectionVars
  BY <1>7 DEF connectionVars, RetryIsUnderWay
<1> QED
  BY <1>1, <1>2, <1>3, <1>4, <1>5, <1>6, <1>7 DEF ConnectionNext, UserNext

\* While the user leaves auto-reconnect on and an address in the field, an error
\* on screen is never the end of it: the timer is set, or onclose will set it.
\* No order of clicks, onerror, onclose and retries leaves the panel waiting for
\* nothing; what is left to LossIsRetried is that timers fire.
THEOREM ErrorsAreRetried ==
  ConnectionSpec /\ []reconnectEnabled /\ [](liveUrl # EmptyUrl) => []RetryIsUnderWay
<1>1. ConnectionInit => RetryIsUnderWay
  BY DEF ConnectionInit, RetryIsUnderWay
<1>2. ConnectionSafety /\ RetryIsUnderWay /\ reconnectEnabled /\ liveUrl # EmptyUrl
        /\ [ConnectionNext]_connectionVars => RetryIsUnderWay'
  BY RetryStep
<1>3. ConnectionSafety /\ [ConnectionNext]_connectionVars => ConnectionSafety'
  BY SafetyStep
<1> QED
  BY <1>1, <1>2, <1>3, SafetyInit, PTL DEF ConnectionSpec

\* The addresses that a socket was made for, and those that will be retried.
RetriesAreSound ==
  /\ \A s \in DOMAIN sockets : sockets[s].url \notin BadUrls \cup {EmptyUrl}
  /\ timer # NoTimer => timer \notin BadUrls \cup {EmptyUrl}

\* A socket is made only for an address that the constructor accepts.
LEMMA OpenSocketIsSound ==
  ASSUME RetriesAreSound, NEW url, url # EmptyUrl, OpenSocket(url)
  PROVE  \A s \in DOMAIN sockets' : sockets'[s].url \notin BadUrls \cup {EmptyUrl}
<1>1. CASE url \in BadUrls
  BY <1>1 DEF OpenSocket, Without, RetriesAreSound
<1>2. CASE url \notin BadUrls
  <2>1. PICK s \in Sockets :
          sockets' = [x \in (DOMAIN sockets \ {wsRef}) \cup {s} |->
                        IF x = s THEN [phase |-> "connecting", url |-> url] ELSE sockets[x]]
    BY <1>2 DEF OpenSocket
  <2> SUFFICES ASSUME NEW x \in DOMAIN sockets' PROVE sockets'[x].url \notin BadUrls \cup {EmptyUrl}
    OBVIOUS
  <2>2. CASE x = s
    BY <1>2, <2>1, <2>2
  <2>3. CASE x # s
    BY <2>1, <2>3 DEF RetriesAreSound
  <2> QED
    BY <2>2, <2>3
<1> QED
  BY <1>1, <1>2

\* A retry is scheduled with the address of the socket that was lost.
LEMMA SoundStep ==
  ASSUME ConnectionSafety, RetriesAreSound, [ConnectionNext]_connectionVars
  PROVE  RetriesAreSound'
<1>1. ASSUME ConnectLiveManual PROVE RetriesAreSound'
  <2>1. CASE liveUrl = EmptyUrl
    BY <1>1, <2>1 DEF ConnectLiveManual, RetriesAreSound
  <2>2. CASE liveUrl # EmptyUrl
    BY <1>1, <2>2, OpenSocketIsSound DEF ConnectLiveManual, RetriesAreSound
  <2> QED
    BY <2>1, <2>2
<1>2. ASSUME DisconnectLive PROVE RetriesAreSound'
  BY <1>2 DEF DisconnectLive, Without, RetriesAreSound
<1>3. CASE \/ \E url \in Urls : SetLiveUrl(url)
           \/ \E enabled \in BOOLEAN : SetLiveReconnectEnabled(enabled)
           \/ UNCHANGED connectionVars
  BY <1>3 DEF SetLiveUrl, SetLiveReconnectEnabled, connectionVars, RetriesAreSound
<1>4. ASSUME RetryTimerFires PROVE RetriesAreSound'
  <2>1. timer # EmptyUrl /\ OpenSocket(timer) /\ timer' = NoTimer
    BY <1>4 DEF RetryTimerFires, RetriesAreSound
  <2> QED
    BY <2>1, OpenSocketIsSound DEF RetriesAreSound
<1>5. ASSUME NEW s \in Sockets, SocketNext(s) PROVE RetriesAreSound'
  <2>1. s \in DOMAIN sockets /\ sockets[s] \in Socket /\ timer = NoTimer
    BY <1>5, SocketsAssumption DEF SocketNext, ConnectionSafety, ConnectionTypeOK, OneConnection
  <2>2. CASE SocketClosesNormally(s) \/ SocketDrops(s)
    <3>1. \A x \in DOMAIN sockets' : x \in DOMAIN sockets /\ sockets'[x] = sockets[x]
      BY <2>2 DEF SocketClosesNormally, SocketDrops, Without
    <3>2. timer' \in {timer, sockets[s].url}
      BY <2>2 DEF SocketClosesNormally, SocketDrops
    <3> QED
      BY <2>1, <3>1, <3>2 DEF RetriesAreSound
  <2>3. CASE SocketOpens(s) \/ SocketErrs(s)
    <3>1. /\ DOMAIN sockets' = DOMAIN sockets /\ timer' = NoTimer
          /\ \A x \in DOMAIN sockets : sockets'[x].url = sockets[x].url
      BY <2>1, <2>3 DEF SocketOpens, SocketErrs, Socket
    <3> QED
      BY <3>1 DEF RetriesAreSound
  <2> QED
    BY <1>5, <2>2, <2>3 DEF SocketNext
<1> QED
  BY <1>1, <1>2, <1>3, <1>4, <1>5 DEF ConnectionNext, UserNext

\* A retry, whenever its timer fires and whatever was typed since, goes to an
\* address whose constructor did not throw and that is not blank: its closure has
\* the address of the socket that was lost.  Only the button can throw.
THEOREM RetriesNeverThrow == ConnectionSpec => []RetriesAreSound
<1>1. ConnectionInit => RetriesAreSound
  BY DEF ConnectionInit, RetriesAreSound
<1>2. ConnectionSafety /\ RetriesAreSound /\ [ConnectionNext]_connectionVars => RetriesAreSound'
  BY SoundStep
<1>3. ConnectionSafety /\ [ConnectionNext]_connectionVars => ConnectionSafety'
  BY SafetyStep
<1> QED
  BY <1>1, <1>2, <1>3, SafetyInit, PTL DEF ConnectionSpec

-----------------------------------------------------------------------------
(* The session *)

\* Every nonempty set of ticks has a greatest one.
LEMMA GreatestTick ==
  ASSUME NEW T \in SUBSET Ticks, T # {}
  PROVE  \E m \in T : \A t \in T : t <= m
<1> DEFINE S == {t + 1 : t \in T}
<1>1. S \in SUBSET Nat /\ S # {} /\ \A s \in S : s <= MaxTick + 1
  <2>1. MaxTick \in Nat /\ T \subseteq -1 .. MaxTick
    BY SessionAssumption DEF Ticks, Untimed
  <2>2. \A t \in T : t + 1 \in Nat /\ t + 1 <= MaxTick + 1
    BY <2>1
  <2> QED
    BY <2>2
<1>2. PICK s \in S : \A r \in S : r <= s
  <2>1. MaxTick + 1 \in Nat
    BY SessionAssumption
  <2> HIDE DEF S
  <2> QED
    BY <1>1, <2>1, GreatestNatural
<1>3. PICK m \in T : s = m + 1
  OBVIOUS
<1>4. \A t \in T : t + 1 <= m + 1
  BY <1>2, <1>3
<1>5. \A t \in T : t <= m
  BY <1>4, SessionAssumption DEF Ticks, Untimed
<1> QED
  BY <1>3, <1>5

\* A store keeps its type, its events and what it had of ticks.
LEMMA AppendManyProperties ==
  ASSUME NEW store \in Store, NEW events \in Seq(Ticks)
  PROVE  /\ AppendMany(store, events) \in Store
         /\ AppendMany(store, events).events = store.events \o events
         /\ store.maxTick <= AppendMany(store, events).maxTick
<1> DEFINE ticks == {store.maxTick} \cup {events[i] : i \in DOMAIN events}
           m == CHOOSE m \in ticks : \A t \in ticks : t <= m
<1>1. ticks \in SUBSET Ticks /\ ticks # {} /\ store.maxTick \in ticks
  BY DEF Store
<1>2. m \in ticks /\ \A t \in ticks : t <= m
  <2> HIDE DEF ticks
  <2> QED
    BY <1>1, GreatestTick
<1>3. AppendMany(store, events) = [events |-> store.events \o events, maxTick |-> m]
  BY DEF AppendMany
<1>4. store.events \o events \in Seq(Ticks)
  BY ConcatProperties DEF Store
<1> HIDE DEF m
<1> QED
  BY <1>1, <1>2, <1>3, <1>4 DEF Store

LEMMA EmptyStoreType == EmptyStore \in Store /\ EmptyStore.events = <<>> /\ NoReplay \notin Store
BY SessionAssumption DEF EmptyStore, Store, Ticks, Untimed

\* What the views show of a store is a tick, and grows with the store.
LEMMA ShownProperties ==
  /\ Shown(NoReplay) = 0
  /\ \A store \in Store : Shown(store) \in 0 .. MaxTick
  /\ \A s, t \in Store : s.maxTick <= t.maxTick => Shown(s) <= Shown(t)
BY EmptyStoreType, SessionAssumption DEF Shown, Store, Ticks, Untimed

LEMMA ClampedProperties ==
  ASSUME NEW tick \in Int, NEW greatest \in Nat
  PROVE  /\ Clamped(tick, greatest) \in 0 .. greatest
         /\ tick \in 0 .. greatest => Clamped(tick, greatest) = tick
BY DEF Clamped

-----------------------------------------------------------------------------

\* A pinned view has a replay to resume into and does not follow.
PinnedOk == livePinned # NotPinned => replay # NoReplay /\ ~liveAutoFollow

\* What following means when the view "hero" stays closed.
FollowOk == ~heroView => (mode = "live" /\ liveAutoFollow => selectedTick = Shown(replay))

IInv == TypeOK /\ CaptureComplete /\ ScrubberFits /\ PinnedOk /\ FollowOk

LEMMA InvInit == Init => IInv
<1> SUFFICES ASSUME Init PROVE IInv
  OBVIOUS
<1>1. TypeOK
  <2>1. 0 \in 0 .. MaxTick /\ <<>> \in Seq(Ticks)
    BY SessionAssumption
  <2> QED
    BY <2>1, Zenon DEF Init, TypeOK
<1>2. CaptureComplete
  BY DEF Init, CaptureComplete, Capture, Recorded, Buffer
<1>3. ScrubberFits
  BY ShownProperties DEF Init, ScrubberFits
<1>4. PinnedOk /\ FollowOk
  BY DEF Init, PinnedOk, FollowOk
<1> QED
  BY <1>1, <1>2, <1>3, <1>4 DEF IInv

LEMMA LoadInv ==
  ASSUME IInv, NEW ticks \in Logs, LoadJsonl(ticks)
  PROVE  IInv'
<1> DEFINE store == AppendMany(EmptyStore, ticks)
<1>1. ticks \in Seq(Ticks)
  BY SessionAssumption
<1>2. store \in Store /\ store.events = ticks
  <2>1. store.events = <<>> \o ticks
    BY <1>1, AppendManyProperties, EmptyStoreType
  <2> QED
    BY <1>1, <2>1, AppendManyProperties, EmptyStoreType, ConcatEmptySeq
<1>3. replay' = store
  BY DEF LoadJsonl
<1> HIDE DEF store
<1>4. replayMaxTick' = Shown(store) /\ selectedTick' = Shown(store) /\ Shown(store) \in 0 .. MaxTick
  BY <1>2, <1>3, ShownProperties DEF LoadJsonl, store
<1>5. TypeOK'
  BY <1>1, <1>2, <1>3, <1>4 DEF LoadJsonl, IInv, TypeOK
<1>6. CaptureComplete'
  BY <1>1, <1>2, <1>3, EmptyStoreType, ConcatEmptySeq
  DEF LoadJsonl, CaptureComplete, Capture, Recorded, Buffer
<1>7. ScrubberFits'
  BY <1>3, <1>4, SessionAssumption DEF ScrubberFits
<1>8. PinnedOk' /\ FollowOk'
  BY <1>3, <1>4 DEF LoadJsonl, PinnedOk, FollowOk
<1> QED
  BY <1>5, <1>6, <1>7, <1>8 DEF IInv

LEMMA MessageInv ==
  ASSUME IInv, NEW ticks \in Payloads, Message(ticks)
  PROVE  IInv'
<1>1. ticks \in Seq(Ticks)
  BY SessionAssumption
<1>2. /\ delivered' = delivered \o ticks /\ delivered' \in Seq(Ticks)
      /\ opened' = opened /\ mode' = "live"
      /\ UNCHANGED <<liveAutoFollow, connected, heroView>>
  BY <1>1, ConcatProperties DEF Message, AppendLiveEvents, IInv, TypeOK
<1>3. opened \o delivered' = (opened \o delivered) \o ticks
  BY <1>1, <1>2, ConcatAssociative DEF IInv, TypeOK
<1>4. CASE livePinned = NotPinned
  <2> DEFINE old == IF replay = NoReplay THEN EmptyStore ELSE replay
             store == AppendMany(old, ticks)
  <2>1. old \in Store /\ old.events = Recorded /\ Recorded \in Seq(Ticks)
    BY EmptyStoreType DEF Recorded, IInv, TypeOK, Store
  <2>2. ApplyEvents(ticks) /\ livePinned' = NotPinned /\ replay' = store
    BY <1>4 DEF Message, AppendLiveEvents, ApplyEvents
  <2>3. store \in Store /\ store.events = Recorded \o ticks /\ Shown(store) \in 0 .. MaxTick
    <3> HIDE DEF old
    <3> QED
      BY <1>1, <2>1, AppendManyProperties, ShownProperties
  <2>4. replayMaxTick' = Shown(store) /\ selectedTick' \in 0 .. Shown(store)
    <3> HIDE DEF store
    <3>1. replayMaxTick' = Shown(store)
      BY <2>2 DEF ApplyEvents
    <3>2. Clamped(selectedTick, Shown(store)) \in 0 .. Shown(store)
      <4>1. selectedTick \in Int /\ Shown(store) \in Nat
        BY <2>3, SessionAssumption DEF IInv, TypeOK
      <4> QED
        BY <4>1, ClampedProperties
    <3>3. selectedTick' = IF liveAutoFollow THEN Shown(store)
                                            ELSE Clamped(selectedTick, Shown(store))
      BY <2>2 DEF ApplyEvents
    <3> QED
      BY <2>3, <3>1, <3>2, <3>3, SessionAssumption
  <2>5. liveAutoFollow => selectedTick' = Shown(store)
    BY <2>2 DEF ApplyEvents
  <2> HIDE DEF store, old
  <2>6. TypeOK'
    BY <1>2, <2>2, <2>3, <2>4, SessionAssumption DEF IInv, TypeOK
  <2>7. CaptureComplete'
    <3>1. Recorded = opened \o delivered
      BY <1>4, <2>1, ConcatEmptySeq DEF IInv, CaptureComplete, Capture, Buffer
    <3>2. Capture' = (Recorded \o ticks) \o <<>>
      BY <2>2, <2>3, EmptyStoreType DEF Capture, Recorded, Buffer
    <3>3. Recorded \o ticks \in Seq(Ticks)
      BY <1>1, <2>1, ConcatProperties
    <3> QED
      BY <1>2, <1>3, <3>1, <3>2, <3>3, ConcatEmptySeq DEF CaptureComplete
  <2>8. ScrubberFits' /\ PinnedOk' /\ FollowOk'
    BY <1>2, <2>2, <2>4, <2>5 DEF ScrubberFits, PinnedOk, FollowOk
  <2> QED
    BY <2>6, <2>7, <2>8 DEF IInv
<1>5. CASE livePinned # NotPinned
  <2>1. /\ livePinned' = livePinned \o ticks
        /\ UNCHANGED <<replay, replayMaxTick, selectedTick>>
    BY <1>5 DEF Message, AppendLiveEvents, BufferEvents
  <2>2. /\ livePinned \in Seq(Ticks) /\ livePinned' \in Seq(Ticks) /\ livePinned' # NotPinned
        /\ Recorded \in Seq(Ticks)
    <3>1. livePinned \in Seq(Ticks)
      BY <1>5 DEF IInv, TypeOK
    <3>2. livePinned' \in Seq(Ticks) /\ livePinned' # NotPinned
      BY <1>1, <2>1, <3>1, ConcatProperties, SessionAssumption
    <3>3. Recorded \in Seq(Ticks)
      BY DEF IInv, TypeOK, Recorded, Store
    <3> QED
      BY <3>1, <3>2, <3>3
  <2>3. TypeOK'
    BY <1>2, <2>1, <2>2 DEF IInv, TypeOK
  <2>4. CaptureComplete'
    <3>1. Recorded \o livePinned = opened \o delivered
      BY <1>5 DEF IInv, CaptureComplete, Capture, Buffer
    <3>2. Capture' = Recorded \o (livePinned \o ticks)
      BY <2>1, <2>2 DEF Capture, Recorded, Buffer
    <3>3. Capture' = (Recorded \o livePinned) \o ticks
      BY <1>1, <2>2, <3>2, ConcatAssociative
    <3> QED
      BY <1>2, <1>3, <3>1, <3>3 DEF CaptureComplete
  <2>5. ScrubberFits' /\ PinnedOk' /\ FollowOk'
    BY <1>2, <1>5, <2>1 DEF IInv, ScrubberFits, PinnedOk, FollowOk, Shown
  <2> QED
    BY <2>3, <2>4, <2>5 DEF IInv
<1> QED
  BY <1>4, <1>5

\* A seek stays within the replay, and moves a view that follows only in "hero".
LEMMA SeekInv ==
  ASSUME IInv, NEW tick \in Int,
         KeyboardSeek(tick) \/ JumpToTick(tick) \/ Scrub(tick) \/ ScrubHero(tick)
  PROVE  IInv'
<1>1. /\ replay \in Store /\ replay # NoReplay
      /\ SetSelectedTick(tick) /\ UNCHANGED inspected
      /\ liveAutoFollow' \in BOOLEAN
      /\ liveAutoFollow' => liveAutoFollow
      /\ ~heroView => ~(mode = "live" /\ liveAutoFollow')
  <2>1. liveAutoFollow \in BOOLEAN /\ (replay # NoReplay => replay \in Store)
    BY Zenon DEF IInv, TypeOK
  <2>2. replay # NoReplay /\ SetSelectedTick(tick) /\ UNCHANGED inspected
    BY Zenon DEF KeyboardSeek, JumpToTick, Scrub, ScrubHero
  <2>3. \/ liveAutoFollow' = (liveAutoFollow /\ mode # "live")
        \/ liveAutoFollow' = FALSE
        \/ heroView /\ liveAutoFollow' = liveAutoFollow
    BY Zenon DEF KeyboardSeek, JumpToTick, Scrub, ScrubHero
  <2>4. CASE liveAutoFollow' = (liveAutoFollow /\ mode # "live")
    <3>1. CASE mode = "live"
      BY <2>1, <2>2, <2>4, <3>1
    <3>2. CASE mode # "live"
      BY <2>1, <2>2, <2>4, <3>2
    <3> QED
      BY <3>1, <3>2
  <2>5. CASE liveAutoFollow' = FALSE
    BY <2>1, <2>2, <2>5
  <2>6. CASE heroView /\ liveAutoFollow' = liveAutoFollow
    BY <2>1, <2>2, <2>6
  <2> QED
    BY <2>3, <2>4, <2>5, <2>6, Zenon
<1>2. Shown(replay) \in Nat /\ replayMaxTick = Shown(replay) /\ Shown(replay) <= MaxTick
  BY <1>1, ShownProperties, SessionAssumption DEF IInv, ScrubberFits
<1>3. selectedTick' = Clamped(tick, Shown(replay))
  BY <1>1, <1>2 DEF SetSelectedTick
<1>4. selectedTick' \in 0 .. Shown(replay)
  BY <1>2, <1>3, ClampedProperties
<1>5. TypeOK'
  BY <1>1, <1>2, <1>4, SessionAssumption DEF inspected, IInv, TypeOK
<1>6. CaptureComplete'
  BY <1>1 DEF inspected, IInv, CaptureComplete, Capture, Recorded, Buffer
<1>7. ScrubberFits'
  BY <1>1, <1>2, <1>4 DEF inspected, ScrubberFits, Shown
<1>8. PinnedOk' /\ FollowOk'
  BY <1>1 DEF inspected, IInv, PinnedOk, FollowOk
<1> QED
  BY <1>5, <1>6, <1>7, <1>8 DEF IInv

LEMMA ResumeInv ==
  ASSUME IInv, ResumeLiveInspection
  PROVE  IInv'
<1> DEFINE store == AppendMany(replay, livePinned)
<1>1. /\ replay \in Store /\ replay # NoReplay /\ livePinned \in Seq(Ticks)
      /\ livePinned # NotPinned
      /\ livePinned' = NotPinned /\ liveAutoFollow' = TRUE /\ mode' = "live"
      /\ UNCHANGED <<connected, heroView, opened, delivered>>
  BY DEF ResumeLiveInspection, IInv, TypeOK, PinnedOk
<1>2. store \in Store /\ store.events = replay.events \o livePinned /\ store # NoReplay
      /\ Shown(store) \in 0 .. MaxTick
  BY <1>1, AppendManyProperties, ShownProperties, EmptyStoreType
<1>3. replay' = store /\ replayMaxTick' = Shown(store) /\ selectedTick' = Shown(store)
  BY DEF ResumeLiveInspection
<1> HIDE DEF store
<1>4. TypeOK'
  BY <1>1, <1>2, <1>3 DEF IInv, TypeOK
<1>5. CaptureComplete'
  <2>1. replay.events \o livePinned = opened \o delivered
    BY <1>1 DEF IInv, CaptureComplete, Capture, Recorded, Buffer
  <2>2. Capture' = (replay.events \o livePinned) \o <<>>
    BY <1>1, <1>2, <1>3 DEF Capture, Recorded, Buffer
  <2>3. replay.events \o livePinned \in Seq(Ticks)
    BY <1>1, ConcatProperties DEF Store
  <2> QED
    BY <1>1, <2>1, <2>2, <2>3, ConcatEmptySeq DEF CaptureComplete
<1>6. ScrubberFits' /\ PinnedOk' /\ FollowOk'
  BY <1>1, <1>2, <1>3, SessionAssumption DEF ScrubberFits, PinnedOk, FollowOk
<1> QED
  BY <1>4, <1>5, <1>6 DEF IInv

LEMMA ControlInv ==
  ASSUME IInv,
         \/ ConnectionChanges
         \/ \E enabled \in BOOLEAN : SetLiveAutoFollow(enabled)
         \/ PinLiveInspection
         \/ UNCHANGED vars
  PROVE  IInv'
<1> USE DEF IInv
<1>1. Shown(replay) \in 0 .. MaxTick
  BY ShownProperties, SessionAssumption DEF TypeOK
<1>2. ASSUME ConnectionChanges PROVE IInv'
  BY <1>2 DEF ConnectionChanges, TypeOK, CaptureComplete, Capture, Recorded, Buffer,
              ScrubberFits, Shown, PinnedOk, FollowOk
<1>3. ASSUME NEW enabled \in BOOLEAN, SetLiveAutoFollow(enabled) PROVE IInv'
  <2>1. /\ selectedTick' \in 0 .. Shown(replay) /\ liveAutoFollow' = enabled
        /\ enabled => selectedTick' = Shown(replay)
        /\ UNCHANGED <<replay, replayMaxTick, mode, livePinned, connected, heroView, opened, delivered>>
        /\ livePinned = NotPinned
    BY <1>1, <1>3, SessionAssumption DEF SetLiveAutoFollow, ScrubberFits, inspected
  <2>2. TypeOK'
    BY <1>1, <2>1, SessionAssumption DEF TypeOK
  <2>3. CaptureComplete'
    BY <2>1 DEF CaptureComplete, Capture, Recorded, Buffer
  <2>4. ScrubberFits' /\ PinnedOk' /\ FollowOk'
    BY <2>1 DEF ScrubberFits, Shown, PinnedOk, FollowOk
  <2> QED
    BY <2>2, <2>3, <2>4
<1>4. ASSUME PinLiveInspection PROVE IInv'
  <2>1. /\ replay # NoReplay /\ livePinned = NotPinned /\ livePinned' = <<>>
        /\ liveAutoFollow' = FALSE
        /\ UNCHANGED <<replay, replayMaxTick, selectedTick, mode, connected, heroView, opened, delivered>>
    BY <1>4 DEF PinLiveInspection
  <2>2. TypeOK'
    <3>1. <<>> \in Seq(Ticks)
      OBVIOUS
    <3> QED
      BY <2>1, <3>1, Zenon DEF TypeOK
  <2>3. CaptureComplete'
    BY <2>1 DEF CaptureComplete, Capture, Recorded, Buffer
  <2>4. ScrubberFits' /\ PinnedOk' /\ FollowOk'
    BY <2>1 DEF ScrubberFits, Shown, PinnedOk, FollowOk
  <2> QED
    BY <2>2, <2>3, <2>4
<1>5. ASSUME UNCHANGED vars PROVE IInv'
  BY <1>5 DEF vars, TypeOK, CaptureComplete, Capture, Recorded, Buffer, ScrubberFits, Shown,
              PinnedOk, FollowOk
<1> QED
  BY <1>2, <1>3, <1>4, <1>5

LEMMA InvNext == IInv /\ [Next]_vars => IInv'
<1> SUFFICES ASSUME IInv, [Next]_vars PROVE IInv'
  OBVIOUS
<1>1. ASSUME NEW ticks \in Logs, LoadJsonl(ticks) PROVE IInv'
  BY <1>1, LoadInv
<1>2. ASSUME NEW ticks \in Payloads, Message(ticks) PROVE IInv'
  BY <1>2, MessageInv
<1>3. ASSUME SeekNext PROVE IInv'
  <2>1. Untimed - KeyStep \in Int /\ MaxTick + KeyStep \in Int
    BY SessionAssumption DEF Untimed
  <2>2. PICK tick \in Int : KeyboardSeek(tick) \/ JumpToTick(tick) \/ Scrub(tick) \/ ScrubHero(tick)
    BY <1>3, <2>1 DEF SeekNext
  <2> QED
    BY <2>2, SeekInv
<1> QED
  BY <1>1, <1>2, <1>3, ResumeInv, ControlInv DEF Next, InspectNext

LEMMA InvAlways == Spec => []IInv
BY InvInit, InvNext, PTL DEF Spec

\* The state keeps its types whatever payloads and logs arrive.
THEOREM TypeCorrect == Spec => []TypeOK
<1>1. IInv => TypeOK
  BY DEF IInv
<1> QED
  BY <1>1, InvAlways, PTL

\* A capture holds every event received, once and in order, after those of the
\* log that was open: no interleaving of pins, resumes and messages loses one.
THEOREM CaptureIsComplete == Spec => []CaptureComplete
<1>1. IInv => CaptureComplete
  BY DEF IInv
<1> QED
  BY <1>1, InvAlways, PTL

\* The scrubber's range is that of the replay, and the view is within it.
THEOREM ScrubberAlwaysFits == Spec => []ScrubberFits
<1>1. IInv => ScrubberFits
  BY DEF IInv
<1> QED
  BY <1>1, InvAlways, PTL

\* While the view "hero" stays closed, following means being at the newest tick.
THEOREM FollowingIsNewest == Spec => []FollowShowsNewest
<1>1. IInv => FollowShowsNewest
  BY DEF IInv, FollowOk, PinnedOk, FollowShowsNewest
<1> QED
  BY <1>1, InvAlways, PTL

\* Messages never move a view that does not follow, nor touch a pinned replay.
THEOREM ArrivalsAreQuiet == Spec => ArrivalsLeaveViewAlone
<1> DEFINE Quiet == Len(delivered') > Len(delivered) /\ ~liveAutoFollow
                      => /\ selectedTick' = selectedTick
                         /\ livePinned # NotPinned => UNCHANGED <<replay, replayMaxTick>>
<1>1. IInv /\ [Next]_vars => [Quiet]_vars
  <2> SUFFICES ASSUME IInv, Next PROVE Quiet
    OBVIOUS
  <2>1. SUFFICES ASSUME Len(delivered') > Len(delivered), ~liveAutoFollow
                 PROVE  /\ selectedTick' = selectedTick
                        /\ livePinned # NotPinned => UNCHANGED <<replay, replayMaxTick>>
    OBVIOUS
  <2>2. delivered \in Seq(Ticks) /\ Len(delivered) \in Nat
    BY DEF IInv, TypeOK
  <2>3. delivered' # delivered
    BY <2>1, <2>2
  <2>4. ~ \E ticks \in Logs : LoadJsonl(ticks)
    BY <2>1, <2>2 DEF LoadJsonl
  <2>5. PICK ticks \in Payloads : Message(ticks)
    BY <2>3, <2>4 DEF Next, InspectNext, ConnectionChanges, SeekNext, KeyboardSeek, JumpToTick, Scrub,
                      ScrubHero, SetLiveAutoFollow, PinLiveInspection, ResumeLiveInspection,
                      inspected
  <2>6. CASE livePinned # NotPinned
    BY <2>5, <2>6 DEF Message, AppendLiveEvents, BufferEvents
  <2>7. CASE livePinned = NotPinned
    <3> DEFINE old == IF replay = NoReplay THEN EmptyStore ELSE replay
               store == AppendMany(old, ticks)
    <3>1. old \in Store /\ Shown(old) = replayMaxTick
      BY EmptyStoreType, ShownProperties
      DEF IInv, TypeOK, ScrubberFits, EmptyStore, Shown, Untimed
    <3>2. old.maxTick <= store.maxTick /\ store \in Store
      BY <2>5, <3>1, AppendManyProperties, SessionAssumption
    <3>3. Shown(old) <= Shown(store) /\ Shown(store) \in 0 .. MaxTick
      BY <3>1, <3>2, ShownProperties
    <3>4. selectedTick' = Clamped(selectedTick, Shown(store))
      BY <2>1, <2>5, <2>7 DEF Message, AppendLiveEvents, ApplyEvents
    <3>5. selectedTick \in 0 .. replayMaxTick /\ replayMaxTick \in 0 .. MaxTick
      BY DEF IInv, TypeOK, ScrubberFits
    <3> HIDE DEF store, old
    <3>6. selectedTick \in 0 .. Shown(store) /\ Shown(store) \in Nat
      BY <3>1, <3>3, <3>5, SessionAssumption
    <3> QED
      BY <2>7, <3>4, <3>6, ClampedProperties
  <2> QED
    BY <2>6, <2>7
<1> QED
  BY <1>1, InvAlways, PTL DEF Spec, ArrivalsLeaveViewAlone

-----------------------------------------------------------------------------
(* The Studio *)

\* A step of the Studio is a step of the connection or leaves it alone, and a
\* step of the session or leaves that alone.
LEMMA StepOfBoth == [StudioNext]_studioVars => [ConnectionNext]_connectionVars /\ [Next]_vars
<1> SUFFICES ASSUME [StudioNext]_studioVars
             PROVE  [ConnectionNext]_connectionVars /\ [Next]_vars
  OBVIOUS
<1>1. ASSUME ConnectionStep PROVE ConnectionNext /\ Next
  <2>1. ConnectionChanges
    BY <1>1 DEF ConnectionStep, ConnectionChanges, session
  <2> QED
    BY <1>1, <2>1 DEF ConnectionStep, Next
<1>2. ASSUME NEW s \in Sockets, NEW ticks \in Payloads, MessageArrives(s, ticks)
      PROVE  UNCHANGED connectionVars /\ Next
  BY <1>2 DEF MessageArrives, Next
<1>3. ASSUME UserStep PROVE UNCHANGED connectionVars /\ Next
  BY <1>3 DEF UserStep, Next
<1>4. ASSUME UNCHANGED studioVars PROVE UNCHANGED connectionVars /\ UNCHANGED vars
  BY <1>4 DEF studioVars
<1> QED
  BY <1>1, <1>2, <1>3, <1>4, Zenon DEF StudioNext

\* The Studio implements the connection alone and the session alone.
THEOREM StudioImplementsBoth == StudioSpec => ConnectionSpec /\ Spec
<1>1. StudioInit => ConnectionInit /\ Init
  BY DEF StudioInit
<1> QED
  BY <1>1, StepOfBoth, PTL DEF StudioSpec, ConnectionSpec, Spec

\* Nothing is added to the replay or the buffer between the disconnect button
\* and the next click on connect, whatever the sockets and the timer do.
THEOREM QuietAfterDisconnect == StudioSpec => NothingAfterDisconnect
<1> DEFINE Quiet == Len(delivered') > Len(delivered) => ~manual
<1>1. DisconnectIsFinal /\ TypeOK /\ [StudioNext]_studioVars => [Quiet]_studioVars
  <2> SUFFICES ASSUME DisconnectIsFinal, TypeOK, StudioNext,
                      Len(delivered') > Len(delivered)
               PROVE  ~manual
    OBVIOUS
  <2>1. Len(delivered) \in Nat /\ delivered' # delivered
    BY DEF TypeOK
  <2>2. ~ConnectionStep
    BY <2>1 DEF ConnectionStep, session
  <2>3. ~UserStep
    BY <2>1 DEF UserStep, InspectNext, LoadJsonl, SeekNext, KeyboardSeek, JumpToTick, Scrub,
                ScrubHero, SetLiveAutoFollow, PinLiveInspection, ResumeLiveInspection, inspected
  <2>4. PICK s \in Sockets, ticks \in Payloads : MessageArrives(s, ticks)
    BY <2>2, <2>3 DEF StudioNext
  <2> QED
    BY <2>4 DEF MessageArrives, DisconnectIsFinal
<1>2. ConnectionSpec => []DisconnectIsFinal
  BY ConnectionSafe, PTL
<1> QED
  BY <1>1, <1>2, StudioImplementsBoth, TypeCorrect, PTL DEF StudioSpec, NothingAfterDisconnect
=============================================================================
