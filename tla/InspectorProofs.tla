-------------------------- MODULE InspectorProofs --------------------------
(***************************************************************************)
(* What clients and the log receive from the inspector, for any number of   *)
(* clients, any limit of ticks and any lines.                               *)
(*                                                                          *)
(* The invariant says of each client what has been sent to it, up to the    *)
(* line that is being broadcast, and of the cache that it has every         *)
(* bootstrap line that was published: what a client opened too late for is  *)
(* in the cache when it is greeted.                                         *)
(***************************************************************************)
EXTENDS Inspector, TLAPS

TypeInv ==
  /\ lines \in Seq(Kinds) /\ logged \in Seq(Nat) /\ logGood \in BOOLEAN
  /\ step \in {"idle", "write", "send"} /\ (step # "idle" => Len(lines) > 0)
  /\ targets \subseteq Clients
  /\ cache \in [Bootstrap -> Nat]
  /\ status \in [Clients -> {"away", "joined", "open", "greeting", "greeted", "gone"}]
  /\ received \in [Clients -> Seq(Sent)]
  /\ openedAt \in [Clients -> Nat]

\* The cache has each bootstrap line that was published.
CacheInv == \A b \in Bootstrap : \A k \in 1 .. Len(lines) : lines[k] = b => cache[b] = k

Hears(c) == status[c] \in {"open", "greeting", "greeted"}
Has(c, k) == \E i \in DOMAIN received[c] : received[c][i].line = k

Gapless(c) ==
  /\ \A i, j \in Broadcasts(c) : i < j => received[c][i].line < received[c][j].line
  /\ \A i \in Broadcasts(c) : received[c][i].line >= openedAt[c]
  /\ \A k \in openedAt[c] + 1 .. SentUpTo(c) : \E i \in Broadcasts(c) : received[c][i].line = k

Greeted(c) ==
  \A k \in 1 .. SentUpTo(c) :
    /\ status[c] \in {"greeting", "greeted"} /\ lines[k] = "run_start" => Has(c, k)
    /\ status[c] = "greeted" /\ lines[k] = "bt_def" => Has(c, k)

ClientInv(c) ==
  /\ openedAt[c] <= Len(lines)
  /\ status[c] \in {"away", "joined"} => received[c] = <<>>
  /\ \A i \in Broadcasts(c) : received[c][i].line <= SentUpTo(c)
  /\ Hears(c) => Gapless(c)
  /\ Greeted(c)

\* The lines that are in the log unless it went bad.
LoggedUpTo == IF step = "write" THEN Len(lines) - 1 ELSE Len(lines)
LogInv == logGood => \A k \in 1 .. LoggedUpTo : \E j \in DOMAIN logged : logged[j] = k

FailureInv ==
  exitCode = 1 => /\ phase \in {"closing", "stopping", "stopped"}
                  /\ Len(lines) > 0 /\ lines[Len(lines)] = "failure"

StreamInv ==
  /\ TypeInv /\ CacheInv /\ LogInv /\ FailureInv
  /\ \A c \in Clients : ClientInv(c)

-----------------------------------------------------------------------------

LEMMA StreamInit == Init => StreamInv
<1> SUFFICES ASSUME Init PROVE StreamInv
  OBVIOUS
<1>1. TypeInv /\ CacheInv /\ LogInv /\ FailureInv
  BY DEF Init, TypeInv, CacheInv, LogInv, LoggedUpTo, FailureInv, Bootstrap, Kinds, Sent
<1>2. ASSUME NEW c \in Clients PROVE ClientInv(c)
  BY DEF Init, ClientInv, Broadcasts, Hears, Gapless, Greeted, SentUpTo
<1> QED
  BY <1>1, <1>2 DEF StreamInv

LEMMA WhatIsSent ==
  ASSUME TypeInv, NEW c \in Clients, NEW i \in DOMAIN received[c]
  PROVE  received[c][i].line \in Nat \ {0}
<1>1. received[c] \in Seq(Sent)
  BY DEF TypeInv
<1>2. received[c][i] \in Sent
  BY <1>1
<1> QED
  BY <1>2 DEF Sent

\* Nothing happens to a client but that lines may be published behind it.
LEMMA ClientUntouched ==
  ASSUME TypeInv, TypeInv', NEW c \in Clients, ClientInv(c),
         status'[c] = status[c], received'[c] = received[c], openedAt'[c] = openedAt[c],
         SentUpTo(c)' = SentUpTo(c), Len(lines) <= Len(lines'),
         \A k \in 1 .. SentUpTo(c) : lines'[k] = lines[k]
  PROVE  ClientInv(c)'
<1>1. Broadcasts(c)' = Broadcasts(c) /\ Hears(c)' = Hears(c) /\ \A k : Has(c, k)' = Has(c, k)
  BY DEF Broadcasts, Hears, Has
<1>2. Greeted(c)' /\ (Hears(c)' => Gapless(c)')
  BY <1>1 DEF ClientInv, Greeted, Gapless
<1> QED
  BY <1>1, <1>2 DEF ClientInv, TypeInv

\* A client that has left, or is about to be told its first lines.
LEMMA ClientQuiet ==
  ASSUME TypeInv, NEW c \in Clients, ClientInv(c),
         status'[c] \in {"joined", "gone"}, status[c] \in {"away", "joined"} \/ status'[c] = "gone",
         received'[c] = received[c], openedAt' = openedAt, lines' = lines, SentUpTo(c)' = SentUpTo(c)
  PROVE  ClientInv(c)'
<1>1. Broadcasts(c)' = Broadcasts(c) /\ ~ Hears(c)' /\ Greeted(c)'
  BY DEF Broadcasts, Hears, Greeted
<1> QED
  BY <1>1 DEF ClientInv

-----------------------------------------------------------------------------
(* Publishing *)

LEMMA PublishLineKeeps ==
  ASSUME StreamInv, NEW kind \in Kinds, PublishLine(kind), UNCHANGED clientVars,
         kind \in Bootstrap => \A i \in DOMAIN lines : lines[i] # kind
  PROVE  /\ TypeInv' /\ CacheInv' /\ LogInv' /\ \A c \in Clients : ClientInv(c)'
         /\ lines' = Append(lines, kind)
<1>1. /\ TypeInv /\ CacheInv /\ LogInv /\ step = "idle" /\ step' = "write"
      /\ lines' = Append(lines, kind) /\ UNCHANGED <<targets, logGood, logged, status, received, openedAt>>
  BY DEF StreamInv, PublishLine, clientVars
<1>2. /\ Len(lines') = Len(lines) + 1 /\ lines' \in Seq(Kinds) /\ Len(lines) \in Nat
      /\ lines'[Len(lines) + 1] = kind /\ \A k \in 1 .. Len(lines) : lines'[k] = lines[k]
  BY <1>1 DEF TypeInv
<1>3. TypeInv'
  BY <1>1, <1>2 DEF TypeInv, PublishLine, Bootstrap
<1>4. CacheInv'
  <2> SUFFICES ASSUME NEW b \in Bootstrap, NEW k \in 1 .. Len(lines'), lines'[k] = b
               PROVE  cache'[b] = k
    BY DEF CacheInv
  <2>1. CASE k = Len(lines) + 1
    BY <1>1, <1>2, <2>1 DEF PublishLine, TypeInv
  <2>2. CASE k # Len(lines) + 1
    <3>1. k \in 1 .. Len(lines) /\ lines[k] = b /\ b # kind
      BY <1>1, <1>2, <2>2
    <3>2. cache[b] = k
      BY <1>1, <3>1 DEF CacheInv
    <3> QED
      BY <1>1, <3>1, <3>2 DEF PublishLine, TypeInv
  <2> QED
    BY <2>1, <2>2
<1>5. LogInv'
  BY <1>1, <1>2 DEF LogInv, LoggedUpTo
<1>6. ASSUME NEW c \in Clients PROVE ClientInv(c)'
  <2>1. SentUpTo(c) = Len(lines) /\ SentUpTo(c)' = Len(lines)
    BY <1>1, <1>2 DEF SentUpTo
  <2> QED
    BY <1>1, <1>2, <1>3, <2>1, ClientUntouched DEF StreamInv
<1> QED
  BY <1>1, <1>3, <1>4, <1>5, <1>6

LEMMA RuntimeEmitsKeeps ==
  ASSUME StreamInv, NEW kind \in Kinds \ {"failure"}, RuntimeEmits(kind)
  PROVE  StreamInv'
<1>1. FailureInv'
  BY DEF StreamInv, FailureInv, RuntimeEmits, mainVars
<1> QED
  BY <1>1, PublishLineKeeps DEF RuntimeEmits, StreamInv

LEMMA FailsKeeps ==
  ASSUME StreamInv, Fails
  PROVE  StreamInv'
<1>1. /\ TypeInv' /\ CacheInv' /\ LogInv' /\ \A c \in Clients : ClientInv(c)'
      /\ lines' = Append(lines, "failure")
  BY PublishLineKeeps DEF Fails, Kinds, Bootstrap
<1>2. lines \in Seq(Kinds) /\ "failure" \in Kinds
  BY DEF StreamInv, TypeInv, Kinds
<1>3. Len(lines') > 0 /\ lines'[Len(lines')] = "failure"
  BY <1>1, <1>2
<1>4. phase' = "closing"
  BY DEF Fails
<1>5. FailureInv'
  BY <1>3, <1>4 DEF FailureInv
<1> QED
  BY <1>1, <1>5 DEF StreamInv

\* Whoever hears is listed, so the line is still to be sent to it.
LEMMA WriteKeeps ==
  ASSUME StreamInv, WriteAndListClients
  PROVE  StreamInv'
<1>0. /\ TypeInv /\ step = "write" /\ step' = "send" /\ UNCHANGED <<mainVars, lines, cache, clientVars>>
      /\ logGood' \in {logGood, FALSE} /\ targets' \subseteq Clients
      /\ logged' = IF logGood THEN Append(logged, Len(lines)) ELSE logged
  BY DEF StreamInv, WriteAndListClients
<1>1. logGood' \in BOOLEAN
  BY <1>0 DEF TypeInv
<1>2. logged' \in Seq(Nat)
  BY <1>0 DEF TypeInv
<1>3. TypeInv /\ TypeInv' /\ step = "write" /\ step' = "send" /\ UNCHANGED <<mainVars, lines, cache, clientVars>>
  BY <1>0, <1>1, <1>2 DEF TypeInv, clientVars
<1>4. CacheInv' /\ FailureInv'
  BY <1>3 DEF StreamInv, CacheInv, FailureInv, mainVars
<1>5. LogInv'
  <2> SUFFICES ASSUME logGood', NEW k \in 1 .. Len(lines)
               PROVE  \E j \in DOMAIN logged' : logged'[j] = k
    BY <1>3 DEF LogInv, LoggedUpTo
  <2>1. logGood' \in {logGood, FALSE} /\ logged' = IF logGood THEN Append(logged, Len(lines)) ELSE logged
    BY <1>0
  <2>2. logGood
    BY <2>1
  <2>3. /\ logged' = Append(logged, Len(lines)) /\ logged \in Seq(Nat)
        /\ Len(lines) \in Nat /\ Len(logged) \in Nat
    BY <1>3, <2>1, <2>2 DEF TypeInv
  <2>4. CASE k = Len(lines)
    <3>1. Len(logged) + 1 \in DOMAIN logged' /\ logged'[Len(logged) + 1] = k
      BY <2>3, <2>4
    <3> QED
      BY <3>1
  <2>5. CASE k # Len(lines)
    <3>1. PICK j \in DOMAIN logged : logged[j] = k
      BY <1>3, <2>2, <2>5 DEF StreamInv, LogInv, LoggedUpTo
    <3>2. j \in DOMAIN logged' /\ logged'[j] = k
      BY <2>3, <3>1
    <3> QED
      BY <3>2
  <2> QED
    BY <2>4, <2>5
<1>6. ASSUME NEW c \in Clients PROVE ClientInv(c)'
  <2>1. ClientInv(c)
    BY DEF StreamInv
  <2>2. CASE c \in targets'
    <3>1. SentUpTo(c)' = SentUpTo(c)
      BY <1>3, <2>2 DEF SentUpTo
    <3> QED
      BY <1>3, <2>1, <3>1, ClientUntouched DEF clientVars, TypeInv
  <2>3. CASE c \notin targets'
    <3>1. /\ status'[c] \in {"away", "gone"} /\ status' = status /\ received' = received /\ openedAt' = openedAt
          /\ lines' = lines /\ SentUpTo(c) <= SentUpTo(c)' /\ SentUpTo(c) \in Int /\ SentUpTo(c)' \in Int
      BY <1>3, <2>3 DEF WriteAndListClients, clientVars, TypeInv, SentUpTo
    <3>2. Broadcasts(c)' = Broadcasts(c) /\ ~ Hears(c)' /\ Greeted(c)'
      BY <3>1 DEF Broadcasts, Hears, Greeted
    <3>3. \A i \in Broadcasts(c) : received[c][i].line \in Nat
      BY <1>3, WhatIsSent DEF Broadcasts
    <3> QED
      BY <2>1, <3>1, <3>2, <3>3 DEF ClientInv
  <2> QED
    BY <2>2, <2>3
<1> QED
  BY <1>3, <1>4, <1>5, <1>6 DEF StreamInv

-----------------------------------------------------------------------------
(* Sending *)

\* A line sent to a client that hears comes after what it has.
LEMMA SendAppends ==
  ASSUME TypeInv, NEW c \in Clients, Hears(c), NEW line \in Nat \ {0}, NEW by \in {"greeting", "broadcast"},
         Send(c, line, by)
  PROVE  /\ received' \in [Clients -> Seq(Sent)]
         /\ \A d \in Clients \ {c} : received'[d] = received[d]
         /\ Len(received[c]) \in Nat /\ DOMAIN received[c] = 1 .. Len(received[c])
         /\ DOMAIN received'[c] = 1 .. Len(received[c]) + 1
         /\ \A i \in DOMAIN received[c] : received'[c][i] = received[c][i]
         /\ received'[c][Len(received[c]) + 1] = [line |-> line, by |-> by]
<1>1. received[c] \in Seq(Sent) /\ [line |-> line, by |-> by] \in Sent
  BY DEF TypeInv, Sent
<1>2. received' = [received EXCEPT ![c] = Append(received[c], [line |-> line, by |-> by])]
  BY DEF Send, Hears
<1>3. received'[c] = Append(received[c], [line |-> line, by |-> by]) /\ received'[c] \in Seq(Sent)
  BY <1>1, <1>2 DEF TypeInv
<1> QED
  BY <1>1, <1>2, <1>3 DEF TypeInv

\* What a client has, it keeps.
LEMMA SendKeeps ==
  ASSUME TypeInv, NEW c \in Clients, Hears(c), NEW line \in Nat \ {0}, NEW by \in {"greeting", "broadcast"},
         Send(c, line, by)
  PROVE  /\ \A k : Has(c, k) => Has(c, k)'
         /\ Has(c, line)'
         /\ Broadcasts(c)' = IF by = "broadcast" THEN Broadcasts(c) \cup {Len(received[c]) + 1} ELSE Broadcasts(c)
<1> DEFINE last == Len(received[c]) + 1
<1>1. /\ DOMAIN received[c] = 1 .. Len(received[c]) /\ DOMAIN received'[c] = 1 .. last /\ Len(received[c]) \in Nat
      /\ \A i \in DOMAIN received[c] : received'[c][i] = received[c][i]
      /\ received'[c][last] = [line |-> line, by |-> by]
  BY SendAppends
<1>2. last \in DOMAIN received'[c] /\ received'[c][last].line = line /\ received'[c][last].by = by
  BY <1>1
<1>3. DOMAIN received'[c] = DOMAIN received[c] \cup {last} /\ last \notin DOMAIN received[c]
  BY <1>1
<1> HIDE DEF last
<1>4. \A k : Has(c, k) => Has(c, k)'
  BY <1>1, <1>3 DEF Has
<1>5. Has(c, line)'
  BY <1>2 DEF Has
<1>6. Broadcasts(c)' = IF by = "broadcast" THEN Broadcasts(c) \cup {last} ELSE Broadcasts(c)
  BY <1>1, <1>2, <1>3 DEF Broadcasts
<1> QED
  BY <1>4, <1>5, <1>6 DEF last

\* The line being broadcast is later than all that was, and ends what the
\* client lacked.
LEMMA BroadcastKeeps ==
  ASSUME StreamInv, NEW c \in Clients, Broadcast(c)
  PROVE  StreamInv'
<1> DEFINE n == Len(lines)
<1>1. /\ TypeInv /\ step = "send" /\ c \in targets /\ targets' = targets \ {c} /\ Send(c, n, "broadcast")
      /\ UNCHANGED <<mainVars, lines, step, logGood, logged, cache, lock, status, openedAt>>
  BY DEF StreamInv, Broadcast
<1>2. n \in Nat \ {0}
  BY <1>1 DEF TypeInv
<1>3. received' \in [Clients -> Seq(Sent)] /\ \A d \in Clients \ {c} : received'[d] = received[d]
  <2>1. CASE Hears(c)
    BY <1>1, <1>2, <2>1, SendAppends
  <2>2. CASE ~ Hears(c)
    BY <1>1, <2>2 DEF Send, Hears, TypeInv
  <2> QED
    BY <2>1, <2>2
<1>4. TypeInv'
  BY <1>1, <1>3 DEF TypeInv
<1>5. CacheInv' /\ FailureInv' /\ LogInv'
  BY <1>1 DEF StreamInv, CacheInv, FailureInv, LogInv, LoggedUpTo, mainVars
<1>6. ASSUME NEW d \in Clients \ {c} PROVE ClientInv(d)'
  <2>1. SentUpTo(d)' = SentUpTo(d)
    BY <1>1 DEF SentUpTo
  <2> QED
    BY <1>1, <1>3, <1>4, <2>1, ClientUntouched DEF StreamInv, TypeInv
<1>7. SentUpTo(c) = n - 1 /\ SentUpTo(c)' = n /\ Hears(c)' = Hears(c) /\ ClientInv(c)
  BY <1>1 DEF SentUpTo, StreamInv, Hears
<1>8. CASE ~ Hears(c)
  <2>1. received' = received /\ Broadcasts(c)' = Broadcasts(c) /\ Greeted(c)'
    BY <1>1, <1>8 DEF Send, Hears, Broadcasts, Greeted
  <2>2. \A i \in Broadcasts(c) : received[c][i].line \in Nat
    BY <1>1, WhatIsSent DEF Broadcasts
  <2>3. ClientInv(c)'
    BY <1>1, <1>2, <1>7, <1>8, <2>1, <2>2 DEF ClientInv
  <2> QED
    BY <1>4, <1>5, <1>6, <2>3 DEF StreamInv
<1>9. CASE Hears(c)
  <2> DEFINE last == Len(received[c]) + 1
  <2>1. /\ \A k : Has(c, k) => Has(c, k)'
        /\ Has(c, n)' /\ Broadcasts(c)' = Broadcasts(c) \cup {last}
    BY <1>1, <1>2, <1>9, SendKeeps
  <2>2. /\ Len(received[c]) \in Nat /\ DOMAIN received[c] = 1 .. Len(received[c])
        /\ \A i \in DOMAIN received[c] : received'[c][i] = received[c][i]
        /\ received'[c][last].line = n
    <3>1. received'[c][last] = [line |-> n, by |-> "broadcast"]
      BY <1>1, <1>2, <1>9, SendAppends
    <3>2. received'[c][last].line = n
      BY <3>1
    <3> QED
      BY <1>1, <1>2, <1>9, <3>2, SendAppends
  <2>3. \A i \in Broadcasts(c) : /\ i < last /\ i \in Nat /\ received'[c][i].line = received[c][i].line
                                 /\ received[c][i].line \in Nat /\ received[c][i].line <= n - 1
    BY <1>1, <1>7, <2>2, WhatIsSent DEF Broadcasts, ClientInv
  <2>4. Greeted(c)'
    <3>1. \A k \in 1 .. n : k = n \/ k \in 1 .. n - 1
      BY <1>2
    <3> QED
      BY <1>1, <1>7, <2>1, <3>1 DEF ClientInv, Greeted
  <2>5. Gapless(c)'
    <3>1. openedAt'[c] = openedAt[c] /\ openedAt[c] <= n /\ openedAt[c] \in Nat /\ Gapless(c) /\ last \in Nat
      BY <1>1, <1>7, <1>9, <2>2 DEF ClientInv, TypeInv
    <3> HIDE DEF last, n
    <3>2. ASSUME NEW i \in Broadcasts(c) \cup {last}, NEW j \in Broadcasts(c) \cup {last}, i < j
          PROVE  received'[c][i].line < received'[c][j].line
      <4>1. i \in Broadcasts(c)
        BY <2>3, <3>1, <3>2
      <4>2. CASE j = last
        BY <1>2, <2>2, <2>3, <4>1, <4>2
      <4>3. CASE j # last
        BY <2>3, <3>1, <3>2, <4>1, <4>3 DEF Gapless
      <4> QED
        BY <4>2, <4>3
    <3>3. \A i \in Broadcasts(c) \cup {last} : received'[c][i].line >= openedAt[c]
      BY <1>2, <2>2, <2>3, <3>1 DEF Gapless
    <3>4. ASSUME NEW k \in openedAt[c] + 1 .. n
          PROVE  \E i \in Broadcasts(c) \cup {last} : received'[c][i].line = k
      <4>1. CASE k = n
        BY <2>2, <4>1
      <4>2. CASE k # n
        <5>1. PICK i \in Broadcasts(c) : received[c][i].line = k
          BY <1>2, <1>7, <3>1, <4>2 DEF Gapless
        <5> QED
          BY <2>3, <5>1
      <4> QED
        BY <4>1, <4>2
    <3> QED
      BY <1>7, <2>1, <3>1, <3>2, <3>3, <3>4 DEF Gapless
  <2>6. ClientInv(c)'
    <3>1. status[c] \notin {"away", "joined"} /\ status' = status
      BY <1>1, <1>9 DEF Hears
    <3>2. \A i \in Broadcasts(c)' : received'[c][i].line <= n
      BY <1>2, <2>1, <2>2, <2>3
    <3> QED
      BY <1>1, <1>7, <2>4, <2>5, <3>1, <3>2 DEF ClientInv
  <2> QED
    BY <1>4, <1>5, <1>6, <2>6 DEF StreamInv
<1> QED
  BY <1>8, <1>9

-----------------------------------------------------------------------------
(* Steps that publish nothing *)

\* The main thread moves on.
LEMMA MainKeeps ==
  ASSUME StreamInv, LinePublished \/ Succeeds \/ LoopHead \/ TickReturns \/ Signal \/ Stopped
  PROVE  StreamInv'
<1>1. /\ TypeInv /\ UNCHANGED <<lines, targets, logGood, logged, cache, lock, status, received, openedAt>>
      /\ step' = step \/ (step = "send" /\ targets = {} /\ step' = "idle")
  BY DEF StreamInv, LinePublished, Succeeds, LoopHead, TickReturns, Signal, Stopped, publishVars, clientVars, vars
<1>2. TypeInv'
  BY <1>1 DEF TypeInv
<1>3. CacheInv' /\ LogInv'
  BY <1>1 DEF StreamInv, CacheInv, LogInv, LoggedUpTo
<1>4. FailureInv'
  BY <1>1 DEF StreamInv, FailureInv, LinePublished, Succeeds, LoopHead, TickReturns, Signal, Stopped, mainVars, vars
<1>5. ASSUME NEW c \in Clients PROVE ClientInv(c)'
  <2>1. SentUpTo(c)' = SentUpTo(c)
    BY <1>1 DEF SentUpTo
  <2> QED
    BY <1>1, <1>2, <2>1, ClientUntouched DEF StreamInv, TypeInv
<1> QED
  BY <1>2, <1>3, <1>4, <1>5 DEF StreamInv

\* A client joins or leaves, or the connections are closed.
LEMMA ComingAndGoingKeeps ==
  ASSUME StreamInv, CloseClients \/ StopServer \/ \E c \in Clients : Joins(c) \/ Leaves(c)
  PROVE  StreamInv'
<1>1. /\ TypeInv /\ UNCHANGED <<publishVars, lock, received, openedAt, exitCode>>
      /\ phase' = phase \/ phase' \in {"stopping", "stopped"}
  BY DEF StreamInv, CloseClients, StopServer, Joins, Leaves, mainVars
<1>2. /\ status' \in [Clients -> {"away", "joined", "open", "greeting", "greeted", "gone"}]
      /\ \A c \in Clients : \/ status'[c] = status[c]
                            \/ status'[c] = "gone"
                            \/ status[c] = "away" /\ status'[c] = "joined"
  <2>1. CASE CloseClients
    BY <1>1, <2>1 DEF TypeInv, CloseClients
  <2>2. CASE StopServer
    BY <1>1, <2>2 DEF TypeInv, StopServer
  <2>3. ASSUME NEW d \in Clients, Joins(d)
        PROVE  status[d] = "away" /\ status' = [status EXCEPT ![d] = "joined"]
    BY <2>3 DEF Joins
  <2>4. ASSUME NEW d \in Clients, Leaves(d)
        PROVE  status' = [status EXCEPT ![d] = "gone"]
    BY <2>4 DEF Leaves
  <2> QED
    BY <1>1, <2>1, <2>2, <2>3, <2>4 DEF TypeInv
<1>3. TypeInv' /\ CacheInv' /\ LogInv' /\ FailureInv'
  BY <1>1, <1>2 DEF StreamInv, TypeInv, CacheInv, LogInv, LoggedUpTo, FailureInv, publishVars
<1>4. ASSUME NEW c \in Clients PROVE ClientInv(c)'
  <2>1. SentUpTo(c)' = SentUpTo(c) /\ lines' = lines
    BY <1>1 DEF SentUpTo, publishVars
  <2>2. CASE status'[c] = status[c]
    BY <1>1, <1>3, <2>1, <2>2, ClientUntouched DEF StreamInv, TypeInv
  <2>3. CASE status'[c] # status[c]
    BY <1>1, <1>2, <2>1, <2>3, ClientQuiet DEF StreamInv
  <2> QED
    BY <2>2, <2>3
<1> QED
  BY <1>3, <1>4 DEF StreamInv

\* A client begins to hear at the line under way, having been sent nothing.
LEMMA OpensKeeps ==
  ASSUME StreamInv, NEW c \in Clients, Opens(c)
  PROVE  StreamInv'
<1>1. /\ TypeInv /\ status[c] = "joined" /\ status' = [status EXCEPT ![c] = "open"]
      /\ openedAt' = [openedAt EXCEPT ![c] = Len(lines)] /\ UNCHANGED <<mainVars, publishVars, lock, received>>
  BY DEF StreamInv, Opens
<1>2. Len(lines) \in Nat
  BY <1>1 DEF TypeInv
<1>3. TypeInv' /\ CacheInv' /\ LogInv' /\ FailureInv'
  BY <1>1, <1>2 DEF StreamInv, TypeInv, CacheInv, LogInv, LoggedUpTo, FailureInv, publishVars, mainVars
<1>4. ASSUME NEW d \in Clients PROVE ClientInv(d)'
  <2>1. SentUpTo(d)' = SentUpTo(d) /\ lines' = lines
    BY <1>1 DEF SentUpTo, publishVars
  <2>2. CASE d # c
    BY <1>1, <1>3, <2>1, <2>2, ClientUntouched DEF StreamInv, TypeInv
  <2>3. CASE d = c
    <3>1. /\ received'[c] = <<>> /\ openedAt'[c] = Len(lines) /\ status'[c] = "open"
          /\ SentUpTo(c) <= Len(lines) /\ SentUpTo(c) \in Int
      BY <1>1, <1>2 DEF StreamInv, ClientInv, TypeInv, SentUpTo
    <3>2. Broadcasts(c)' = {}
      BY <3>1 DEF Broadcasts
    <3>3. Gapless(c)' /\ Greeted(c)'
      BY <1>2, <2>1, <2>3, <3>1, <3>2 DEF Gapless, Greeted
    <3> QED
      BY <1>2, <2>1, <2>3, <3>1, <3>2, <3>3 DEF ClientInv
  <2> QED
    BY <2>2, <2>3
<1> QED
  BY <1>3, <1>4 DEF StreamInv

\* A greeting sends what the cache has, which is whatever was published before.
LEMMA GreetingKeeps ==
  ASSUME StreamInv, NEW c \in Clients, NEW b \in Bootstrap, Hears(c),
         IF cache[b] # 0 THEN Send(c, cache[b], "greeting") ELSE UNCHANGED received,
         NEW after \in {"greeting", "greeted"}, status' = [status EXCEPT ![c] = after],
         UNCHANGED <<mainVars, publishVars, openedAt>>,
         \/ b = "run_start" /\ after = "greeting"
         \/ b = "bt_def" /\ after = "greeted" /\ status[c] = "greeting"
  PROVE  StreamInv'
<1>0. PICK n : n = cache[b]
  OBVIOUS
<1>1. TypeInv /\ ClientInv(c) /\ CacheInv /\ n \in Nat
  BY <1>0 DEF StreamInv, TypeInv
<1>2. /\ received' \in [Clients -> Seq(Sent)]
      /\ \A d \in Clients \ {c} : received'[d] = received[d]
      /\ \A i \in DOMAIN received[c] : i \in DOMAIN received'[c] /\ received'[c][i] = received[c][i]
      /\ \A k : Has(c, k) => Has(c, k)'
      /\ n # 0 => Has(c, n)'
      /\ Broadcasts(c)' = Broadcasts(c)
  <2>1. CASE n # 0
    <3>1. Send(c, n, "greeting") /\ n \in Nat \ {0}
      BY <1>0, <1>1, <2>1
    <3>2. /\ received' \in [Clients -> Seq(Sent)]
          /\ \A d \in Clients \ {c} : received'[d] = received[d]
          /\ DOMAIN received[c] = 1 .. Len(received[c]) /\ DOMAIN received'[c] = 1 .. Len(received[c]) + 1
          /\ Len(received[c]) \in Nat /\ \A i \in DOMAIN received[c] : received'[c][i] = received[c][i]
      BY <1>1, <3>1, SendAppends
    <3>3. \A i \in DOMAIN received[c] : i \in DOMAIN received'[c]
      BY <3>2
    <3>4. /\ \A k : Has(c, k) => Has(c, k)'
          /\ Has(c, n)'
          /\ Broadcasts(c)' = Broadcasts(c)
      BY <1>1, <3>1, SendKeeps
    <3> QED
      BY <3>2, <3>3, <3>4
  <2>2. CASE n = 0
    <3>1. received' = received
      BY <1>0, <2>2
    <3> QED
      BY <1>1, <2>2, <3>1 DEF TypeInv, Has, Broadcasts
  <2> QED
    BY <2>1, <2>2
<1>3. TypeInv' /\ CacheInv' /\ LogInv' /\ FailureInv'
  BY <1>1, <1>2 DEF StreamInv, TypeInv, CacheInv, LogInv, LoggedUpTo, FailureInv, publishVars, mainVars
<1>4. ASSUME NEW d \in Clients PROVE ClientInv(d)'
  <2>1. SentUpTo(d)' = SentUpTo(d) /\ lines' = lines /\ openedAt' = openedAt
    BY DEF SentUpTo, publishVars
  <2>2. CASE d # c
    BY <1>1, <1>2, <1>3, <2>1, <2>2, ClientUntouched DEF StreamInv, TypeInv
  <2>3. CASE d = c
    <3>1. status'[c] = after /\ Hears(c)'
      BY <1>1 DEF TypeInv, Hears
    <3>2. \A i \in Broadcasts(c) : received'[c][i] = received[c][i]
      BY <1>2 DEF Broadcasts
    <3>3. Gapless(c)'
      BY <1>1, <1>2, <2>1, <2>3, <3>2 DEF ClientInv, Gapless
    <3>4. Greeted(c)'
      <4>1. \A k \in 1 .. SentUpTo(c) : k \in 1 .. Len(lines) /\ k # 0
        BY <1>1 DEF TypeInv, SentUpTo
      <4>2. ASSUME NEW k \in 1 .. SentUpTo(c), lines[k] = b PROVE Has(c, k)'
        <5>1. n = k
          BY <1>0, <1>1, <4>1, <4>2 DEF CacheInv
        <5> QED
          BY <1>2, <4>1, <5>1
      <4> QED
        BY <1>1, <1>2, <2>1, <2>3, <3>1, <4>2 DEF ClientInv, Greeted
    <3> QED
      BY <1>1, <1>2, <2>1, <2>3, <3>1, <3>2, <3>3, <3>4 DEF ClientInv
  <2> QED
    BY <2>2, <2>3
<1> QED
  BY <1>3, <1>4 DEF StreamInv

-----------------------------------------------------------------------------

LEMMA StreamNext == StreamInv /\ [Next]_vars => StreamInv'
<1> SUFFICES ASSUME StreamInv, [Next]_vars PROVE StreamInv'
  OBVIOUS
<1>1. CASE WriteAndListClients
  BY <1>1, WriteKeeps
<1>2. CASE \E c \in Clients : Broadcast(c)
  BY <1>2, BroadcastKeeps
<1>3. CASE LinePublished \/ Succeeds \/ LoopHead \/ TickReturns \/ Signal \/ Stopped
  BY <1>3, MainKeeps
<1>4. CASE Fails
  BY <1>4, FailsKeeps
<1>5. CASE \E kind \in Kinds \ {"failure"} : RuntimeEmits(kind)
  BY <1>5, RuntimeEmitsKeeps
<1>6. CASE CloseClients \/ StopServer \/ \E c \in Clients : Joins(c) \/ Leaves(c)
  BY <1>6, ComingAndGoingKeeps
<1>7. CASE \E c \in Clients : Opens(c)
  BY <1>7, OpensKeeps
<1>8. ASSUME NEW c \in Clients, GreetsRunStart(c) PROVE StreamInv'
  BY <1>8, GreetingKeeps DEF GreetsRunStart, Hears, Bootstrap
<1>9. ASSUME NEW c \in Clients, GreetsBtDef(c) PROVE StreamInv'
  BY <1>9, GreetingKeeps DEF GreetsBtDef, Hears, Bootstrap
<1>10. CASE UNCHANGED vars
  <2>1. UNCHANGED <<maxTicks, phase, ticks, running, exitCode, lines, step, targets, logGood, logged, cache,
                    lock, status, received, openedAt>>
    BY <1>10 DEF vars, mainVars, publishVars, clientVars
  <2> QED
    BY <2>1 DEF StreamInv, TypeInv, CacheInv, LogInv, LoggedUpTo, FailureInv, ClientInv, Hears, Broadcasts,
               Gapless, Greeted, Has, SentUpTo
<1> QED
  BY <1>1, <1>2, <1>3, <1>4, <1>5, <1>6, <1>7, <1>8, <1>9, <1>10 DEF Next, MainNext, ServerNext

LEMMA StreamAlways == Spec => []StreamInv
  BY StreamInit, StreamNext, PTL DEF Spec

LEMMA SentUpToIsInt ==
  ASSUME TypeInv, NEW c
  PROVE  SentUpTo(c) \in Int /\ SentUpTo(c) <= Len(lines) /\ Len(lines) \in Nat
BY DEF TypeInv, SentUpTo

\* From the moment its handshake is done, a client misses no line and gets each
\* broadcast in order and once; the bootstrap lines of before reach it when it is
\* greeted, perhaps for the second time (publish_line and the Open callback).
THEOREM ClientsMissNothing == Spec => []NoGap
<1>1. StreamInv => NoGap
  <2> SUFFICES ASSUME StreamInv, NEW c \in Clients
               PROVE  /\ status[c] = "greeted" =>
                           \A k \in 1 .. SentUpTo(c) :
                             lines[k] \in Bootstrap => \E i \in DOMAIN received[c] : received[c][i].line = k
                      /\ Hears(c) =>
                           /\ \A i, j \in Broadcasts(c) : i < j => received[c][i].line < received[c][j].line
                           /\ \A i \in Broadcasts(c) : received[c][i].line \in openedAt[c] .. SentUpTo(c)
                           /\ \A k \in openedAt[c] + 1 .. SentUpTo(c) :
                                \E i \in Broadcasts(c) : received[c][i].line = k
    BY DEF NoGap, BootstrapReaches, Hears
  <2>1. TypeInv /\ ClientInv(c)
    BY DEF StreamInv
  <2>2. \A i \in Broadcasts(c) : received[c][i].line \in Nat
    BY <2>1, WhatIsSent DEF Broadcasts
  <2>3. openedAt[c] \in Nat /\ SentUpTo(c) \in Int
    BY <2>1, SentUpToIsInt DEF TypeInv
  <2>4. ASSUME status[c] = "greeted", NEW k \in 1 .. SentUpTo(c), lines[k] \in Bootstrap
        PROVE  \E i \in DOMAIN received[c] : received[c][i].line = k
    BY <2>1, <2>4 DEF ClientInv, Greeted, Has, Bootstrap
  <2>5. Hears(c) => \A i \in Broadcasts(c) : received[c][i].line \in openedAt[c] .. SentUpTo(c)
    BY <2>1, <2>2, <2>3 DEF ClientInv, Gapless
  <2> QED
    BY <2>1, <2>4, <2>5 DEF ClientInv, Gapless
<1> QED
  BY <1>1, StreamAlways, PTL

\* While the log is good, no client is broadcast a line that is not in the log yet
\* (write and flush come before the broadcast).
THEOREM LogFirst == Spec => []LogIsAhead
<1>1. StreamInv => LogIsAhead
  <2> SUFFICES ASSUME StreamInv, logGood, NEW c \in Clients, NEW i \in DOMAIN received[c],
                      received[c][i].by = "broadcast"
               PROVE  \E j \in DOMAIN logged : logged[j] = received[c][i].line
    BY DEF LogIsAhead
  <2>1. TypeInv /\ ClientInv(c) /\ LogInv /\ i \in Broadcasts(c)
    BY DEF StreamInv, Broadcasts
  <2>2. received[c][i].line \in Nat \ {0} /\ received[c][i].line <= SentUpTo(c)
    BY <2>1, WhatIsSent DEF ClientInv
  <2>3. SentUpTo(c) \in Int /\ LoggedUpTo \in Int /\ SentUpTo(c) <= LoggedUpTo
    BY <2>1 DEF SentUpTo, LoggedUpTo, TypeInv
  <2> QED
    BY <2>1, <2>2, <2>3 DEF LogInv
<1> QED
  BY <1>1, StreamAlways, PTL

\* When attaching, the initialisation or a tick throws, every greeted client that
\* opened before has been told of it before connections are closed
\* (EmitInspectorError).
THEOREM FailureReachesClients == Spec => []FailureIsReported
<1>1. StreamInv => FailureIsReported
  <2> SUFFICES ASSUME StreamInv, phase = "closing", step = "idle", exitCode = 1
               PROVE  /\ lines # <<>> /\ lines[Len(lines)] = "failure"
                      /\ \A c \in Clients : status[c] = "greeted" /\ openedAt[c] < Len(lines) =>
                           \E i \in DOMAIN received[c] : received[c][i].line = Len(lines)
    BY DEF FailureIsReported
  <2>1. TypeInv /\ Len(lines) \in Nat /\ Len(lines) > 0 /\ lines[Len(lines)] = "failure"
    BY DEF StreamInv, FailureInv, TypeInv
  <2>2. lines # <<>>
    BY <2>1
  <2>3. ASSUME NEW c \in Clients, status[c] = "greeted", openedAt[c] < Len(lines)
        PROVE  \E i \in DOMAIN received[c] : received[c][i].line = Len(lines)
    <3>1. SentUpTo(c) = Len(lines) /\ openedAt[c] \in Nat /\ Gapless(c)
      BY <2>1, <2>3 DEF SentUpTo, TypeInv, StreamInv, ClientInv, Hears
    <3>2. PICK i \in Broadcasts(c) : received[c][i].line = Len(lines)
      BY <2>1, <2>3, <3>1 DEF Gapless
    <3> QED
      BY <3>2 DEF Broadcasts
  <2> QED
    BY <2>1, <2>2, <2>3
<1> QED
  BY <1>1, StreamAlways, PTL

-----------------------------------------------------------------------------
(* The mutex and the limit of ticks *)

\* The mutex is held by the client that is being greeted, so by one at most, and
\* a server that has stopped has let everybody go.
MutexIsTheGreeters ==
  /\ lock \in Clients \cup {NoClient}
  /\ \A c \in Clients : lock = c <=> status[c] = "greeting"
  /\ phase = "stopped" => \A c \in Clients : status[c] = "gone"

\* With the types it needs, this is inductive.
MutexInv ==
  /\ status \in [Clients -> {"away", "joined", "open", "greeting", "greeted", "gone"}]
  /\ MutexIsTheGreeters

\* Only the Open callback takes the mutex, and gives it back.
LEMMA MutexNext ==
  ASSUME MutexInv, [Next]_vars
  PROVE  MutexInv'
<1> USE InspectorAssumption
<1>1. CASE \/ WriteAndListClients \/ (\E c \in Clients : Broadcast(c)) \/ LinePublished \/ Signal
           \/ Stopped \/ UNCHANGED vars
  <2>1. UNCHANGED <<phase, lock, status>>
    BY <1>1 DEF WriteAndListClients, Broadcast, LinePublished, Signal, Stopped,
                vars, mainVars, publishVars, clientVars
  <2> QED
    BY <2>1 DEF MutexInv, MutexIsTheGreeters
<1>2. CASE Succeeds \/ Fails \/ LoopHead \/ TickReturns \/ \E kind \in Kinds \ {"failure"} : RuntimeEmits(kind)
  <2>1. UNCHANGED <<lock, status>> /\ phase' # "stopped"
    BY <1>2 DEF Succeeds, Fails, LoopHead, TickReturns, RuntimeEmits, mainVars, publishVars, clientVars
  <2> QED
    BY <2>1 DEF MutexInv, MutexIsTheGreeters
<1>3. CASE CloseClients
  BY <1>3 DEF CloseClients, MutexInv, MutexIsTheGreeters
<1>4. CASE StopServer
  BY <1>4 DEF StopServer, MutexInv, MutexIsTheGreeters
<1>5. ASSUME NEW c \in Clients, ServerNext(c) PROVE MutexInv'
  <2>1. CASE Joins(c)
    BY <2>1 DEF Joins, MutexInv, MutexIsTheGreeters, mainVars
  <2>2. CASE Opens(c)
    BY <2>2 DEF Opens, MutexInv, MutexIsTheGreeters, mainVars
  <2>3. CASE GreetsRunStart(c)
    BY <2>3 DEF GreetsRunStart, MutexInv, MutexIsTheGreeters, mainVars
  <2>4. CASE GreetsBtDef(c)
    BY <2>4 DEF GreetsBtDef, MutexInv, MutexIsTheGreeters, mainVars
  <2>5. CASE Leaves(c)
    BY <2>5 DEF Leaves, MutexInv, MutexIsTheGreeters, mainVars
  <2> QED
    BY <1>5, <2>1, <2>2, <2>3, <2>4, <2>5 DEF ServerNext
<1> QED
  BY <1>1, <1>2, <1>3, <1>4, <1>5 DEF Next, MainNext

\* Whoever holds the mutex of the replay cache is in the Open callback, which
\* needs nothing more to release it: publish_line, which waits for the mutex, and
\* server.stop, which waits for callbacks, never wait for each other; and no
\* client is left behind by a server that has stopped.
THEOREM MutexIsReleasable == Spec => []MutexIsTheGreeters
<1>1. Init => MutexInv
  BY InspectorAssumption DEF Init, MutexInv, MutexIsTheGreeters
<1>2. MutexInv /\ [Next]_vars => MutexInv'
  BY MutexNext
<1>3. MutexInv => MutexIsTheGreeters
  BY DEF MutexInv
<1> QED
  BY <1>1, <1>2, <1>3, PTL DEF Spec

\* A run with a limit makes no tick beyond it, and one without counts none.
TicksInLimit ==
  /\ ticks \in 0 .. maxTicks
  /\ maxTicks > 0 /\ phase = "tick" => ticks < maxTicks

TicksInv == maxTicks \in TickLimits /\ TicksInLimit

\* A tick is started below the limit only, and counted when it returns.
LEMMA TicksNext ==
  ASSUME TicksInv, [Next]_vars
  PROVE  TicksInv'
<1>1. maxTicks \in Nat /\ ticks \in Nat
  BY InspectorAssumption DEF TicksInv, TicksInLimit
<1>2. CASE LoopHead
  BY <1>1, <1>2 DEF LoopHead, TicksInv, TicksInLimit
<1>3. CASE TickReturns
  BY <1>1, <1>3 DEF TickReturns, TicksInv, TicksInLimit
<1>4. CASE Succeeds \/ Fails \/ CloseClients \/ StopServer
  <2>1. UNCHANGED <<maxTicks, ticks>> /\ phase' # "tick"
    BY <1>4 DEF Succeeds, Fails, CloseClients, StopServer
  <2> QED
    BY <2>1 DEF TicksInv, TicksInLimit
<1>5. CASE \/ WriteAndListClients \/ (\E c \in Clients : Broadcast(c)) \/ LinePublished \/ Signal
           \/ (\E kind \in Kinds \ {"failure"} : RuntimeEmits(kind))
           \/ (\E c \in Clients : ServerNext(c)) \/ Stopped \/ UNCHANGED vars
  <2>1. UNCHANGED <<maxTicks, ticks, phase>>
    BY <1>5 DEF WriteAndListClients, Broadcast, LinePublished, Signal, RuntimeEmits, ServerNext, Joins, Opens,
                GreetsRunStart, GreetsBtDef, Leaves, Stopped, vars, mainVars
  <2> QED
    BY <2>1 DEF TicksInv, TicksInLimit
<1> QED
  BY <1>2, <1>3, <1>4, <1>5 DEF Next, MainNext

\* The runtime is ticked max_ticks times at most, wherever signals, failures and
\* clients come in between (the loop of main).
THEOREM TicksAreLimited == Spec => []TicksInLimit
<1>1. Init => TicksInv
  BY InspectorAssumption DEF Init, TicksInv, TicksInLimit
<1>2. TicksInv /\ [Next]_vars => TicksInv'
  BY TicksNext
<1>3. TicksInv => TicksInLimit
  BY DEF TicksInv
<1> QED
  BY <1>1, <1>2, <1>3, PTL DEF Spec

\* After a signal, the tick under way is the last.
NoTickAfterSignal == [][~running /\ phase # "tick" => ~running' /\ phase' # "tick"]_vars

\* Once the flag is cleared, no order of lines, failures and clients starts
\* another tick, and nothing sets the flag again (the signal handler and the loop
\* of main).
THEOREM SignalsAreHeeded == Spec => NoTickAfterSignal
<1> DEFINE Heeded == ~running /\ phase # "tick" => ~running' /\ phase' # "tick"
<1>1. ASSUME [Next]_vars PROVE Heeded
  <2>1. CASE LoopHead
    BY <2>1, Zenon DEF LoopHead
  <2>2. CASE Signal
    BY <2>2, Zenon DEF Signal
  <2>3. CASE Succeeds \/ Fails \/ CloseClients \/ StopServer \/ TickReturns
    <3>1. UNCHANGED running /\ phase' # "tick"
      BY <2>3 DEF Succeeds, Fails, CloseClients, StopServer, TickReturns
    <3> QED
      BY <3>1, Zenon
  <2>4. CASE \/ WriteAndListClients \/ (\E c \in Clients : Broadcast(c)) \/ LinePublished
             \/ (\E kind \in Kinds \ {"failure"} : RuntimeEmits(kind))
             \/ (\E c \in Clients : ServerNext(c)) \/ Stopped \/ UNCHANGED vars
    <3>1. UNCHANGED <<running, phase>>
      BY <2>4 DEF WriteAndListClients, Broadcast, LinePublished, RuntimeEmits, ServerNext, Joins, Opens,
                  GreetsRunStart, GreetsBtDef, Leaves, Stopped, vars, mainVars
    <3> QED
      BY <3>1, Zenon
  <2> QED
    BY <1>1, <2>1, <2>2, <2>3, <2>4 DEF Next, MainNext
<1>2. [Next]_vars => [Heeded]_vars
  BY <1>1
<1> QED
  BY <1>2, PTL DEF Spec, NoTickAfterSignal
=============================================================================
