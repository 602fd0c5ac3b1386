------------------------- MODULE ReplayStoreProofs -------------------------
(***************************************************************************)
(* What the indexes of the replay store answer, for any events in any order *)
(* and any sets of nodes, keys, values and ticks.                           *)
(*                                                                          *)
(* The invariant says of each index how it relates to the events: the diff  *)
(* of a tick to the last change of a key in it, the timeline of a node and  *)
(* the history of a key to the places of their events, the snapshots to the *)
(* order of the ticks, the override to the last definition.                 *)
(***************************************************************************)
EXTENDS ReplayStore, NaturalLemmas, SequenceTheorems

StoreTypes ==
  /\ events \in Seq(Event)
  /\ diff \in [Ticks -> [writes : [Keys -> Values \cup {None}], deletes : SUBSET Keys]]
  /\ DOMAIN timeline = Nodes /\ DOMAIN history = Keys
  /\ btDefBase \in Nat

\* The changes of a key in a tick.
Changes(key, tick) == {i \in DOMAIN events : /\ IsBlackboardChange(events[i])
                                             /\ events[i].key = key /\ events[i].tick = tick}

\* The diff has what change j left of a key.
Left(key, tick, j) ==
  /\ diff[tick].writes[key] = ChangeOf(events[j])
  /\ key \in diff[tick].deletes <=> events[j].type = "bb_delete"

DiffInv ==
  \A key \in Keys, tick \in Ticks :
    \/ Changes(key, tick) = {} /\ diff[tick].writes[key] = None /\ key \notin diff[tick].deletes
    \/ \E j \in Changes(key, tick) : (\A i \in Changes(key, tick) : i <= j) /\ Left(key, tick, j)

\* A sequence that has the members of a set, in increasing order.
Lists(s, S) ==
  /\ s \in Seq(Nat)
  /\ \A k \in DOMAIN s : s[k] \in S
  /\ \A k, l \in DOMAIN s : k < l => s[k] < s[l]
  /\ \A i \in S : \E k \in DOMAIN s : s[k] = i

StatusesOf(node) == {i \in DOMAIN events : events[i].type = "node_status" /\ events[i].node = node}
ChangesOf(key) == {i \in DOMAIN events : IsBlackboardChange(events[i]) /\ events[i].key = key}
SnapshotsOf == {i \in DOMAIN events : events[i].type = "bb_snapshot"}

TimelineInv == \A node \in Nodes : Lists(timeline[node], StatusesOf(node))

HistoryInv == \A key \in Keys : Lists(history[key], ChangesOf(key))

\* The snapshots are listed by tick, and in a tick as they were appended.
SnapshotsInv ==
  /\ snapshots \in Seq(Nat)
  /\ \A k \in DOMAIN snapshots : snapshots[k] \in SnapshotsOf
  /\ \A k, l \in DOMAIN snapshots : k < l => Before(snapshots[k], snapshots[l])
  /\ \A i \in SnapshotsOf : \E k \in DOMAIN snapshots : snapshots[k] = i

OverrideInv ==
  /\ \A i \in DOMAIN events : events[i].type = "bt_def" => i <= btDefBase
  /\ btDefOverride # None => btDefOverride.base = btDefBase

StoreInv ==
  StoreTypes /\ DiffInv /\ TimelineInv /\ HistoryInv /\ SnapshotsInv /\ OverrideInv

-----------------------------------------------------------------------------

LEMMA StoreInit == Init => StoreInv
<1> SUFFICES ASSUME Init PROVE StoreInv
  OBVIOUS
<1>1. /\ events = <<>> /\ DOMAIN events = {} /\ btDefOverride = None
      /\ timeline = [n \in Nodes |-> <<>>] /\ history = [k \in Keys |-> <<>>] /\ snapshots = <<>>
  BY DEF Init
<1>2. StoreTypes
  BY DEF Init, StoreTypes, NoDiff
<1>3. DiffInv
  BY <1>1 DEF Init, DiffInv, Changes, NoDiff
<1>4. TimelineInv
  BY <1>1 DEF TimelineInv, Lists, StatusesOf
<1>5. HistoryInv
  BY <1>1 DEF HistoryInv, Lists, ChangesOf
<1>6. SnapshotsInv
  BY <1>1 DEF SnapshotsInv, SnapshotsOf
<1>7. OverrideInv
  BY <1>1 DEF OverrideInv
<1> QED
  BY <1>2, <1>3, <1>4, <1>5, <1>6, <1>7 DEF StoreInv

LEMMA EventFields ==
  ASSUME NEW e \in Event
  PROVE  /\ e.type \in {"node_status", "bb_write", "bb_delete", "bb_snapshot", "bt_def"}
         /\ IsBlackboardChange(e) => e.tick \in Ticks /\ e.key \in Keys
         /\ e.type = "bb_write" => e.value \in Values
         /\ e.type = "node_status" => e.node \in Nodes
         /\ HasTick(e) => e.tick \in Ticks
         /\ e.type = "bb_snapshot" => e.values \in [Keys -> Values \cup {None}]
BY DEF Event, NodeStatus, BbWrite, BbDelete, BbSnapshot, BtDef, IsBlackboardChange, HasTick

\* Appending keeps what is there and puts the event behind it.
LEMMA Appended ==
  ASSUME StoreTypes, NEW e \in Event, AppendEvent(e)
  PROVE  /\ events' \in Seq(Event) /\ Len(events) \in Nat
         /\ DOMAIN events = 1 .. Len(events) /\ DOMAIN events' = 1 .. Len(events) + 1
         /\ \A i \in DOMAIN events : events'[i] = events[i]
         /\ events'[Len(events) + 1] = e
<1>1. events' = Append(events, e) /\ events \in Seq(Event)
  BY DEF AppendEvent, StoreTypes
<1> QED
  BY <1>1

\* Of the diff, only the key of the change in its tick is touched.
LEMMA DiffOfAppend ==
  ASSUME StoreTypes, NEW e \in Event, AppendEvent(e)
  PROVE  /\ diff' \in [Ticks -> [writes : [Keys -> Values \cup {None}], deletes : SUBSET Keys]]
         /\ \A key \in Keys, tick \in Ticks :
              IF IsBlackboardChange(e) /\ e.key = key /\ e.tick = tick
              THEN /\ diff'[tick].writes[key] = ChangeOf(e)
                   /\ key \in diff'[tick].deletes <=> e.type = "bb_delete"
              ELSE /\ diff'[tick].writes[key] = diff[tick].writes[key]
                   /\ key \in diff'[tick].deletes <=> key \in diff[tick].deletes
<1>1. diff \in [Ticks -> [writes : [Keys -> Values \cup {None}], deletes : SUBSET Keys]]
  BY DEF StoreTypes
<1>2. CASE ~ IsBlackboardChange(e)
  <2>1. diff' = diff
    BY <1>2, EventFields DEF AppendEvent, AppendNodeStatus, ApplyBlackboardSnapshot, AppendBtDef, IsBlackboardChange
  <2> QED
    BY <1>1, <1>2, <2>1
<1>3. CASE e.type = "bb_write"
  <2>1. diff' = [diff EXCEPT ![e.tick].writes[e.key] = e.value, ![e.tick].deletes = @ \ {e.key}]
    BY <1>3 DEF AppendEvent, ApplyBlackboardWrite
  <2>2. e.tick \in Ticks /\ e.key \in Keys /\ e.value \in Values /\ ChangeOf(e) = e.value /\ IsBlackboardChange(e)
    BY <1>3, EventFields DEF IsBlackboardChange, ChangeOf
  <2> QED
    BY <1>1, <1>3, <2>1, <2>2
<1>4. CASE e.type = "bb_delete"
  <2>1. diff' = [diff EXCEPT ![e.tick].writes[e.key] = None, ![e.tick].deletes = @ \cup {e.key}]
    BY <1>4 DEF AppendEvent, ApplyBlackboardDelete
  <2>2. e.tick \in Ticks /\ e.key \in Keys /\ ChangeOf(e) = None /\ IsBlackboardChange(e)
    BY <1>4, EventFields DEF IsBlackboardChange, ChangeOf
  <2>3. diff' \in [Ticks -> [writes : [Keys -> Values \cup {None}], deletes : SUBSET Keys]]
    BY <1>1, <2>1, <2>2
  <2>4. /\ diff'[e.tick].writes = [diff[e.tick].writes EXCEPT ![e.key] = None]
        /\ diff'[e.tick].deletes = diff[e.tick].deletes \cup {e.key}
        /\ \A tick \in Ticks \ {e.tick} : diff'[tick] = diff[tick]
    BY <1>1, <2>1, <2>2
  <2>5. diff[e.tick].writes \in [Keys -> Values \cup {None}]
    BY <1>1, <2>2
  <2> QED
    BY <1>4, <2>2, <2>3, <2>4, <2>5
<1> QED
  BY <1>2, <1>3, <1>4 DEF IsBlackboardChange

LEMMA IndexesOfAppend ==
  ASSUME StoreTypes, NEW e \in Event, AppendEvent(e)
  PROVE  /\ e.type = "node_status" =>
              timeline' = [timeline EXCEPT ![e.node] = Append(@, Len(events) + 1)]
         /\ e.type # "node_status" => timeline' = timeline
         /\ IsBlackboardChange(e) =>
              history' = [history EXCEPT ![e.key] = Append(@, Len(events) + 1)]
         /\ ~ IsBlackboardChange(e) => history' = history
         /\ e.type = "bb_snapshot" => ApplyBlackboardSnapshot(e, Len(events) + 1)
         /\ e.type # "bb_snapshot" => snapshots' = snapshots
BY DEF AppendEvent, AppendNodeStatus, ApplyBlackboardWrite, ApplyBlackboardDelete, ApplyBlackboardSnapshot,
       AppendBtDef, IsBlackboardChange

LEMMA OverrideOfAppend ==
  ASSUME StoreTypes, NEW e \in Event, AppendEvent(e)
  PROVE  /\ e.type = "bt_def" => btDefBase' = Len(events) + 1 /\ btDefOverride' = None
         /\ e.type # "bt_def" => UNCHANGED <<btDefBase, btDefOverride>>
BY DEF AppendEvent, AppendNodeStatus, ApplyBlackboardWrite, ApplyBlackboardDelete, ApplyBlackboardSnapshot, AppendBtDef

-----------------------------------------------------------------------------

LEMMA DiffKept ==
  ASSUME StoreInv, NEW e \in Event, AppendEvent(e)
  PROVE  DiffInv'
<1>1. StoreTypes /\ DiffInv
  BY DEF StoreInv
<1> PICK n : n = Len(events) + 1
  OBVIOUS
<1>2. /\ Len(events) \in Nat /\ DOMAIN events = 1 .. Len(events) /\ DOMAIN events' = 1 .. n
      /\ \A i \in DOMAIN events : events'[i] = events[i]
      /\ events'[n] = e
  BY <1>1, Appended
<1> SUFFICES ASSUME NEW key \in Keys, NEW tick \in Ticks
             PROVE  \/ /\ Changes(key, tick)' = {} /\ diff'[tick].writes[key] = None
                       /\ key \notin diff'[tick].deletes
                    \/ \E j \in Changes(key, tick)' :
                         (\A i \in Changes(key, tick)' : i <= j) /\ Left(key, tick, j)'
  BY DEF DiffInv
<1>3. CASE IsBlackboardChange(e) /\ e.key = key /\ e.tick = tick
  <2>1. n \in Changes(key, tick)' /\ \A i \in Changes(key, tick)' : i <= n
    BY <1>2, <1>3 DEF Changes, IsBlackboardChange
  <2>2. diff'[tick].writes[key] = ChangeOf(e) /\ (key \in diff'[tick].deletes <=> e.type = "bb_delete")
    BY <1>1, <1>3, DiffOfAppend
  <2>3. Left(key, tick, n)'
    BY <1>2, <2>2 DEF Left, ChangeOf
  <2> QED
    BY <2>1, <2>3
<1>4. CASE ~ (IsBlackboardChange(e) /\ e.key = key /\ e.tick = tick)
  <2>1. Changes(key, tick)' = Changes(key, tick)
    BY <1>2, <1>4 DEF Changes, IsBlackboardChange
  <2>2. /\ diff'[tick].writes[key] = diff[tick].writes[key]
        /\ key \in diff'[tick].deletes <=> key \in diff[tick].deletes
    BY <1>1, <1>4, DiffOfAppend
  <2>3. \A j \in Changes(key, tick) : Left(key, tick, j) => Left(key, tick, j)'
    BY <1>2, <2>2 DEF Left, ChangeOf, Changes
  <2> QED
    BY <1>1, <2>1, <2>2, <2>3 DEF DiffInv
<1> QED
  BY <1>3, <1>4

\* What is appended to a list is the greatest of the greater set.
LEMMA ListGrows ==
  ASSUME NEW S \in SUBSET Nat, NEW s, Lists(s, S), NEW n \in Nat, \A i \in S : i < n
  PROVE  Lists(Append(s, n), S \cup {n})
<1>1. /\ s \in Seq(Nat) /\ Len(s) \in Nat /\ DOMAIN s = 1 .. Len(s)
      /\ \A k \in DOMAIN s : s[k] \in S
      /\ \A k, l \in DOMAIN s : k < l => s[k] < s[l]
      /\ \A i \in S : \E k \in DOMAIN s : s[k] = i
  BY DEF Lists
<1>2. /\ Append(s, n) \in Seq(Nat) /\ DOMAIN Append(s, n) = 1 .. Len(s) + 1
      /\ \A k \in DOMAIN s : Append(s, n)[k] = s[k]
      /\ Append(s, n)[Len(s) + 1] = n
  BY <1>1
<1>3. \A k \in DOMAIN Append(s, n) : Append(s, n)[k] \in S \cup {n}
  BY <1>1, <1>2
<1>4. \A k, l \in DOMAIN Append(s, n) : k < l => Append(s, n)[k] < Append(s, n)[l]
  <2> SUFFICES ASSUME NEW k \in 1 .. Len(s) + 1, NEW l \in 1 .. Len(s) + 1, k < l
               PROVE  Append(s, n)[k] < Append(s, n)[l]
    BY <1>2
  <2>1. k \in DOMAIN s /\ Append(s, n)[k] = s[k] /\ s[k] \in S
    BY <1>1, <1>2
  <2>2. CASE l = Len(s) + 1
    BY <1>2, <2>1, <2>2
  <2>3. CASE l \in DOMAIN s
    BY <1>1, <1>2, <2>1, <2>3
  <2> QED
    BY <1>1, <2>2, <2>3
<1>5. \A i \in S \cup {n} : \E k \in DOMAIN Append(s, n) : Append(s, n)[k] = i
  <2>1. \A i \in S : \E k \in DOMAIN s : Append(s, n)[k] = i
    BY <1>1, <1>2
  <2>2. DOMAIN s \subseteq DOMAIN Append(s, n) /\ Len(s) + 1 \in DOMAIN Append(s, n)
    BY <1>1, <1>2
  <2> HIDE DEF Lists
  <2> QED
    BY <1>2, <2>1, <2>2
<1> QED
  BY <1>2, <1>3, <1>4, <1>5 DEF Lists

LEMMA ListsKept ==
  ASSUME StoreInv, NEW e \in Event, AppendEvent(e)
  PROVE  /\ TimelineInv' /\ HistoryInv'
         /\ DOMAIN timeline' = Nodes /\ DOMAIN history' = Keys
<1>1. StoreTypes /\ TimelineInv /\ HistoryInv /\ DOMAIN timeline = Nodes /\ DOMAIN history = Keys
  BY DEF StoreInv, StoreTypes
<1> PICK n : n = Len(events) + 1
  OBVIOUS
<1>2. /\ Len(events) \in Nat /\ DOMAIN events = 1 .. Len(events) /\ DOMAIN events' = 1 .. n
      /\ \A i \in DOMAIN events : events'[i] = events[i]
      /\ events'[n] = e
  BY <1>1, Appended
<1>3. DOMAIN timeline' = Nodes /\ DOMAIN history' = Keys
  BY <1>1, IndexesOfAppend
<1>4. ASSUME NEW node \in Nodes PROVE Lists(timeline'[node], StatusesOf(node)')
  <2>1. Lists(timeline[node], StatusesOf(node))
    BY <1>1 DEF TimelineInv
  <2>2. CASE e.type = "node_status" /\ e.node = node
    <3>1. StatusesOf(node)' = StatusesOf(node) \cup {n}
      BY <1>2, <2>2 DEF StatusesOf
    <3>2. timeline'[node] = Append(timeline[node], n)
      BY <1>1, <2>2, IndexesOfAppend
    <3>3. StatusesOf(node) \in SUBSET Nat /\ n \in Nat /\ \A i \in StatusesOf(node) : i < n
      BY <1>2 DEF StatusesOf
    <3> QED
      BY <2>1, <3>1, <3>2, <3>3, ListGrows
  <2>3. CASE ~ (e.type = "node_status" /\ e.node = node)
    <3>1. StatusesOf(node)' = StatusesOf(node)
      BY <1>2, <2>3 DEF StatusesOf
    <3>2. timeline'[node] = timeline[node]
      BY <1>1, <2>3, IndexesOfAppend, EventFields
    <3> QED
      BY <2>1, <3>1, <3>2
  <2> QED
    BY <2>2, <2>3
<1>5. ASSUME NEW key \in Keys PROVE Lists(history'[key], ChangesOf(key)')
  <2>1. Lists(history[key], ChangesOf(key))
    BY <1>1 DEF HistoryInv
  <2>2. CASE IsBlackboardChange(e) /\ e.key = key
    <3>1. ChangesOf(key)' = ChangesOf(key) \cup {n}
      BY <1>2, <2>2 DEF ChangesOf, IsBlackboardChange
    <3>2. history'[key] = Append(history[key], n)
      BY <1>1, <2>2, IndexesOfAppend
    <3>3. ChangesOf(key) \in SUBSET Nat /\ n \in Nat /\ \A i \in ChangesOf(key) : i < n
      BY <1>2 DEF ChangesOf
    <3> QED
      BY <2>1, <3>1, <3>2, <3>3, ListGrows
  <2>3. CASE ~ (IsBlackboardChange(e) /\ e.key = key)
    <3>1. ChangesOf(key)' = ChangesOf(key)
      BY <1>2, <2>3 DEF ChangesOf, IsBlackboardChange
    <3>2. history'[key] = history[key]
      BY <1>1, <2>3, IndexesOfAppend, EventFields
    <3> QED
      BY <2>1, <3>1, <3>2
  <2> QED
    BY <2>2, <2>3
<1> QED
  BY <1>3, <1>4, <1>5 DEF TimelineInv, HistoryInv

\* A snapshot is put behind those of ticks up to its own and before the others.
LEMMA SnapshotPut ==
  ASSUME SnapshotsInv, StoreTypes, NEW e \in Event, e.type = "bb_snapshot", NEW n \in Nat,
         ApplyBlackboardSnapshot(e, n)
  PROVE  \E at \in 0 .. Len(snapshots) :
           /\ \A k \in 1 .. at : events[snapshots[k]].tick <= e.tick
           /\ \A k \in at + 1 .. Len(snapshots) : events[snapshots[k]].tick > e.tick
           /\ snapshots' \in Seq(Nat) /\ Len(snapshots') = Len(snapshots) + 1
           /\ \A k \in 1 .. at : snapshots'[k] = snapshots[k]
           /\ snapshots'[at + 1] = n
           /\ \A k \in at + 2 .. Len(snapshots) + 1 : snapshots'[k] = snapshots[k - 1]
<1> DEFINE before == {i \in DOMAIN snapshots : events[snapshots[i]].tick <= e.tick}
           top == IF before = {} THEN 0 ELSE CHOOSE i \in before : \A j \in before : j <= i
<1>1. /\ snapshots \in Seq(Nat) /\ Len(snapshots) \in Nat /\ DOMAIN snapshots = 1 .. Len(snapshots)
  BY DEF SnapshotsInv
<1>2. \A k \in DOMAIN snapshots : events[snapshots[k]].tick \in Int
  <2>1. \A k \in DOMAIN snapshots : events[snapshots[k]] \in Event /\ HasTick(events[snapshots[k]])
    BY DEF SnapshotsInv, SnapshotsOf, StoreTypes, HasTick
  <2> QED
    BY <2>1, EventFields, StoreAssumption DEF Ticks
<1>3. e.tick \in Int
  BY EventFields, StoreAssumption DEF Ticks, HasTick
<1>4. before # {} => top \in before /\ \A j \in before : j <= top
  <2> SUFFICES ASSUME before # {} PROVE \E i \in before : \A j \in before : j <= i
    OBVIOUS
  <2>1. before \in SUBSET Nat /\ \A j \in before : j <= Len(snapshots)
    BY <1>1
  <2> QED
    BY <1>1, <2>1, GreatestNatural
<1>5. PICK at : at = top
  OBVIOUS
<1>6. at \in 0 .. Len(snapshots)
  BY <1>1, <1>4, <1>5
<1>7. \A k \in 1 .. at : events[snapshots[k]].tick <= e.tick
  <2> SUFFICES ASSUME NEW k \in 1 .. at PROVE events[snapshots[k]].tick <= e.tick
    OBVIOUS
  <2>1. at \in DOMAIN snapshots /\ k \in DOMAIN snapshots /\ events[snapshots[at]].tick <= e.tick
    BY <1>1, <1>4, <1>5, <1>6
  <2>2. k = at \/ Before(snapshots[k], snapshots[at])
    BY <1>6, <2>1 DEF SnapshotsInv
  <2> QED
    BY <1>2, <1>3, <2>1, <2>2 DEF Before
<1>8. \A k \in at + 1 .. Len(snapshots) : events[snapshots[k]].tick > e.tick
  <2> SUFFICES ASSUME NEW k \in at + 1 .. Len(snapshots) PROVE ~ (events[snapshots[k]].tick <= e.tick)
    BY <1>1, <1>2, <1>3, <1>6
  <2>1. k \in DOMAIN snapshots /\ ~ (k <= at)
    BY <1>1, <1>6
  <2>2. k \in before => k <= at
    BY <1>4, <1>5
  <2> QED
    BY <2>1, <2>2
<1>9. snapshots' = SubSeq(snapshots, 1, at) \o <<n>> \o SubSeq(snapshots, at + 1, Len(snapshots))
  <2>1. snapshots' = SubSeq(snapshots, 1, top) \o <<n>> \o SubSeq(snapshots, top + 1, Len(snapshots))
    BY DEF ApplyBlackboardSnapshot
  <2> HIDE DEF top
  <2> QED
    BY <1>5, <2>1
<1> HIDE DEF before, top
<1> DEFINE front == SubSeq(snapshots, 1, at)
           back == SubSeq(snapshots, at + 1, Len(snapshots))
<1>10. front \in Seq(Nat) /\ Len(front) = at /\ \A k \in 1 .. at : front[k] = snapshots[k]
  <2>1. \A k \in 1 .. at : snapshots[k] \in Nat
    BY <1>1, <1>6
  <2> QED
    BY <1>6, <2>1, SubSeqProperties
<1>11. /\ back \in Seq(Nat) /\ Len(back) = Len(snapshots) - at
       /\ \A k \in 1 .. Len(snapshots) - at : back[k] = snapshots[at + k]
  <2>1. \A k \in at + 1 .. Len(snapshots) : snapshots[k] \in Nat
    BY <1>1, <1>6
  <2>2. /\ back \in Seq(Nat)
        /\ Len(back) = IF at + 1 <= Len(snapshots) THEN Len(snapshots) - (at + 1) + 1 ELSE 0
        /\ \A k \in 1 .. Len(snapshots) - (at + 1) + 1 : back[k] = snapshots[at + 1 + k - 1]
    <3> HIDE DEF back
    <3>1. at + 1 \in Int /\ Len(snapshots) \in Int
      BY <1>1, <1>6
    <3> QED
      BY <2>1, <3>1, SubSeqProperties DEF back
  <2> HIDE DEF back
  <2>3. Len(back) = Len(snapshots) - at
    <3>1. Len(back) = IF at + 1 <= Len(snapshots) THEN Len(snapshots) - (at + 1) + 1 ELSE 0
      BY <2>2
    <3>2. PICK m : m = Len(snapshots)
      OBVIOUS
    <3>3. m \in Nat /\ at \in 0 .. m
      BY <1>1, <1>6, <3>2
    <3>4. (IF at + 1 <= m THEN m - (at + 1) + 1 ELSE 0) = m - at
      BY <3>3
    <3> QED
      BY <3>1, <3>2, <3>4
  <2>4. ASSUME NEW k \in 1 .. Len(snapshots) - at PROVE back[k] = snapshots[at + k]
    <3>1. k \in 1 .. Len(snapshots) - (at + 1) + 1 /\ at + 1 + k - 1 = at + k
      BY <1>1, <1>6
    <3> QED
      BY <2>2, <3>1
  <2> QED
    BY <2>2, <2>3, <2>4
<1> HIDE DEF front, back
<1>12. /\ front \o <<n>> \in Seq(Nat) /\ Len(front \o <<n>>) = at + 1
       /\ \A k \in 1 .. at + 1 : (front \o <<n>>)[k] = IF k <= at THEN front[k] ELSE n
  BY <1>6, <1>10
<1>13. snapshots' = (front \o <<n>>) \o back
  BY <1>9 DEF front, back
<1>14. /\ snapshots' \in Seq(Nat) /\ Len(snapshots') = at + 1 + (Len(snapshots) - at)
       /\ \A k \in 1 .. at + 1 + (Len(snapshots) - at) :
            snapshots'[k] = IF k <= at + 1 THEN (front \o <<n>>)[k] ELSE back[k - (at + 1)]
  <2> DEFINE fore == front \o <<n>>
  <2>1. fore \in Seq(Nat) /\ Len(fore) = at + 1 /\ snapshots' = fore \o back
    BY <1>12, <1>13
  <2> HIDE DEF fore
  <2>2. /\ fore \o back \in Seq(Nat) /\ Len(fore \o back) = Len(fore) + Len(back)
        /\ \A k \in 1 .. Len(fore) + Len(back) :
             (fore \o back)[k] = IF k <= Len(fore) THEN fore[k] ELSE back[k - Len(fore)]
    BY <1>11, <2>1, ConcatProperties
  <2> QED
    BY <1>11, <2>1, <2>2 DEF fore
<1>15. snapshots' \in Seq(Nat) /\ Len(snapshots') = Len(snapshots) + 1
  BY <1>1, <1>6, <1>14
<1>16. /\ \A k \in 1 .. at : snapshots'[k] = snapshots[k]
       /\ snapshots'[at + 1] = n
  <2>1. \A k \in 1 .. at + 1 : k \in 1 .. at + 1 + (Len(snapshots) - at) /\ k <= at + 1
    BY <1>1, <1>6
  <2>2. \A k \in 1 .. at + 1 : snapshots'[k] = IF k <= at THEN front[k] ELSE n
    BY <1>12, <1>14, <2>1
  <2>3. at + 1 \in 1 .. at + 1 /\ ~ (at + 1 <= at) /\ \A k \in 1 .. at : k \in 1 .. at + 1 /\ k <= at
    BY <1>6
  <2> QED
    BY <1>10, <2>2, <2>3
<1>17. \A k \in at + 2 .. Len(snapshots) + 1 : snapshots'[k] = snapshots[k - 1]
  <2> SUFFICES ASSUME NEW k \in at + 2 .. Len(snapshots) + 1 PROVE snapshots'[k] = snapshots[k - 1]
    OBVIOUS
  <2>1. /\ k \in 1 .. at + 1 + (Len(snapshots) - at) /\ ~ (k <= at + 1)
        /\ k - (at + 1) \in 1 .. Len(snapshots) - at /\ at + (k - (at + 1)) = k - 1
    BY <1>1, <1>6
  <2>2. snapshots'[k] = back[k - (at + 1)]
    BY <1>14, <2>1
  <2>3. back[k - (at + 1)] = snapshots[at + (k - (at + 1))]
    BY <1>11, <2>1
  <2> QED
    BY <2>1, <2>2, <2>3
<1> QED
  BY <1>6, <1>7, <1>8, <1>15, <1>16, <1>17

LEMMA SnapshotsKept ==
  ASSUME StoreInv, NEW e \in Event, AppendEvent(e)
  PROVE  SnapshotsInv'
<1>1. StoreTypes /\ SnapshotsInv
  BY DEF StoreInv
<1> PICK n : n = Len(events) + 1
  OBVIOUS
<1>2. /\ Len(events) \in Nat /\ DOMAIN events = 1 .. Len(events) /\ DOMAIN events' = 1 .. n
      /\ \A i \in DOMAIN events : events'[i] = events[i]
      /\ events'[n] = e
  BY <1>1, Appended
<1>3. /\ snapshots \in Seq(Nat) /\ Len(snapshots) \in Nat /\ DOMAIN snapshots = 1 .. Len(snapshots)
      /\ \A k \in DOMAIN snapshots : snapshots[k] \in SnapshotsOf
      /\ \A k, l \in DOMAIN snapshots : k < l => Before(snapshots[k], snapshots[l])
      /\ \A i \in SnapshotsOf : \E k \in DOMAIN snapshots : snapshots[k] = i
  BY <1>1 DEF SnapshotsInv
<1>4. \A i, j \in DOMAIN events : Before(i, j)' <=> Before(i, j)
  BY <1>2 DEF Before
<1>5. CASE e.type # "bb_snapshot"
  <2>1. snapshots' = snapshots
    BY <1>1, <1>5, IndexesOfAppend
  <2>2. SnapshotsOf' = SnapshotsOf /\ SnapshotsOf \subseteq DOMAIN events
    BY <1>2, <1>5 DEF SnapshotsOf
  <2>3. \A k, l \in DOMAIN snapshots : k < l => Before(snapshots[k], snapshots[l])'
    <3> SUFFICES ASSUME NEW k \in DOMAIN snapshots, NEW l \in DOMAIN snapshots, k < l
                 PROVE  \/ events'[snapshots[k]].tick < events'[snapshots[l]].tick
                        \/ /\ events'[snapshots[k]].tick = events'[snapshots[l]].tick
                           /\ snapshots[k] <= snapshots[l]
      BY <2>1 DEF Before
    <3>1. Before(snapshots[k], snapshots[l]) /\ snapshots[k] \in DOMAIN events /\ snapshots[l] \in DOMAIN events
      BY <1>3, <2>2
    <3>2. events'[snapshots[k]] = events[snapshots[k]] /\ events'[snapshots[l]] = events[snapshots[l]]
      BY <1>2, <3>1
    <3> QED
      BY <3>1, <3>2 DEF Before
  <2> QED
    BY <1>3, <2>1, <2>2, <2>3 DEF SnapshotsInv
<1>6. CASE e.type = "bb_snapshot"
  <2>1. ApplyBlackboardSnapshot(e, n)
    BY <1>1, <1>6, IndexesOfAppend
  <2>2. PICK at \in 0 .. Len(snapshots) :
           /\ \A k \in 1 .. at : events[snapshots[k]].tick <= e.tick
           /\ \A k \in at + 1 .. Len(snapshots) : events[snapshots[k]].tick > e.tick
           /\ snapshots' \in Seq(Nat) /\ Len(snapshots') = Len(snapshots) + 1
           /\ \A k \in 1 .. at : snapshots'[k] = snapshots[k]
           /\ snapshots'[at + 1] = n
           /\ \A k \in at + 2 .. Len(snapshots) + 1 : snapshots'[k] = snapshots[k - 1]
    <3>1. n \in Nat
      BY <1>2
    <3> QED
      BY <1>1, <1>6, <2>1, <3>1, SnapshotPut, Zenon
  <2>3. SnapshotsOf' = SnapshotsOf \cup {n} /\ SnapshotsOf \subseteq DOMAIN events
    BY <1>2, <1>6 DEF SnapshotsOf
  <2>4. DOMAIN snapshots' = 1 .. Len(snapshots) + 1
    BY <2>2
  \* The place that an entry had.
  <2> DEFINE was(k) == IF k <= at THEN k ELSE k - 1
  <2>5. \A k \in DOMAIN snapshots' \ {at + 1} :
          /\ was(k) \in DOMAIN snapshots /\ snapshots'[k] = snapshots[was(k)]
          /\ snapshots'[k] \in DOMAIN events
          /\ k < at + 1 => events'[snapshots'[k]].tick <= e.tick
          /\ k > at + 1 => events'[snapshots'[k]].tick > e.tick
    <3> SUFFICES ASSUME NEW k \in DOMAIN snapshots' \ {at + 1}
                 PROVE  /\ was(k) \in DOMAIN snapshots /\ snapshots'[k] = snapshots[was(k)]
                        /\ snapshots'[k] \in DOMAIN events
                        /\ k < at + 1 => events'[snapshots'[k]].tick <= e.tick
                        /\ k > at + 1 => events'[snapshots'[k]].tick > e.tick
      OBVIOUS
    <3>1. was(k) \in DOMAIN snapshots /\ snapshots'[k] = snapshots[was(k)]
      <4>1. CASE k \in 1 .. at
        <5>1. was(k) = k /\ k \in 1 .. Len(snapshots)
          BY <1>3, <4>1
        <5>2. snapshots'[k] = snapshots[k]
          BY <2>2, <4>1
        <5> QED
          BY <1>3, <5>1, <5>2
      <4>2. CASE k \in at + 2 .. Len(snapshots) + 1
        <5>1. was(k) = k - 1 /\ k - 1 \in 1 .. Len(snapshots)
          BY <1>3, <4>2
        <5>2. snapshots'[k] = snapshots[k - 1]
          BY <2>2, <4>2
        <5> QED
          BY <1>3, <5>1, <5>2
      <4> QED
        BY <1>3, <2>4, <4>1, <4>2
    <3>2. snapshots'[k] \in DOMAIN events /\ events'[snapshots'[k]] = events[snapshots[was(k)]]
      BY <1>2, <1>3, <2>3, <3>1
    <3>3. /\ k < at + 1 => was(k) \in 1 .. at
          /\ k > at + 1 => was(k) \in at + 1 .. Len(snapshots)
      BY <1>3, <2>4
    <3> QED
      BY <2>2, <3>1, <3>2, <3>3
  <2>6. \A k \in DOMAIN snapshots' : snapshots'[k] \in SnapshotsOf'
    BY <1>3, <2>2, <2>3, <2>5
  <2>7. \A k, l \in DOMAIN snapshots' : k < l =>
          \/ events'[snapshots'[k]].tick < events'[snapshots'[l]].tick
          \/ events'[snapshots'[k]].tick = events'[snapshots'[l]].tick /\ snapshots'[k] <= snapshots'[l]
    <3> SUFFICES ASSUME NEW k \in DOMAIN snapshots', NEW l \in DOMAIN snapshots', k < l
                 PROVE  \/ events'[snapshots'[k]].tick < events'[snapshots'[l]].tick
                        \/ /\ events'[snapshots'[k]].tick = events'[snapshots'[l]].tick
                           /\ snapshots'[k] <= snapshots'[l]
      OBVIOUS
    <3>1. /\ \A i \in SnapshotsOf' : events'[i].tick \in Int
          /\ e.tick \in Int
      <4>1. events' \in Seq(Event)
        BY <1>1, Appended
      <4>2. \A i \in SnapshotsOf' : events'[i] \in Event /\ HasTick(events'[i])
        BY <4>1 DEF SnapshotsOf, HasTick
      <4> QED
        BY <1>6, <4>2, EventFields, StoreAssumption DEF HasTick, Ticks
    <3>2. CASE l = at + 1
      <4>1. events'[snapshots'[k]].tick <= e.tick /\ snapshots'[k] \in DOMAIN events
        BY <2>4, <2>5, <3>2
      <4>2. snapshots'[l] = n /\ events'[n].tick = e.tick
        BY <1>2, <2>2, <3>2
      <4> QED
        BY <1>2, <2>6, <3>1, <4>1, <4>2
    <3>3. CASE k = at + 1
      <4>1. events'[snapshots'[l]].tick > e.tick
        BY <2>4, <2>5, <3>3
      <4>2. events'[snapshots'[k]].tick = e.tick
        BY <1>2, <2>2, <3>3
      <4> QED
        BY <2>6, <3>1, <4>1, <4>2
    <3>4. CASE k # at + 1 /\ l # at + 1
      <4>1. /\ was(k) \in DOMAIN snapshots /\ was(l) \in DOMAIN snapshots
            /\ snapshots'[k] = snapshots[was(k)] /\ snapshots'[l] = snapshots[was(l)]
            /\ snapshots'[k] \in DOMAIN events /\ snapshots'[l] \in DOMAIN events
        BY <2>5, <3>4
      <4>2. was(k) < was(l)
        BY <2>4, <3>4
      <4>3. Before(snapshots[was(k)], snapshots[was(l)])
        BY <1>3, <4>1, <4>2
      <4> QED
        BY <1>2, <4>1, <4>3 DEF Before
    <3> QED
      BY <3>2, <3>3, <3>4
  <2>8. \A i \in SnapshotsOf' : \E k \in DOMAIN snapshots' : snapshots'[k] = i
    <3> SUFFICES ASSUME NEW i \in SnapshotsOf' PROVE \E k \in DOMAIN snapshots' : snapshots'[k] = i
      OBVIOUS
    <3>1. CASE i = n
      BY <1>3, <2>2, <2>4, <3>1
    <3>2. CASE i \in SnapshotsOf
      <4>1. PICK k \in DOMAIN snapshots : snapshots[k] = i
        BY <1>3, <3>2
      <4>2. CASE k <= at
        BY <1>3, <2>2, <2>4, <4>1, <4>2
      <4>3. CASE k > at
        <5>1. k + 1 \in at + 2 .. Len(snapshots) + 1 /\ k + 1 \in DOMAIN snapshots' /\ (k + 1) - 1 = k
          BY <1>3, <2>4, <4>3
        <5>2. snapshots'[k + 1] = snapshots[(k + 1) - 1]
          BY <2>2, <5>1
        <5> QED
          BY <4>1, <5>1, <5>2
      <4> QED
        BY <1>3, <4>2, <4>3
    <3> QED
      BY <2>3, <3>1, <3>2
  <2> QED
    BY <2>2, <2>6, <2>7, <2>8 DEF SnapshotsInv, Before
<1> QED
  BY <1>5, <1>6

-----------------------------------------------------------------------------

LEMMA StoreNext == StoreInv /\ [Next]_vars => StoreInv'
<1> SUFFICES ASSUME StoreInv, [Next]_vars PROVE StoreInv'
  OBVIOUS
<1>1. StoreTypes /\ DiffInv /\ TimelineInv /\ HistoryInv /\ SnapshotsInv /\ OverrideInv
  BY DEF StoreInv
<1>2. ASSUME NEW e \in Event, AppendEvent(e) PROVE StoreInv'
  <2> PICK n : n = Len(events) + 1
    OBVIOUS
  <2>1. /\ events' \in Seq(Event) /\ Len(events) \in Nat
        /\ DOMAIN events = 1 .. Len(events) /\ DOMAIN events' = 1 .. n
        /\ \A i \in DOMAIN events : events'[i] = events[i]
        /\ events'[n] = e
    BY <1>1, <1>2, Appended
  <2>2. /\ DiffInv' /\ TimelineInv' /\ HistoryInv' /\ SnapshotsInv'
        /\ DOMAIN timeline' = Nodes /\ DOMAIN history' = Keys
    BY <1>2, DiffKept, ListsKept, SnapshotsKept
  <2>3. diff' \in [Ticks -> [writes : [Keys -> Values \cup {None}], deletes : SUBSET Keys]]
    BY <1>1, <1>2, DiffOfAppend
  <2>4. /\ e.type = "bt_def" => btDefBase' = n /\ btDefOverride' = None
        /\ e.type # "bt_def" => UNCHANGED <<btDefBase, btDefOverride>>
    BY <1>1, <1>2, OverrideOfAppend
  <2>5. StoreTypes'
    BY <1>1, <2>1, <2>2, <2>3, <2>4 DEF StoreTypes
  <2>6. OverrideInv'
    <3>1. CASE e.type = "bt_def"
      BY <2>1, <2>4, <3>1 DEF OverrideInv
    <3>2. CASE e.type # "bt_def"
      BY <1>1, <2>1, <2>4, <3>2 DEF OverrideInv
    <3> QED
      BY <3>1, <3>2
  <2> QED
    BY <2>2, <2>5, <2>6 DEF StoreInv
<1>3. ASSUME UNCHANGED <<events, diff, timeline, history, snapshots, btDefBase>>,
             \/ UNCHANGED btDefOverride
             \/ btDefOverride' = None
             \/ \E tree \in Trees : btDefOverride' = [base |-> btDefBase, tree |-> tree]
      PROVE  StoreInv'
  <2>1. StoreTypes'
    BY <1>1, <1>3 DEF StoreTypes
  <2>2. DiffInv'
    BY <1>1, <1>3 DEF DiffInv, Changes, Left
  <2>3. TimelineInv'
    BY <1>1, <1>3 DEF TimelineInv, StatusesOf
  <2>4. HistoryInv'
    BY <1>1, <1>3 DEF HistoryInv, ChangesOf
  <2>5. SnapshotsInv'
    BY <1>1, <1>3 DEF SnapshotsInv, SnapshotsOf, Before
  <2>6. OverrideInv'
    BY <1>1, <1>3 DEF OverrideInv
  <2> QED
    BY <2>1, <2>2, <2>3, <2>4, <2>5, <2>6 DEF StoreInv
<1>4. ASSUME NEW tree \in Trees, SetBtDefOverride(tree) PROVE StoreInv'
  BY <1>3, <1>4 DEF SetBtDefOverride
<1>5. CASE ClearBtDefOverride
  BY <1>3, <1>5 DEF ClearBtDefOverride
<1>6. ASSUME NEW tick \in -1 .. MaxTick, Seek(tick) PROVE StoreInv'
  BY <1>3, <1>6 DEF Seek
<1>7. CASE UNCHANGED vars
  BY <1>3, <1>7 DEF vars
<1> QED
  BY <1>2, <1>4, <1>5, <1>6, <1>7 DEF Next

LEMMA StoreAlways == Spec => []StoreInv
BY StoreInit, StoreNext, PTL DEF Spec

-----------------------------------------------------------------------------

\* An override that is shown was made over the last definition that arrived.
THEOREM OverrideOverLast == Spec => []OverrideIsOfLatestDefinition
<1>1. StoreInv => OverrideIsOfLatestDefinition
  BY DEF StoreInv, OverrideInv, OverrideIsOfLatestDefinition
<1> QED
  BY <1>1, StoreAlways, PTL

\* The latest of a set of events is the one every other comes before.
LEMMA LatestIs ==
  ASSUME NEW P, NEW j \in P, \A i \in P : i \in Nat /\ events[i].tick \in Int /\ Before(i, j)
  PROVE  Latest(P) = j
<1>1. \A k \in P : (\A i \in P : Before(i, k)) => k = j
  <2> SUFFICES ASSUME NEW k \in P, Before(j, k), Before(k, j) PROVE k = j
    OBVIOUS
  <2> QED
    BY DEF Before
<1> QED
  BY <1>1 DEF Latest

\* Among events of one tick the latest is the one appended last.
LEMMA LatestInTick ==
  ASSUME StoreTypes, NEW P, NEW j \in P, P \subseteq DOMAIN events,
         \A i \in P : events[i].tick = events[j].tick /\ events[i].tick \in Ticks /\ i <= j
  PROVE  Latest(P) = j
<1>1. \A i \in P : i \in Nat /\ events[i].tick \in Int
  BY StoreAssumption DEF StoreTypes, Ticks
<1>2. \A i \in P : Before(i, j)
  BY DEF Before
<1> QED
  BY <1>1, <1>2, LatestIs

\* The diff of a tick is the net effect of its writes and deletes.
THEOREM DiffOfTick == Spec => []DiffIsNetEffect
<1>1. ASSUME StoreInv PROVE DiffIsNetEffect
  <2> SUFFICES ASSUME NEW key \in Keys, NEW tick \in Ticks
               PROVE  /\ diff[tick].writes[key] =
                           IF Changes(key, tick) = {} THEN None ELSE ChangeOf(events[Latest(Changes(key, tick))])
                      /\ key \in diff[tick].deletes <=>
                           /\ Changes(key, tick) # {}
                           /\ events[Latest(Changes(key, tick))].type = "bb_delete"
    BY DEF DiffIsNetEffect, Changes
  <2>1. StoreTypes /\ DiffInv
    BY <1>1 DEF StoreInv
  <2>2. CASE Changes(key, tick) = {} /\ diff[tick].writes[key] = None /\ key \notin diff[tick].deletes
    BY <2>2
  <2>3. ASSUME NEW j \in Changes(key, tick), \A i \in Changes(key, tick) : i <= j, Left(key, tick, j)
        PROVE  Latest(Changes(key, tick)) = j
    <3>1. /\ Changes(key, tick) \subseteq DOMAIN events
          /\ \A i \in Changes(key, tick) : events[i].tick = tick
      BY DEF Changes
    <3> QED
      BY <2>1, <2>3, <3>1, LatestInTick
  <2> QED
    BY <2>1, <2>2, <2>3 DEF DiffInv, Left
<1> QED
  BY <1>1, StoreAlways, PTL

\* Of events that came by tick, a node has the status it was last given.
THEOREM StatusOfRun == Spec => []StatusIsLatest
<1>1. ASSUME StoreInv, ByTick PROVE StatusIsLatest
  <2>1. TimelineInv /\ events \in Seq(Event)
    BY <1>1 DEF StoreInv, StoreTypes
  <2> SUFFICES ASSUME NEW node \in Nodes, NEW tick \in Ticks
               PROVE  LET given == {i \in DOMAIN events : /\ events[i].type = "node_status"
                                                          /\ events[i].node = node
                                                          /\ events[i].tick <= tick}
                      IN  GetNodeStatusAt(node, tick) =
                            IF given = {} THEN None ELSE events[Latest(given)].status
    BY DEF StatusIsLatest
  <2> DEFINE given == {i \in DOMAIN events : /\ events[i].type = "node_status"
                                             /\ events[i].node = node
                                             /\ events[i].tick <= tick}
             points == {k \in DOMAIN timeline[node] : events[timeline[node][k]].tick <= tick}
  <2>2. /\ timeline[node] \in Seq(Nat)
        /\ \A k \in DOMAIN timeline[node] : timeline[node][k] \in StatusesOf(node)
        /\ \A k, l \in DOMAIN timeline[node] : k < l => timeline[node][k] < timeline[node][l]
        /\ \A i \in StatusesOf(node) : \E k \in DOMAIN timeline[node] : timeline[node][k] = i
    BY <2>1 DEF TimelineInv, Lists
  <2>3. /\ \A k \in points : timeline[node][k] \in given
        /\ \A i \in given : \E k \in points : timeline[node][k] = i
    BY <2>2 DEF StatusesOf
  <2>4. CASE given = {}
    <3>1. points = {}
      BY <2>3, <2>4
    <3> QED
      BY <2>4, <3>1 DEF GetNodeStatusAt
  <2>5. CASE given # {}
    <3>1. points # {} /\ points \in SUBSET Nat /\ Len(timeline[node]) \in Nat
          /\ \A k \in points : k <= Len(timeline[node])
      BY <2>2, <2>3, <2>5
    <3>2. PICK m \in points : \A k \in points : k <= m
      BY <3>1, GreatestNatural
    <3>3. Last(points) = m
      <4>1. \A k \in points : (\A l \in points : l <= k) => k = m
        BY <3>1, <3>2
      <4> HIDE DEF points
      <4> QED
        BY <3>2, <4>1 DEF Last
    <3> DEFINE j == timeline[node][m]
    <3>4. j \in given /\ \A i \in given : i <= j
      <4>1. \A k \in points : timeline[node][k] \in Nat /\ (k = m \/ k < m) /\ k \in DOMAIN timeline[node]
        BY <2>2, <3>1, <3>2
      <4>2. \A k \in points : timeline[node][k] <= j
        BY <2>2, <3>2, <4>1
      <4> QED
        BY <2>3, <3>2, <4>2
    <3>5. \A i \in given : /\ events[i].tick \in Ticks /\ HasTick(events[i])
                           /\ i \in Nat
      <4>1. \A i \in DOMAIN events : i \in Nat /\ events[i] \in Event
        BY <2>1
      <4> QED
        BY <4>1, EventFields DEF HasTick
    <3>6. \A i \in given : events[i].tick <= events[j].tick
      BY <1>1, <3>4, <3>5, StoreAssumption DEF ByTick, Ticks
    <3>7. \A i \in given : Before(i, j)
      BY <3>4, <3>5, <3>6, StoreAssumption DEF Before, Ticks
    <3>8. \A i \in given : i \in Nat /\ events[i].tick \in Int
      BY <3>5, StoreAssumption DEF Ticks
    <3>9. Latest(given) = j
      <4> HIDE DEF given, j
      <4> QED
        BY <3>4, <3>7, <3>8, LatestIs
    <3> QED
      BY <2>5, <3>1, <3>3, <3>9 DEF GetNodeStatusAt
  <2> QED
    BY <2>4, <2>5
<1>2. StoreInv => StatusIsLatest
  BY <1>1 DEF StatusIsLatest
<1> QED
  BY <1>2, StoreAlways, PTL

\* Snapshots and increments amount to one history: a key has the value of the
\* last write, delete or snapshot up to the tick.
THEOREM BlackboardOfRun == Spec => []BlackboardIsLatest
<1>1. ASSUME StoreInv, ByTick, SnapshotsCloseTicks, NEW key \in Keys, NEW tick \in Ticks
      PROVE  LET changes == {i \in DOMAIN events :
                               /\ HasTick(events[i]) /\ events[i].tick <= tick
                               /\ \/ IsBlackboardChange(events[i]) /\ events[i].key = key
                                  \/ events[i].type = "bb_snapshot"}
                 last    == events[Latest(changes)]
             IN  GetBlackboardAt(tick)[key] =
                   IF changes = {} THEN None
                   ELSE IF last.type = "bb_snapshot" THEN last.values[key] ELSE ChangeOf(last)
  <2> DEFINE changes == {i \in DOMAIN events :
                           /\ HasTick(events[i]) /\ events[i].tick <= tick
                           /\ \/ IsBlackboardChange(events[i]) /\ events[i].key = key
                              \/ events[i].type = "bb_snapshot"}
             last == events[Latest(changes)]
             floor == SnapshotFloorTick(tick)
             points == {k \in DOMAIN history[key] : /\ events[history[key][k]].tick > floor
                                                    /\ events[history[key][k]].tick <= tick}
             found == {k \in DOMAIN snapshots : events[snapshots[k]].tick <= tick}
  <2>1. /\ history[key] \in Seq(Nat)
        /\ \A k \in DOMAIN history[key] : history[key][k] \in ChangesOf(key)
        /\ \A k, l \in DOMAIN history[key] : k < l => history[key][k] < history[key][l]
        /\ \A i \in ChangesOf(key) : \E k \in DOMAIN history[key] : history[key][k] = i
    BY <1>1 DEF StoreInv, HistoryInv, Lists
  <2>2. /\ snapshots \in Seq(Nat)
        /\ \A k \in DOMAIN snapshots : snapshots[k] \in SnapshotsOf
        /\ \A k, l \in DOMAIN snapshots : k < l => Before(snapshots[k], snapshots[l])
        /\ \A i \in SnapshotsOf : \E k \in DOMAIN snapshots : snapshots[k] = i
    BY <1>1 DEF StoreInv, SnapshotsInv
  <2>3. \A i \in ChangesOf(key) \cup SnapshotsOf :
          /\ i \in DOMAIN events /\ i \in Nat
          /\ HasTick(events[i]) /\ events[i].tick \in 0 .. MaxTick
    <3>1. \A i \in DOMAIN events : i \in Nat /\ events[i] \in Event
      BY <1>1 DEF StoreInv, StoreTypes
    <3> QED
      BY <3>1, EventFields DEF ChangesOf, SnapshotsOf, HasTick, IsBlackboardChange, Ticks
  <2>4. changes = {i \in ChangesOf(key) \cup SnapshotsOf : events[i].tick <= tick}
    BY <2>3 DEF ChangesOf, SnapshotsOf
  <2>5. tick \in Nat /\ MaxTick \in Nat
    BY StoreAssumption DEF Ticks
  <2>6. /\ floor \in -1 .. tick
        /\ floor # -1 => \E k \in DOMAIN snapshots : events[snapshots[k]].tick = floor
        /\ \A k \in found : events[snapshots[k]].tick <= floor
    <3> DEFINE T == {t \in 0 .. tick : \E k \in DOMAIN snapshots : events[snapshots[k]].tick = t}
    <3>1. \E f \in {-1} \cup T : \A t \in {-1} \cup T : t <= f
      <4>1. CASE T = {}
        BY <4>1
      <4>2. CASE T # {}
        <5>1. T \in SUBSET Nat /\ \A t \in T : t <= tick
          BY <2>5
        <5>2. PICK f \in T : \A t \in T : t <= f
          BY <2>5, <4>2, <5>1, GreatestNatural
        <5>3. -1 <= f
          BY <5>1
        <5> QED
          BY <5>2, <5>3
      <4> QED
        BY <4>1, <4>2
    <3>2. floor \in {-1} \cup T /\ \A t \in {-1} \cup T : t <= floor
      <4> DEFINE all == {-1} \cup T
      <4>1. floor = Last(all)
        BY DEF SnapshotFloorTick
      <4> HIDE DEF all, floor
      <4>2. \E f \in all : \A t \in all : t <= f
        BY <3>1 DEF all
      <4>3. floor \in all /\ \A t \in all : t <= floor
        BY <4>1, <4>2 DEF Last
      <4> QED
        BY <4>3 DEF all
    <3> HIDE DEF floor
    <3>3. ASSUME NEW k \in found PROVE events[snapshots[k]].tick \in T
      BY <2>2, <2>3, <2>5
    <3> QED
      BY <2>5, <3>2, <3>3
  <2> HIDE DEF floor
  <2>7. GetBlackboardAt(tick)[key] =
          IF points = {} THEN SeedBlackboardState(tick)[key]
                         ELSE ChangeOf(events[history[key][Last(points)]])
    BY DEF GetBlackboardAt, floor
  <2>8. CASE points # {}
    <3>1. PICK m \in points : \A k \in points : k <= m
      <4>1. points \in SUBSET Nat /\ Len(history[key]) \in Nat /\ \A k \in points : k <= Len(history[key])
        BY <2>1
      <4> QED
        BY <2>8, <4>1, GreatestNatural
    <3>2. Last(points) = m
      <4>1. \A k \in points : k \in Nat
        BY <2>1
      <4> HIDE DEF points
      <4> QED
        BY <3>1, <4>1 DEF Last
    <3> PICK p : p = history[key][m]
      OBVIOUS
    <3>3. p \in changes /\ p \in ChangesOf(key) /\ events[p].tick > floor
      BY <2>1, <2>4, <3>1
    <3>4. ASSUME NEW i \in changes PROVE Before(i, p)
      <4>1. /\ events[i].tick \in Int /\ events[p].tick \in Int /\ i \in Nat /\ p \in Nat
            /\ i \in DOMAIN events /\ p \in DOMAIN events
            /\ HasTick(events[i]) /\ HasTick(events[p])
        BY <2>3, <2>4, <3>3
      <4>2. CASE events[i].tick <= floor
        BY <2>6, <3>3, <4>1, <4>2 DEF Before
      <4>3. CASE events[i].tick > floor
        <5>1. i \notin SnapshotsOf
          <6>1. i \in SnapshotsOf => \E k \in found : snapshots[k] = i
            BY <2>2, <2>4
          <6> QED
            BY <2>6, <4>1, <4>3, <6>1
        <5>2. PICK k \in DOMAIN history[key] : history[key][k] = i
          BY <2>1, <2>4, <5>1
        <5>3. k \in points
          BY <2>4, <4>3, <5>2
        <5>4. k \in Nat /\ m \in Nat /\ m \in DOMAIN history[key] /\ k <= m
          BY <2>1, <3>1, <5>3
        <5>5. i <= p
          <6>1. CASE k = m
            BY <4>1, <5>2, <6>1
          <6>2. CASE k < m
            BY <2>1, <4>1, <5>2, <5>4, <6>2
          <6> QED
            BY <5>4, <6>1, <6>2
        <5>6. events[i].tick <= events[p].tick
          BY <1>1, <4>1, <5>5 DEF ByTick
        <5> QED
          BY <4>1, <5>5, <5>6 DEF Before
      <4> QED
        BY <2>6, <4>1, <4>2, <4>3
    <3>5. Latest(changes) = p
      BY <2>3, <2>4, <3>3, <3>4, LatestIs
    <3>6. events[p].type # "bb_snapshot"
      BY <3>3 DEF ChangesOf, IsBlackboardChange
    <3> QED
      BY <2>7, <2>8, <3>2, <3>3, <3>5, <3>6
  <2>9. CASE points = {}
    <3>1. \A i \in ChangesOf(key) : events[i].tick <= tick => events[i].tick <= floor
      <4> SUFFICES ASSUME NEW i \in ChangesOf(key), events[i].tick <= tick PROVE events[i].tick <= floor
        OBVIOUS
      <4>1. PICK k \in DOMAIN history[key] : history[key][k] = i
        BY <2>1
      <4>2. ~ (events[i].tick > floor)
        BY <2>9, <4>1
      <4> QED
        BY <2>3, <2>6, <4>2
    <3>2. CASE found = {}
      <4>1. floor = -1
        BY <2>2, <2>5, <2>6, <3>2
      <4>2. \A i \in SnapshotsOf : ~ (events[i].tick <= tick)
        BY <2>2, <3>2
      <4>3. changes = {}
        BY <2>3, <2>4, <3>1, <4>1, <4>2
      <4>4. SeedBlackboardState(tick)[key] = None
        BY <3>2 DEF SeedBlackboardState, NoDiff
      <4> QED
        BY <2>7, <2>9, <4>3, <4>4
    <3>3. CASE found # {}
      <4>1. PICK m \in found : \A k \in found : k <= m
        <5>1. found \in SUBSET Nat /\ Len(snapshots) \in Nat /\ \A k \in found : k <= Len(snapshots)
          BY <2>2
        <5> QED
          BY <3>3, <5>1, GreatestNatural
      <4>2. Last(found) = m
        <5>1. \A k \in found : k \in Nat
          BY <2>2
        <5> HIDE DEF found
        <5> QED
          BY <4>1, <5>1 DEF Last
      <4> PICK q : q = snapshots[m]
        OBVIOUS
      <4>3. q \in changes /\ q \in SnapshotsOf
        BY <2>2, <2>4, <4>1
      <4>4. \A k \in found : Before(snapshots[k], q)
        <5> SUFFICES ASSUME NEW k \in found PROVE Before(snapshots[k], q)
          OBVIOUS
        <5>1. k \in Nat /\ m \in Nat /\ k \in DOMAIN snapshots /\ m \in DOMAIN snapshots /\ k <= m
          BY <2>2, <4>1
        <5>2. CASE k = m
          BY <2>3, <4>3, <5>2 DEF Before
        <5>3. CASE k < m
          BY <2>2, <5>1, <5>3
        <5> QED
          BY <5>1, <5>2, <5>3
      <4>5. events[q].tick = floor
        <5>1. events[q].tick <= floor
          BY <2>6, <4>1
        <5>2. PICK k \in DOMAIN snapshots : events[snapshots[k]].tick = floor
          <6>1. events[q].tick >= 0
            BY <2>3, <4>3
          <6>2. floor # -1
            BY <2>3, <4>3, <5>1, <6>1
          <6> QED
            BY <2>6, <6>2
        <5>3. Before(snapshots[k], q)
          BY <2>6, <4>4, <5>2
        <5> QED
          BY <2>3, <2>6, <4>3, <5>1, <5>2, <5>3 DEF Before
      <4>6. ASSUME NEW i \in changes PROVE Before(i, q)
        <5>1. CASE i \in SnapshotsOf
          BY <2>2, <2>4, <4>4, <5>1
        <5>2. CASE i \in ChangesOf(key)
          <6>1. events[i].tick <= floor /\ events[i].tick \in Int /\ i \in Nat /\ q \in Nat
            BY <2>3, <2>4, <3>1, <4>3, <5>2
          <6>2. CASE events[i].tick = floor
            <7>1. ~ (q < i)
              BY <1>1, <2>3, <4>3, <4>5, <5>2, <6>2 DEF SnapshotsCloseTicks, SnapshotsOf, ChangesOf
            <7> QED
              BY <4>5, <6>1, <6>2, <7>1 DEF Before
          <6>3. CASE events[i].tick < floor
            BY <4>5, <6>3 DEF Before
          <6> QED
            BY <2>6, <6>1, <6>2, <6>3
        <5> QED
          BY <2>4, <5>1, <5>2
      <4>7. Latest(changes) = q
        BY <2>3, <2>4, <4>3, <4>6, LatestIs
      <4>8. events[q].type = "bb_snapshot"
        BY <4>3 DEF SnapshotsOf
      <4>9. SeedBlackboardState(tick) = events[q].values
        BY <3>3, <4>2 DEF SeedBlackboardState
      <4> QED
        BY <2>7, <2>9, <4>3, <4>7, <4>8, <4>9
    <3> QED
      BY <3>2, <3>3
  <2> QED
    BY <2>8, <2>9
<1>2. StoreInv => BlackboardIsLatest
  BY <1>1 DEF BlackboardIsLatest
<1> QED
  BY <1>2, StoreAlways, PTL
=============================================================================
