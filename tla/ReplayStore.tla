---------------------------- MODULE ReplayStore ----------------------------
(***************************************************************************)
(* The event store every panel reads (packages/replay/src/replay-store.ts): *)
(* append files each event into indexes, and the queries answer from them   *)
(* for any tick.                                                            *)
(*                                                                          *)
(* Events keep what the indexes use.  A point of an index is the position   *)
(* of its event in events.  Digests and previews of blackboard values are   *)
(* one value.  The list of each tick's events (getTick) is a filter of      *)
(* events and is not kept here.                                             *)
(***************************************************************************)
EXTENDS Integers, Sequences

CONSTANTS
  MaxTick,      \* ticks are 0 .. MaxTick
  Nodes, Statuses,
  Keys, Values,
  Trees,        \* definitions of the behaviour tree
  MaxEvents,    \* bound: events in the store
  None          \* undefined

Ticks == 0 .. MaxTick

NodeStatus == [type : {"node_status"}, tick : Ticks, node : Nodes, status : Statuses]
BbWrite == [type : {"bb_write"}, tick : Ticks, key : Keys, value : Values]
BbDelete == [type : {"bb_delete"}, tick : Ticks, key : Keys]
\* None stands for a key that is not there.
BbSnapshot == [type : {"bb_snapshot"}, tick : Ticks, values : [Keys -> Values \cup {None}]]
BtDef == [type : {"bt_def"}, tree : Trees]
Event == NodeStatus \cup BbWrite \cup BbDelete \cup BbSnapshot \cup BtDef

ASSUME StoreAssumption ==
  /\ MaxTick \in Nat /\ MaxEvents \in Nat
  /\ None \notin Values \cup Trees

VARIABLES
  events,           \* events
  maxTick,          \* maxTickValue
  timeline,         \* nodeTimeline: the status events of each node
  history,          \* blackboardHistory: the writes and deletes of each key
  snapshots,        \* blackboardSnapshots, sorted by tick
  diff,             \* blackboardDiffByTick
  btDefBase,        \* btDefBaseEvent: its position, or 0
  btDefOverride,    \* btDefOverrideEvent: a tree over a base event, or None
  cursor            \* cursorTick

vars == <<events, maxTick, timeline, history, snapshots, diff, btDefBase, btDefOverride, cursor>>

NoDiff == [writes |-> [k \in Keys |-> None], deletes |-> {}]

Init ==
  /\ events = <<>>
  /\ maxTick = -1
  /\ timeline = [n \in Nodes |-> <<>>]
  /\ history = [k \in Keys |-> <<>>]
  /\ snapshots = <<>>
  /\ diff = [t \in Ticks |-> NoDiff]
  /\ btDefBase = 0
  /\ btDefOverride = None
  /\ cursor = 0

-----------------------------------------------------------------------------
(* append, by type of event.  Each is given the event and its position. *)

AppendNodeStatus(e, n) ==
  /\ timeline' = [timeline EXCEPT ![e.node] = Append(@, n)]
  /\ UNCHANGED <<history, snapshots, diff, btDefBase, btDefOverride>>

\* Faulty variant: a write leaves the key among the deletes of its tick.
WriteAfterDelete(e, n) ==
  /\ diff' = [diff EXCEPT ![e.tick].writes[e.key] = e.value]
  /\ history' = [history EXCEPT ![e.key] = Append(@, n)]
  /\ UNCHANGED <<timeline, snapshots, btDefBase, btDefOverride>>

\* applyBlackboardWrite
ApplyBlackboardWrite(e, n) ==
  /\ diff' = [diff EXCEPT ![e.tick].writes[e.key] = e.value,
                          ![e.tick].deletes = @ \ {e.key}]
  /\ history' = [history EXCEPT ![e.key] = Append(@, n)]
  /\ UNCHANGED <<timeline, snapshots, btDefBase, btDefOverride>>

\* Faulty variant: a delete is only part of the diff.
DeleteInDiffOnly(e, n) ==
  /\ diff' = [diff EXCEPT ![e.tick].writes[e.key] = None,
                          ![e.tick].deletes = @ \cup {e.key}]
  /\ UNCHANGED <<timeline, history, snapshots, btDefBase, btDefOverride>>

\* applyBlackboardDelete
ApplyBlackboardDelete(e, n) ==
  /\ diff' = [diff EXCEPT ![e.tick].writes[e.key] = None,
                          ![e.tick].deletes = @ \cup {e.key}]
  /\ history' = [history EXCEPT ![e.key] = Append(@, n)]
  /\ UNCHANGED <<timeline, snapshots, btDefBase, btDefOverride>>

\* applyBlackboardSnapshot: the sort is stable, so the new snapshot comes after
\* those of its tick.
ApplyBlackboardSnapshot(e, n) ==
  LET before == {i \in DOMAIN snapshots : events[snapshots[i]].tick <= e.tick}
      at     == IF before = {} THEN 0 ELSE CHOOSE i \in before : \A j \in before : j <= i
  IN  /\ snapshots' = SubSeq(snapshots, 1, at) \o <<n>> \o SubSeq(snapshots, at + 1, Len(snapshots))
      /\ UNCHANGED <<timeline, history, diff, btDefBase, btDefOverride>>

\* Faulty variant: the override survives the definition it was made over.
AppendBtDefKeepsOverride(n) ==
  /\ btDefBase' = n
  /\ UNCHANGED <<timeline, history, snapshots, diff, btDefOverride>>

AppendBtDef(n) ==
  /\ btDefBase' = n
  /\ btDefOverride' = None
  /\ UNCHANGED <<timeline, history, snapshots, diff>>

HasTick(e) == e.type # "bt_def"

IsBlackboardChange(e) == e.type \in {"bb_write", "bb_delete"}

\* append
AppendEvent(e) ==
  LET n == Len(events) + 1
  IN  /\ n <= MaxEvents
      /\ events' = Append(events, e)
      /\ maxTick' = IF HasTick(e) /\ e.tick > maxTick THEN e.tick ELSE maxTick
      /\ \/ e.type = "node_status" /\ AppendNodeStatus(e, n)
         \/ e.type = "bb_write" /\ ApplyBlackboardWrite(e, n)
         \/ e.type = "bb_delete" /\ ApplyBlackboardDelete(e, n)
         \/ e.type = "bb_snapshot" /\ ApplyBlackboardSnapshot(e, n)
         \/ e.type = "bt_def" /\ AppendBtDef(n)
      /\ UNCHANGED cursor

\* setBtDefOverride: nothing to override without a definition.
SetBtDefOverride(tree) ==
  /\ btDefBase # 0
  /\ btDefOverride' = [base |-> btDefBase, tree |-> tree]
  /\ UNCHANGED <<events, maxTick, timeline, history, snapshots, diff, btDefBase, cursor>>

ClearBtDefOverride ==
  /\ btDefOverride' = None
  /\ UNCHANGED <<events, maxTick, timeline, history, snapshots, diff, btDefBase, cursor>>

\* seek
Seek(tick) ==
  /\ cursor' = IF maxTick < 0 \/ tick < 0 THEN 0
               ELSE IF tick > maxTick THEN maxTick ELSE tick
  /\ UNCHANGED <<events, maxTick, timeline, history, snapshots, diff, btDefBase, btDefOverride>>

Next ==
  \/ \E e \in Event : AppendEvent(e)
  \/ \E tree \in Trees : SetBtDefOverride(tree)
  \/ ClearBtDefOverride
  \/ \E tick \in -1 .. MaxTick : Seek(tick)

Spec == Init /\ [][Next]_vars

-----------------------------------------------------------------------------
(* The queries, from the indexes *)

Last(positions) == CHOOSE i \in positions : \A j \in positions : j <= i

\* Faulty variant: the first point found from the start.
FirstStatusAt(node, tick) ==
  LET points == {i \in DOMAIN timeline[node] : events[timeline[node][i]].tick <= tick}
  IN  IF points = {} THEN None
      ELSE events[timeline[node][CHOOSE i \in points : \A j \in points : i <= j]].status

\* getNodeStatusAt: from the last point appended back.
GetNodeStatusAt(node, tick) ==
  LET points == {i \in DOMAIN timeline[node] : events[timeline[node][i]].tick <= tick}
  IN  IF points = {} THEN None ELSE events[timeline[node][Last(points)]].status

\* seedBlackboardState: the last snapshot of the greatest tick up to tick.
SeedBlackboardState(tick) ==
  LET found == {i \in DOMAIN snapshots : events[snapshots[i]].tick <= tick}
  IN  IF found = {} THEN NoDiff.writes ELSE events[snapshots[Last(found)]].values

\* blackboardSnapshotFloorTick
SnapshotFloorTick(tick) ==
  Last({-1} \cup {t \in 0 .. tick : \E i \in DOMAIN snapshots : events[snapshots[i]].tick = t})

ChangeOf(e) == IF e.type = "bb_write" THEN e.value ELSE None

\* getBlackboardAt
GetBlackboardAt(tick) ==
  [key \in Keys |->
     LET points == {i \in DOMAIN history[key] :
                      /\ events[history[key][i]].tick > SnapshotFloorTick(tick)
                      /\ events[history[key][i]].tick <= tick}
     IN  IF points = {} THEN SeedBlackboardState(tick)[key]
                        ELSE ChangeOf(events[history[key][Last(points)]])]

-----------------------------------------------------------------------------
(* What they should answer, from the run itself *)

\* Event i comes before event j in the run: by tick, then as they were appended.
Before(i, j) ==
  \/ events[i].tick < events[j].tick
  \/ events[i].tick = events[j].tick /\ i <= j

\* The latest of a set of events.
Latest(positions) == CHOOSE j \in positions : \A i \in positions : Before(i, j)

\* The events came by tick, as in a log read whole or a stream: the lookups from
\* the end rely on it.
ByTick ==
  \A i, j \in DOMAIN events :
    i < j /\ HasTick(events[i]) /\ HasTick(events[j]) => events[i].tick <= events[j].tick

\* No tick has a change of the blackboard after its snapshot: getBlackboardAt
\* skips every change whose tick is that of the snapshot.
SnapshotsCloseTicks ==
  \A i, j \in DOMAIN events :
    i < j /\ events[i].type = "bb_snapshot" /\ IsBlackboardChange(events[j])
      => events[i].tick # events[j].tick

\* Of events that came by tick, a node has the status it was last given up to
\* the tick that is looked at, wherever that tick is.
StatusIsLatest ==
  ByTick => \A node \in Nodes, tick \in Ticks :
    LET given == {i \in DOMAIN events : /\ events[i].type = "node_status"
                                        /\ events[i].node = node
                                        /\ events[i].tick <= tick}
    IN  GetNodeStatusAt(node, tick) =
          IF given = {} THEN None ELSE events[Latest(given)].status

\* If snapshots also close their ticks, a key has the value that the last
\* write, delete or snapshot up to the tick gave it: snapshots and increments
\* amount to one history.
BlackboardIsLatest ==
  ByTick /\ SnapshotsCloseTicks => \A key \in Keys, tick \in Ticks :
    LET changes == {i \in DOMAIN events :
                      /\ HasTick(events[i]) /\ events[i].tick <= tick
                      /\ \/ IsBlackboardChange(events[i]) /\ events[i].key = key
                         \/ events[i].type = "bb_snapshot"}
        last    == events[Latest(changes)]
    IN  GetBlackboardAt(tick)[key] =
          IF changes = {} THEN None
          ELSE IF last.type = "bb_snapshot" THEN last.values[key] ELSE ChangeOf(last)

\* The diff of a tick is the net effect of its writes and deletes, whatever
\* was appended between them and in whatever order the ticks came.
DiffIsNetEffect ==
  \A key \in Keys, tick \in Ticks :
    LET changes == {i \in DOMAIN events : /\ IsBlackboardChange(events[i])
                                          /\ events[i].key = key /\ events[i].tick = tick}
        last    == events[Latest(changes)]
    IN  /\ diff[tick].writes[key] = IF changes = {} THEN None ELSE ChangeOf(last)
        /\ key \in diff[tick].deletes <=> changes # {} /\ last.type = "bb_delete"

\* An applied draft is shown only over the definition it was made for: a
\* definition that arrives later, as a reconnect brings, is what is shown then.
OverrideIsOfLatestDefinition ==
  btDefOverride # None =>
    \A i \in DOMAIN events : events[i].type = "bt_def" => i <= btDefOverride.base

=============================================================================
