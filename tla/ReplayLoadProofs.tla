-------------------------- MODULE ReplayLoadProofs --------------------------
(***************************************************************************)
(* What a user is told of loads that overlap, and what an exported bundle   *)
(* holds, for any logs and any number of loads.                             *)
(*                                                                          *)
(* The first two invariants are inductive with the types of the calls.  The *)
(* third needs to be known where the ticks of a replay come from: a replay  *)
(* that is not lazy was read whole unless live events were appended to it,  *)
(* and an export captures the shown replay only when it is whole.           *)
(***************************************************************************)
EXTENDS ReplayLoad, TLAPS

Waits == {"unpacking", "sidecar", "text", "slices", "nothing"}

Call == [doc : Docs, awaits : Waits]
Replay == [doc : Docs, ticks : SUBSET Int]
Export == [stage : {"idle", "waiting", "capturing"}, of : Nat, tick : Int]

CallTypes ==
  /\ loads \in Seq(Call)
  /\ progress \in BOOLEAN
  /\ ended.outcome # "none" => ended.call \in DOMAIN loads

ReplayTypes ==
  /\ replays \in Seq(Replay)
  /\ \A i \in DOMAIN replays : replays[i].ticks \subseteq Ticks(replays[i].doc)
  /\ replays # <<>> => reading \subseteq Ticks(Shown.doc)
  /\ replays = <<>> => reading = {}
  /\ export \in Export /\ selectedTick \in Int
  /\ export.of \in 0 .. Len(replays) /\ saved.of \in 0 .. Len(replays)
  /\ export.stage = "waiting" => export.of # 0

\* What of the shown replay is whole, as long as it is a replay.
WholeInv ==
  (mode = "replay" /\ replays # <<>>) =>
    /\ source = "none" => Complete(Shown)
    /\ (export.stage = "capturing" /\ export.of = Len(replays)) => Complete(Shown)
    /\ (saved.of = Len(replays)) => Complete(Shown) /\ saved.ticks = Ticks(Shown.doc)

LoadInv == CallTypes /\ ReplayTypes /\ WholeInv /\ ProgressOwned /\ LastToEndIsTold

-----------------------------------------------------------------------------

LEMMA ReplacedInSeq ==
  ASSUME NEW S, NEW s \in Seq(S), NEW i \in DOMAIN s, NEW v \in S
  PROVE  /\ [s EXCEPT ![i] = v] \in Seq(S)
         /\ DOMAIN [s EXCEPT ![i] = v] = DOMAIN s /\ Len([s EXCEPT ![i] = v]) = Len(s)
OBVIOUS

LEMMA CallMoves ==
  ASSUME loads \in Seq(Call), NEW c \in DOMAIN loads, NEW what \in Waits,
         loads' = [loads EXCEPT ![c].awaits = what]
  PROVE  /\ loads' \in Seq(Call) /\ DOMAIN loads' = DOMAIN loads
         /\ loads'[c].doc = loads[c].doc /\ loads'[c].awaits = what
<1>1. loads[c] \in Call
  OBVIOUS
<1>2. PICK r : r = [loads[c] EXCEPT !.awaits = what]
  OBVIOUS
<1>3. r \in Call /\ r.doc = loads[c].doc /\ r.awaits = what
  BY <1>1, <1>2 DEF Call
<1>4. loads' = [loads EXCEPT ![c] = r]
  BY <1>2
<1> QED
  BY <1>3, <1>4, ReplacedInSeq

LEMMA LoadInit == Init => LoadInv
<1> SUFFICES ASSUME Init PROVE LoadInv
  OBVIOUS
<1>1. CallTypes
  <2>1. loads = <<>> /\ progress = FALSE /\ ended.outcome = "none"
    BY DEF Init
  <2>2. loads \in Seq(Call)
    BY <2>1
  <2>3. progress \in BOOLEAN
    BY <2>1
  <2>4. ended.outcome # "none" => ended.call \in DOMAIN loads
    BY <2>1
  <2> QED
    BY <2>2, <2>3, <2>4 DEF CallTypes
<1>2. ReplayTypes
  BY DEF Init, ReplayTypes, NoExport, NothingSaved, Export
<1>3. WholeInv /\ ProgressOwned /\ LastToEndIsTold
  BY DEF Init, WholeInv, ProgressOwned, LastToEndIsTold
<1> QED
  BY <1>1, <1>2, <1>3 DEF LoadInv

\* A replay that is shown anew has a number no export or bundle has.
LEMMA ShowKeeps ==
  ASSUME LoadInv, NEW c \in DOMAIN loads, NEW kind, Show(c, kind)
  PROVE  LoadInv'
<1> DEFINE d == loads[c].doc
           shown == [doc |-> d, ticks |-> IF kind = "none" THEN Ticks(d) ELSE {1}]
<1>1. /\ loads \in Seq(Call) /\ replays \in Seq(Replay)
      /\ d \in Docs /\ LastTick(d) \in Nat \ {0}
  <2>1. loads \in Seq(Call) /\ replays \in Seq(Replay)
    BY DEF LoadInv, CallTypes, ReplayTypes
  <2>2. d \in Docs
    <3>1. loads[c] \in Call
      BY <2>1
    <3> QED
      BY <3>1 DEF Call
  <2> QED
    BY <2>1, <2>2, LoadAssumption
<1>2. /\ loads' = [loads EXCEPT ![c].awaits = "nothing"] /\ ended' = [call |-> c, outcome |-> "shown"]
      /\ replays' = Append(replays, shown) /\ source' = kind /\ mode' = "replay" /\ reading' = {}
      /\ progress' = FALSE /\ UNCHANGED <<export, saved>>
      /\ selectedTick' = IF kind = "none" THEN LastTick(d) ELSE 1
  BY DEF Show, Settle, exportVars
<1>3. loads' \in Seq(Call) /\ DOMAIN loads' = DOMAIN loads /\ loads'[c].doc = d
  BY <1>1, <1>2, CallMoves DEF Waits
<1>4. shown \in Replay /\ shown.ticks \subseteq Ticks(shown.doc)
  BY <1>1 DEF Ticks, Replay
<1>5. /\ replays' \in Seq(Replay) /\ Len(replays') = Len(replays) + 1
      /\ Len(replays) \in Nat /\ DOMAIN replays' = 1 .. Len(replays) + 1 /\ DOMAIN replays = 1 .. Len(replays)
      /\ replays'[Len(replays) + 1] = shown /\ \A i \in DOMAIN replays : replays'[i] = replays[i]
      /\ replays' # <<>>
  <2> HIDE DEF shown
  <2>1. replays \in Seq(Replay) /\ shown \in Replay /\ replays' = Append(replays, shown)
    BY <1>1, <1>2, <1>4
  <2> QED
    BY <2>1
<1>6. Shown' = shown
  BY <1>5 DEF Shown
<1>7. CallTypes'
  BY <1>2, <1>3 DEF CallTypes
<1>8. ReplayTypes'
  <2> HIDE DEF shown
  <2>1. \A i \in DOMAIN replays : replays[i].ticks \subseteq Ticks(replays[i].doc)
    BY DEF LoadInv, ReplayTypes
  <2>2. /\ export \in Export /\ export.of \in 0 .. Len(replays) /\ saved.of \in 0 .. Len(replays)
        /\ export.stage = "waiting" => export.of # 0
    BY DEF LoadInv, ReplayTypes
  <2>4. selectedTick' \in Int
    BY <1>1, <1>2
  <2>3. \A i \in DOMAIN replays' : replays'[i].ticks \subseteq Ticks(replays'[i].doc)
    BY <1>4, <1>5, <2>1
  <2> QED
    BY <1>2, <1>5, <2>2, <2>3, <2>4 DEF ReplayTypes
<1>9. WholeInv'
  <2>1. export'.of # Len(replays') /\ saved'.of # Len(replays')
    BY <1>2, <1>5 DEF LoadInv, ReplayTypes
  <2>2. kind = "none" => Complete(Shown)'
    BY <1>6 DEF Complete
  <2> QED
    BY <1>2, <2>1, <2>2 DEF WholeInv
<1>10. ProgressOwned' /\ LastToEndIsTold'
  BY <1>2, <1>3, <1>6 DEF ProgressOwned, LastToEndIsTold
<1> QED
  BY <1>7, <1>8, <1>9, <1>10 DEF LoadInv

\* A step of a call that leaves the replays and the export alone.
LEMMA CallKeeps ==
  ASSUME LoadInv, UNCHANGED <<viewVars, exportVars>>, CallTypes', ProgressOwned', LastToEndIsTold'
  PROVE  LoadInv'
<1>1. UNCHANGED <<replays, source, mode, reading, selectedTick, export, saved>>
  BY DEF viewVars, exportVars
<1>2. ReplayTypes'
  BY <1>1 DEF LoadInv, ReplayTypes, Shown
<1>3. WholeInv'
  BY <1>1 DEF LoadInv, WholeInv, Shown, Complete
<1> QED
  BY <1>2, <1>3 DEF LoadInv

LEMMA FailsKeeps ==
  ASSUME LoadInv, NEW c \in DOMAIN loads, Fails(c)
  PROVE  LoadInv'
<1>1. /\ loads \in Seq(Call) /\ progress \in BOOLEAN
  BY DEF LoadInv, CallTypes
<1>2. /\ loads' = [loads EXCEPT ![c].awaits = "nothing"] /\ ended' = [call |-> c, outcome |-> "failed"]
      /\ progress' = IF Kind(loads[c].doc) = "url" THEN FALSE ELSE progress
      /\ told' = told \cup {c} /\ UNCHANGED <<viewVars, exportVars>>
  BY DEF Fails, Settle
<1>3. /\ loads' \in Seq(Call) /\ DOMAIN loads' = DOMAIN loads
      /\ loads'[c].doc = loads[c].doc
  BY <1>1, <1>2, CallMoves DEF Waits
<1>4. CallTypes'
  BY <1>1, <1>2, <1>3 DEF CallTypes
<1>5. ProgressOwned'
  BY <1>2, <1>3 DEF ProgressOwned
<1>6. LastToEndIsTold'
  BY <1>2 DEF LastToEndIsTold
<1> QED
  BY <1>2, <1>4, <1>5, <1>6, CallKeeps

LEMMA GoesKeeps ==
  ASSUME LoadInv, NEW c \in DOMAIN loads, NEW what \in Waits \ {"nothing"}, Goes(c, what)
  PROVE  LoadInv'
<1>1. loads \in Seq(Call)
  BY DEF LoadInv, CallTypes
<1>2. /\ loads' = [loads EXCEPT ![c].awaits = what]
      /\ UNCHANGED <<progress, ended, viewVars, exportVars>>
  BY DEF Goes
<1>3. /\ loads' \in Seq(Call) /\ DOMAIN loads' = DOMAIN loads
      /\ loads'[c].awaits = what
  BY <1>1, <1>2, CallMoves
<1>4. c \in InFlight'
  BY <1>3 DEF InFlight
<1>5. CallTypes'
  BY <1>2, <1>3 DEF LoadInv, CallTypes
<1>6. ProgressOwned' /\ LastToEndIsTold'
  BY <1>4 DEF ProgressOwned, LastToEndIsTold
<1> QED
  BY <1>2, <1>5, <1>6, CallKeeps

LEMMA OpenKeeps == LoadInv /\ Open => LoadInv'
<1> SUFFICES ASSUME LoadInv, Open PROVE LoadInv'
  OBVIOUS
<1>1. loads \in Seq(Call) /\ progress \in BOOLEAN
  BY DEF LoadInv, CallTypes
<1>2. PICK d \in Docs :
        /\ loads' = Append(loads, [doc |-> d, awaits |-> IF Kind(d) = "zip" THEN "unpacking"
                                                         ELSE IF Sidecar(d) = "none" THEN "text" ELSE "sidecar"])
        /\ progress' = IF Kind(d) = "zip" THEN progress ELSE TRUE
  BY DEF Open
<1>3. UNCHANGED <<ended, viewVars, exportVars>>
  BY DEF Open
<1> PICK a : a = IF Kind(d) = "zip" THEN "unpacking" ELSE IF Sidecar(d) = "none" THEN "text" ELSE "sidecar"
  OBVIOUS
<1>4. a \in Waits \ {"nothing"} /\ loads' = Append(loads, [doc |-> d, awaits |-> a])
  BY <1>2 DEF Waits
<1>5. /\ loads' \in Seq(Call) /\ DOMAIN loads \subseteq DOMAIN loads'
      /\ Len(loads) + 1 \in DOMAIN loads' /\ loads'[Len(loads) + 1] = [doc |-> d, awaits |-> a]
  <2>1. [doc |-> d, awaits |-> a] \in Call
    BY <1>4 DEF Call
  <2>2. PICK r \in Call : r = [doc |-> d, awaits |-> a]
    BY <2>1
  <2>3. loads' = Append(loads, r)
    BY <1>4, <2>2
  <2>4. /\ loads' \in Seq(Call) /\ DOMAIN loads \subseteq DOMAIN loads'
        /\ Len(loads) + 1 \in DOMAIN loads' /\ loads'[Len(loads) + 1] = r
    BY <1>1, <2>3
  <2> QED
    BY <2>2, <2>4
<1>6. InFlight' # {}
  BY <1>4, <1>5 DEF InFlight
<1>7. CallTypes'
  BY <1>1, <1>2, <1>3, <1>5 DEF LoadInv, CallTypes
<1>8. ProgressOwned' /\ LastToEndIsTold'
  BY <1>6 DEF ProgressOwned, LastToEndIsTold
<1> QED
  BY <1>3, <1>7, <1>8, CallKeeps

LEMMA ProgressMovesKeeps ==
  ASSUME LoadInv, NEW c, ProgressMoves(c)
  PROVE  LoadInv'
<1>1. progress' = TRUE /\ UNCHANGED <<loads, ended, told, viewVars, exportVars>> /\ c \in InFlight
  BY DEF ProgressMoves, Awaiting, InFlight
<1>2. CallTypes'
  BY <1>1 DEF LoadInv, CallTypes
<1>3. c \in InFlight'
  BY <1>1 DEF InFlight
<1>4. ProgressOwned' /\ LastToEndIsTold'
  BY <1>3 DEF ProgressOwned, LastToEndIsTold
<1> QED
  BY <1>1, <1>2, <1>4, CallKeeps

LEMMA SettlesKeeps ==
  ASSUME LoadInv, NEW c, LoadSettles(c)
  PROVE  LoadInv'
<1>1. c \in DOMAIN loads
  BY DEF LoadSettles, SidecarArrives, SlicesArrive, FullTextArrives, SlicesFail, TextArrives, ReadFails, Awaiting
<1>2. CASE SidecarArrives(c) \/ SlicesFail(c)
  <2>1. \E what \in {"slices", "text"} : Goes(c, what)
    BY <1>2 DEF SidecarArrives, SlicesFail
  <2> QED
    BY <1>1, <2>1, GoesKeeps DEF Waits
<1>3. CASE SlicesArrive(c) \/ FullTextArrives(c) \/ TextArrives(c)
  <2>1. \E kind : Show(c, kind)
    BY <1>3 DEF SlicesArrive, FullTextArrives, TextArrives, loadJsonl
  <2> QED
    BY <1>1, <2>1, ShowKeeps
<1>4. CASE ReadFails(c)
  BY <1>1, <1>4, FailsKeeps DEF ReadFails
<1> QED
  BY <1>2, <1>3, <1>4 DEF LoadSettles

-----------------------------------------------------------------------------

\* Ticks of the shown replay that arrive: it grows, up to its last tick.
LEMMA ShownGrows ==
  ASSUME LoadInv, replays # <<>>, NEW batch, batch \subseteq Ticks(Shown.doc),
         replays' = [replays EXCEPT ![Len(replays)].ticks = @ \cup batch]
  PROVE  /\ replays' \in Seq(Replay) /\ Len(replays') = Len(replays) /\ replays' # <<>>
         /\ \A i \in DOMAIN replays' : replays'[i].ticks \subseteq Ticks(replays'[i].doc)
         /\ Shown'.doc = Shown.doc
         /\ Complete(Shown) => Complete(Shown)'
<1>1. /\ replays \in Seq(Replay) /\ Len(replays) \in Nat /\ DOMAIN replays = 1 .. Len(replays)
      /\ Len(replays) \in DOMAIN replays /\ replays[Len(replays)] \in Replay
      /\ \A i \in DOMAIN replays : replays[i].ticks \subseteq Ticks(replays[i].doc)
  BY DEF LoadInv, ReplayTypes
<1> DEFINE m == Len(replays)
<1>2. Ticks(Shown.doc) \subseteq Int
  <2>1. Shown.doc \in Docs
    BY <1>1 DEF Shown, Replay
  <2> QED
    BY <2>1, LoadAssumption DEF Ticks
<1>3. PICK r : r = [replays[m] EXCEPT !.ticks = @ \cup batch]
  OBVIOUS
<1>4. /\ r \in Replay /\ r.doc = Shown.doc /\ r.ticks = Shown.ticks \cup batch
      /\ Shown.ticks \subseteq Ticks(Shown.doc)
  BY <1>1, <1>2, <1>3 DEF Shown, Replay
<1>5. replays' = [replays EXCEPT ![m] = r]
  BY <1>3
<1>6. /\ replays' \in Seq(Replay) /\ DOMAIN replays' = DOMAIN replays /\ Len(replays') = m
      /\ replays'[m] = r /\ \A i \in DOMAIN replays \ {m} : replays'[i] = replays[i]
  <2>1. replays' \in Seq(Replay) /\ DOMAIN replays' = DOMAIN replays /\ Len(replays') = m
    <3>1. replays \in Seq(Replay) /\ m \in DOMAIN replays /\ r \in Replay
      BY <1>1, <1>4
    <3> DEFINE new == [replays EXCEPT ![m] = r]
    <3>2. new \in Seq(Replay) /\ DOMAIN new = DOMAIN replays /\ Len(new) = Len(replays)
      BY <3>1, ReplacedInSeq
    <3> QED
      BY <1>5, <3>2
  <2>2. replays'[m] = r /\ \A i \in DOMAIN replays \ {m} : replays'[i] = replays[i]
    BY <1>1, <1>5
  <2> QED
    BY <2>1, <2>2
<1>7. Shown' = r
  BY <1>6 DEF Shown
<1>8. \A i \in DOMAIN replays' : replays'[i].ticks \subseteq Ticks(replays'[i].doc)
  BY <1>1, <1>4, <1>6
<1>9. Complete(Shown) => Complete(Shown)'
  BY <1>4, <1>7 DEF Complete
<1>10. replays' # <<>>
  BY <1>1, <1>6
<1> QED
  BY <1>4, <1>6, <1>7, <1>8, <1>9, <1>10

\* A step of the shown replay that leaves the calls and the export alone.
LEMMA ViewKeeps ==
  ASSUME LoadInv, replays # <<>>, UNCHANGED <<loadVars, exportVars, source, mode>>,
         \/ UNCHANGED replays
         \/ \E batch \in SUBSET Ticks(Shown.doc) :
              replays' = [replays EXCEPT ![Len(replays)].ticks = @ \cup batch],
         reading' \subseteq Ticks(Shown.doc), selectedTick' \in Int
  PROVE  LoadInv'
<1>1. UNCHANGED <<loads, asked, progress, ended, told, export, saved>>
  BY DEF loadVars, exportVars
<1>2. /\ replays' \in Seq(Replay) /\ Len(replays') = Len(replays) /\ replays' # <<>>
      /\ \A i \in DOMAIN replays' : replays'[i].ticks \subseteq Ticks(replays'[i].doc)
      /\ Shown'.doc = Shown.doc
      /\ Complete(Shown) => Complete(Shown)'
  <2>1. CASE UNCHANGED replays
    BY <2>1 DEF LoadInv, ReplayTypes, Shown, Complete
  <2>2. ASSUME NEW batch \in SUBSET Ticks(Shown.doc),
               replays' = [replays EXCEPT ![Len(replays)].ticks = @ \cup batch]
        PROVE  /\ replays' \in Seq(Replay) /\ Len(replays') = Len(replays) /\ replays' # <<>>
               /\ \A i \in DOMAIN replays' : replays'[i].ticks \subseteq Ticks(replays'[i].doc)
               /\ Shown'.doc = Shown.doc
               /\ Complete(Shown) => Complete(Shown)'
    BY <2>2, ShownGrows
  <2> QED
    BY <2>1, <2>2
<1>3. CallTypes'
  BY <1>1 DEF LoadInv, CallTypes
<1>4. ReplayTypes'
  BY <1>1, <1>2 DEF LoadInv, ReplayTypes
<1>5. WholeInv'
  BY <1>1, <1>2 DEF LoadInv, WholeInv
<1>6. ProgressOwned' /\ LastToEndIsTold'
  BY <1>1, <1>2 DEF LoadInv, ProgressOwned, LastToEndIsTold, InFlight
<1> QED
  BY <1>3, <1>4, <1>5, <1>6 DEF LoadInv

\* What selecting a tick reads are ticks of the shown replay.
LEMMA SeekReads ==
  ASSUME LoadInv, replays # <<>>, NEW tick \in Int, Seek(tick)
  PROVE  /\ \/ UNCHANGED replays
            \/ \E batch \in SUBSET Ticks(Shown.doc) :
                 replays' = [replays EXCEPT ![Len(replays)].ticks = @ \cup batch]
         /\ reading' \subseteq Ticks(Shown.doc) /\ selectedTick' \in Int
<1> DEFINE top == LastTick(Shown.doc)
           bounded == IF tick < top THEN tick ELSE top
           target == IF bounded + Lookahead < top THEN bounded + Lookahead ELSE top
           missing == (1 .. target) \ Shown.ticks
<1>1. reading \subseteq Ticks(Shown.doc)
  BY DEF LoadInv, ReplayTypes
<1>2. top \in Nat
  <2>1. Shown \in Replay
    BY DEF LoadInv, ReplayTypes, Shown
  <2>2. Shown.doc \in Docs
    BY <2>1 DEF Replay
  <2> QED
    BY <2>2, LoadAssumption
<1>3. target <= top /\ target \in Int
  BY <1>2, LoadAssumption
<1>4. missing \subseteq Ticks(Shown.doc)
  <2> HIDE DEF target
  <2> QED
    BY <1>2, <1>3 DEF Ticks
<1>5. IF source = "none" \/ bounded \in Shown.ticks
      THEN UNCHANGED <<replays, reading>>
      ELSE IF source = "text"
      THEN replays' = [replays EXCEPT ![Len(replays)].ticks = @ \cup missing] /\ UNCHANGED reading
      ELSE reading' = reading \cup missing /\ UNCHANGED replays
  BY DEF Seek
<1>6. selectedTick' \in Int
  BY <1>2 DEF Seek
<1> HIDE DEF missing, bounded
<1> QED
  BY <1>1, <1>4, <1>5, <1>6

\* The steps of the export that leave the shown replay as it is or select a tick.
LEMMA ExportKeeps ==
  ASSUME LoadInv, UNCHANGED <<loadVars, source, mode>>,
         \/ UNCHANGED viewVars
         \/ replays # <<>> /\ \E tick \in Int : Seek(tick),
         export' \in Export, export'.of \in 0 .. Len(replays), export'.stage = "waiting" => export'.of # 0,
         \/ UNCHANGED saved
         \/ saved'.of = export.of /\ saved'.ticks = replays[export.of].ticks /\ export.stage = "capturing",
         \/ export'.stage # "capturing"
         \/ NothingMissing
  PROVE  LoadInv'
<1>1. UNCHANGED <<loads, asked, progress, ended, told>>
  BY DEF loadVars
<1>2. /\ replays' \in Seq(Replay) /\ Len(replays') = Len(replays) /\ (replays' # <<>> <=> replays # <<>>)
      /\ \A i \in DOMAIN replays' : replays'[i].ticks \subseteq Ticks(replays'[i].doc)
      /\ replays # <<>> => /\ Shown'.doc = Shown.doc /\ reading' \subseteq Ticks(Shown.doc)
                           /\ Complete(Shown) => Complete(Shown)'
      /\ replays = <<>> => reading' = {}
      /\ selectedTick' \in Int
  <2>1. CASE UNCHANGED viewVars
    BY <2>1 DEF LoadInv, ReplayTypes, Shown, Complete, viewVars
  <2>2. ASSUME replays # <<>>, NEW tick \in Int, Seek(tick)
        PROVE  /\ replays' \in Seq(Replay) /\ Len(replays') = Len(replays) /\ replays' # <<>>
               /\ \A i \in DOMAIN replays' : replays'[i].ticks \subseteq Ticks(replays'[i].doc)
               /\ Shown'.doc = Shown.doc /\ reading' \subseteq Ticks(Shown.doc)
               /\ Complete(Shown) => Complete(Shown)'
               /\ selectedTick' \in Int
    <3>1. /\ \/ UNCHANGED replays
             \/ \E batch \in SUBSET Ticks(Shown.doc) :
                  replays' = [replays EXCEPT ![Len(replays)].ticks = @ \cup batch]
          /\ reading' \subseteq Ticks(Shown.doc) /\ selectedTick' \in Int
      BY <2>2, SeekReads
    <3>2. CASE UNCHANGED replays
      BY <2>2, <3>1, <3>2 DEF LoadInv, ReplayTypes, Shown, Complete
    <3>3. ASSUME NEW batch \in SUBSET Ticks(Shown.doc),
                 replays' = [replays EXCEPT ![Len(replays)].ticks = @ \cup batch]
          PROVE  /\ replays' \in Seq(Replay) /\ Len(replays') = Len(replays) /\ replays' # <<>>
                 /\ \A i \in DOMAIN replays' : replays'[i].ticks \subseteq Ticks(replays'[i].doc)
                 /\ Shown'.doc = Shown.doc
                 /\ Complete(Shown) => Complete(Shown)'
      BY <2>2, <3>3, ShownGrows
    <3> QED
      BY <3>1, <3>2, <3>3
  <2> QED
    BY <2>1, <2>2
<1>3. CallTypes'
  BY <1>1 DEF LoadInv, CallTypes
<1>4. ReplayTypes'
  <2>1. saved'.of \in 0 .. Len(replays)
    BY DEF LoadInv, ReplayTypes
  <2> QED
    BY <1>2, <2>1 DEF ReplayTypes
<1>5. WholeInv'
  <2> SUFFICES ASSUME mode = "replay", replays # <<>>
               PROVE  /\ source = "none" => Complete(Shown)'
                      /\ export'.stage = "capturing" => Complete(Shown)'
                      /\ saved'.of = Len(replays) => Complete(Shown)' /\ saved'.ticks = Ticks(Shown.doc)
    BY <1>2 DEF WholeInv
  <2>1. source = "none" => Complete(Shown)
    BY DEF LoadInv, WholeInv
  <2>2. export'.stage = "capturing" => Complete(Shown)
    BY <2>1 DEF NothingMissing
  <2>3. saved'.of = Len(replays) => Complete(Shown) /\ saved'.ticks = Ticks(Shown.doc)
    <3>1. CASE UNCHANGED saved
      BY <3>1 DEF LoadInv, WholeInv
    <3>2. CASE saved'.of = export.of /\ saved'.ticks = replays[export.of].ticks /\ export.stage = "capturing"
      BY <3>2 DEF LoadInv, WholeInv, Complete, Shown
    <3> QED
      BY <3>1, <3>2
  <2> QED
    BY <1>2, <2>1, <2>2, <2>3
<1>6. ProgressOwned' /\ LastToEndIsTold'
  <2>1. ProgressOwned'
    BY <1>1 DEF LoadInv, ProgressOwned, InFlight
  <2>2. LastToEndIsTold'
    <3>1. ended.outcome = "shown" /\ InFlight = {} => Shown.doc = loads[ended.call].doc
      BY DEF LoadInv, LastToEndIsTold
    <3>2. Shown'.doc = Shown.doc
      <4>1. CASE replays = <<>>
        BY <1>2, <4>1 DEF Shown
      <4>2. CASE replays # <<>>
        BY <1>2, <4>2
      <4> QED
        BY <4>1, <4>2
    <3>3. ended.outcome = "failed" /\ InFlight = {} => ended.call \in told
      BY DEF LoadInv, LastToEndIsTold
    <3>4. InFlight' = InFlight
      BY <1>1 DEF InFlight
    <3> QED
      BY <1>1, <3>1, <3>2, <3>3, <3>4 DEF LastToEndIsTold
  <2> QED
    BY <2>1, <2>2
<1> QED
  BY <1>3, <1>4, <1>5, <1>6 DEF LoadInv

-----------------------------------------------------------------------------

LEMMA LoadNext == LoadInv /\ [Next]_vars => LoadInv'
<1> SUFFICES ASSUME LoadInv, [Next]_vars PROVE LoadInv'
  OBVIOUS
<1>1. /\ Len(replays) \in Nat /\ export \in Export /\ selectedTick \in Int
      /\ export.stage = "waiting" => export.of # 0
      /\ export.of \in 0 .. Len(replays) /\ replays \in Seq(Replay)
      /\ replays # <<>> => reading \subseteq Ticks(Shown.doc)
      /\ replays = <<>> => reading = {}
  BY DEF LoadInv, ReplayTypes
<1>2. \A tick \in Ticks(Shown.doc) : tick \in Int
  BY DEF Ticks
<1>3. CASE Open
  BY <1>3, OpenKeeps
<1>4. ASSUME NEW c \in Calls, LoadSettles(c) \/ ProgressMoves(c) PROVE LoadInv'
  BY <1>4, SettlesKeeps, ProgressMovesKeeps
<1>5. CASE SetSelectedTick
  <2>1. PICK tick \in Int : Seek(tick)
    BY <1>2, <1>5 DEF SetSelectedTick
  <2>2. replays # <<>> /\ UNCHANGED <<loadVars, exportVars, source, mode>>
    BY <1>5 DEF SetSelectedTick
  <2> QED
    BY <2>1, <2>2, SeekReads, ViewKeeps
<1>6. CASE TicksArrive
  <2>1. PICK batch \in (SUBSET reading) \ {{}} :
          /\ replays' = [replays EXCEPT ![Len(replays)].ticks = @ \cup batch]
          /\ reading' = reading \ batch
    BY <1>6 DEF TicksArrive
  <2>2. replays # <<>> /\ batch \in SUBSET Ticks(Shown.doc) /\ reading' \subseteq Ticks(Shown.doc)
    <3>1. batch \subseteq reading /\ batch # {}
      BY <2>1
    <3>2. replays # <<>>
      BY <1>1, <3>1
    <3> QED
      BY <1>1, <2>1, <3>1, <3>2
  <2>3. UNCHANGED <<loadVars, exportVars, source, mode, selectedTick>>
    BY <1>6 DEF TicksArrive
  <2> QED
    BY <1>1, <2>1, <2>2, <2>3, ViewKeeps
<1>7. CASE TicksFail
  <2>1. UNCHANGED <<loadVars, exportVars, source, mode, replays, selectedTick>> /\ reading # {} /\ reading' = {}
    BY <1>7 DEF TicksFail
  <2> QED
    BY <1>1, <2>1, ViewKeeps
<1>8. CASE AppendLiveEvents
  <2>1. mode' = "live" /\ reading' = {} /\ UNCHANGED <<replays, selectedTick, loadVars, exportVars>>
    BY <1>8 DEF AppendLiveEvents
  <2>2. UNCHANGED <<loads, progress, ended, told, export, saved>>
    BY <2>1 DEF loadVars, exportVars
  <2>3. CallTypes'
    BY <2>2 DEF LoadInv, CallTypes
  <2>4. ReplayTypes'
    BY <1>1, <2>1, <2>2 DEF LoadInv, ReplayTypes
  <2>5. WholeInv'
    BY <2>1 DEF WholeInv
  <2>6. ProgressOwned' /\ LastToEndIsTold'
    BY <2>1, <2>2 DEF LoadInv, ProgressOwned, LastToEndIsTold, InFlight, Shown
  <2> QED
    BY <2>3, <2>4, <2>5, <2>6 DEF LoadInv
<1>9. CASE StartExport
  <2>1. /\ replays # <<>>
        /\ export' = [stage |-> IF NothingMissing THEN "capturing" ELSE "waiting",
                      of |-> Len(replays), tick |-> selectedTick]
        /\ IF NothingMissing THEN UNCHANGED viewVars
           ELSE Seek(LastTick(Shown.doc)) /\ UNCHANGED <<source, mode>>
        /\ UNCHANGED <<saved, loadVars>>
    BY <1>9 DEF StartExport
  <2>2. LastTick(Shown.doc) \in Int
    <3>1. Shown \in Replay
      BY <1>1, <2>1 DEF Shown
    <3>2. Shown.doc \in Docs
      BY <3>1 DEF Replay
    <3> QED
      BY <3>2, LoadAssumption
  <2>3. UNCHANGED <<source, mode>>
    BY <2>1 DEF viewVars
  <2>4. \/ UNCHANGED viewVars
        \/ replays # <<>> /\ \E tick \in Int : Seek(tick)
    BY <2>1, <2>2
  <2>5. /\ export' \in Export /\ export'.of \in 0 .. Len(replays)
        /\ export'.stage # "capturing" \/ NothingMissing
    BY <1>1, <2>1 DEF Export
  <2>6. export'.of # 0
    BY <1>1, <2>1
  <2> QED
    BY <2>1, <2>3, <2>4, <2>5, <2>6, ExportKeeps
<1>10. CASE ContinueExport
  <2>1. /\ export.stage = "waiting" /\ NothingMissing
        /\ export' = [export EXCEPT !.stage = "capturing"]
        /\ IF export.tick # selectedTick THEN Seek(export.tick) /\ UNCHANGED <<source, mode>>
           ELSE UNCHANGED viewVars
        /\ UNCHANGED <<saved, loadVars>>
    BY <1>10 DEF ContinueExport
  <2>2. /\ export' \in Export /\ export'.of \in 0 .. Len(replays) /\ export.tick \in Int
        /\ export'.stage = "capturing"
    BY <1>1, <2>1 DEF Export
  <2>3. UNCHANGED <<source, mode>>
    BY <2>1 DEF viewVars
  <2>4. \/ UNCHANGED viewVars
        \/ replays # <<>> /\ \E tick \in Int : Seek(tick)
    <3>1. replays # <<>>
      BY <1>1, <2>1
    <3> QED
      BY <2>1, <2>2, <3>1
  <2> QED
    BY <2>1, <2>2, <2>3, <2>4, ExportKeeps
<1>11. CASE ExportTimesOut
  <2>1. export' = NoExport /\ UNCHANGED <<saved, viewVars, loadVars>>
    BY <1>11 DEF ExportTimesOut
  <2>2. /\ export' \in Export /\ export'.of \in 0 .. Len(replays)
        /\ export'.stage = "idle"
    BY <1>1, <2>1 DEF NoExport, Export
  <2> QED
    BY <2>1, <2>2, ExportKeeps DEF viewVars
<1>12. CASE FinishExport
  <2>1. /\ export.stage = "capturing" /\ export' = NoExport
        /\ saved' = [of |-> export.of, ticks |-> replays[export.of].ticks] \/ UNCHANGED saved
        /\ UNCHANGED <<viewVars, loadVars>>
    BY <1>12 DEF FinishExport
  <2>2. /\ export' \in Export /\ export'.of \in 0 .. Len(replays)
        /\ export'.stage = "idle"
    BY <1>1, <2>1 DEF NoExport, Export
  <2>3. \/ UNCHANGED saved
        \/ saved'.of = export.of /\ saved'.ticks = replays[export.of].ticks /\ export.stage = "capturing"
    BY <2>1
  <2> QED
    BY <2>1, <2>2, <2>3, ExportKeeps DEF viewVars
<1>13. CASE UNCHANGED vars
  <2>1. UNCHANGED <<viewVars, loadVars, exportVars>>
    BY <1>13 DEF vars
  <2>2. UNCHANGED <<replays, source, mode, reading, selectedTick, loads, progress, ended, told, export, saved>>
    BY <2>1 DEF viewVars, loadVars, exportVars
  <2>3. CallTypes'
    BY <2>2 DEF LoadInv, CallTypes
  <2> QED
    <3>1. ProgressOwned' /\ LastToEndIsTold'
      BY <2>2 DEF LoadInv, ProgressOwned, LastToEndIsTold, InFlight, Shown
    <3> QED
      BY <2>1, <2>3, <3>1, CallKeeps
<1> QED
  BY <1>3, <1>4, <1>5, <1>6, <1>7, <1>8, <1>9, <1>10, <1>11, <1>12, <1>13 DEF Next

LEMMA LoadAlways == Spec => []LoadInv
BY LoadInit, LoadNext, PTL DEF Spec

\* A bar with nothing loading was left by a file that could not be read.
THEOREM BarIsOwned == Spec => []ProgressOwned
<1>1. LoadInv => ProgressOwned
  BY DEF LoadInv
<1> QED
  BY <1>1, LoadAlways, PTL

\* Whatever loads overlap, the user sees what the last one to end brought.
THEOREM LastEndIsSeen == Spec => []LastToEndIsTold
<1>1. LoadInv => LastToEndIsTold
  BY DEF LoadInv
<1> QED
  BY <1>1, LoadAlways, PTL

\* The bundle of the replay that is shown holds all of it.
THEOREM ExportIsWhole == Spec => []BundleIsWhole
<1>1. LoadInv => BundleIsWhole
  <2> SUFFICES ASSUME LoadInv, saved.of # 0, saved.of = Len(replays), mode = "replay"
               PROVE  saved.ticks = Ticks(Shown.doc)
    BY DEF BundleIsWhole
  <2>1. replays # <<>>
    OBVIOUS
  <2> QED
    BY <2>1 DEF LoadInv, WholeInv
<1> QED
  BY <1>1, LoadAlways, PTL
=============================================================================
