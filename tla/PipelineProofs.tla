--------------------------- MODULE PipelineProofs ---------------------------
(***************************************************************************)
(* What holds of Pipeline.tla for any number of bars, any length of the    *)
(* answers of get_kline, any watched services and any number of failures.  *)
(***************************************************************************)
EXTENDS Pipeline, SumTheorems

-----------------------------------------------------------------------------
(* Threads and the candles they bring *)

(* A thread has seen no candle the exchange has not opened.  It belongs to   *)
(* the cycle that waits for it or is an orphan; without an overlap there is  *)
(* no other thread, for a cycle that begins over an orphan is an overlap.    *)
ThreadInv ==
  /\ \A t \in threads : t.seen <= bar /\ (t.late = 0 => pc = "collect")
  /\ ~overlap => \A t, u \in threads : t = u

(* A candle stored as final is closed.  Without an overlap whoever is about  *)
(* to write asked for the candles after every such candle had closed.        *)
StoreInv ==
  /\ \A b \in Bars : store[b] = "final" => b < bar
  /\ ~overlap => \A t \in threads, b \in Bars :
                   t.at = "write" /\ store[b] = "final" => b < t.seen

CollectorInv == CollectorTypeOK /\ ThreadInv /\ StoreInv

(* The newest stored candle is a candle, or -1 when none is stored. *)
LEMMA NewestIs == ASSUME NEW rows PROVE Newest(rows) \in Bars \cup {-1}
<1> DEFINE Above == {n \in Nat : \A b \in Bars : rows[b] # "none" => b < n}
           Is(n) == /\ n # -1 => rows[n] # "none"
                    /\ \A b \in Bars : rows[b] # "none" => b <= n
<1>1. MaxBar + 1 \in Above
  BY CollectorAssumption DEF Bars
<1>2. PICK n \in Above : \A k \in Above : n <= k
  BY <1>1, LeastNatural
<1>3. \E m \in Bars \cup {-1} : Is(m)
  <2>1. CASE n = 0
    BY <1>2, <2>1 DEF Bars
  <2>2. CASE n # 0
    <3>1. n - 1 \in Nat /\ n - 1 \notin Above
      BY <1>2, <2>2
    <3>2. PICK b \in Bars : rows[b] # "none" /\ ~(b < n - 1)
      BY <3>1
    <3>3. b = n - 1
      BY <1>2, <3>1, <3>2 DEF Bars
    <3>4. Is(b)
      BY <1>2, <3>2, <3>3 DEF Bars
    <3> QED
      BY <3>4
  <2> QED
    BY <2>1, <2>2
<1> QED
  BY <1>3 DEF Newest

(* A failure is counted within the bound, and is not the number 0. *)
LEMMA FaultIs ==
  ASSUME CollectorTypeOK
  PROVE  /\ Fault => faults' \in 0 .. MaxFaults /\ faults' > 0
         /\ Smooth => faults' \in 0 .. MaxFaults
  BY CollectorAssumption DEF CollectorTypeOK, Fault, Smooth

(* A failed cycle makes its threads orphans and nothing else of them. *)
LEMMA OrphanIs ==
  ASSUME CollectorTypeOK, Fault, NEW t \in Thread
  PROVE  /\ Orphan(t) \in Thread /\ Orphan(t).late > 0
         /\ Orphan(t).at = t.at /\ Orphan(t).seen = t.seen
  BY FaultIs DEF Orphan, Thread

(* Candles stored after an answer whose newest is m: none is new beyond m,   *)
(* and none but m can turn back from final.                                  *)
LEMMA InsertIs ==
  ASSUME CollectorTypeOK, NEW m \in Bars, store' = InsertMany(store, Kline(m))
  PROVE  /\ store' \in [Bars -> Forms]
         /\ \A b \in Bars : store'[b] # store[b] => b <= m
         /\ \A b \in Bars : store'[b] = "final" => store[b] = "final" \/ b < m
         /\ \A b \in Bars : store[b] = "final" /\ store'[b] # "final" => b = m
<1>1. Kline(m) \in [Bars -> Forms]
  BY DEF Kline, Forms
<1>2. /\ store' = [b \in Bars |-> IF Kline(m)[b] = "none" \/ (backend = "postgres" /\ store[b] # "none")
                                  THEN store[b] ELSE Kline(m)[b]]
      /\ store \in [Bars -> Forms]
  BY DEF InsertMany, CollectorTypeOK
<1>3. \A b \in Bars : /\ Kline(m)[b] # "none" => b <= m
                      /\ Kline(m)[b] = "final" => b < m
                      /\ Kline(m)[b] = "forming" => b = m
                      /\ Kline(m)[b] \in {"none", "forming", "final"}
  BY CollectorAssumption DEF Kline, Bars
<1> HIDE DEF Kline
<1> QED
  BY <1>1, <1>2, <1>3

-----------------------------------------------------------------------------
(* Every step keeps the invariant *)

(* The threads of the symbol followed *)
LEMMA ThreadStep ==
  ASSUME CollectorInv, NEW t \in threads, CollectSymbol(t)
  PROVE  CollectorInv'
<1> USE DEF CollectorInv
<1>0. /\ UNCHANGED <<backend, bar, tick, overlap, beats>> /\ CollectorTypeOK
      /\ t \in Thread /\ threads \subseteq Thread /\ bar \in Bars
      /\ t.seen <= bar /\ (t.late = 0 => pc = "collect")
  BY DEF CollectSymbol, CollectorTypeOK, ThreadInv
<1> DEFINE Next(at) == [t EXCEPT !.at = at]
           Read     == [t EXCEPT !.at = "write", !.seen = bar]
<1>1. CASE FetchKline(t)
  <2>1. UNCHANGED <<store, pc>> /\ faults' \in 0 .. MaxFaults
    BY <1>0, <1>1, FaultIs DEF FetchKline
  <2>2. CASE threads' = (threads \ {t}) \cup {Read}
    <3>1. Read \in Thread /\ Read.seen = bar /\ Read.late = t.late /\ Read.at = "write"
      BY <1>0 DEF Thread
    <3> HIDE DEF Read
    <3>2. CollectorTypeOK'
      BY <1>0, <2>1, <2>2, <3>1 DEF CollectorTypeOK
    <3>3. ThreadInv'
      BY <1>0, <2>1, <2>2, <3>1 DEF ThreadInv, Bars
    <3>4. StoreInv'
      BY <1>0, <2>1, <2>2, <3>1 DEF StoreInv, ThreadInv
    <3> QED
      BY <3>2, <3>3, <3>4
  <2>3. CASE Advance(t, "features")
    <3>1. Next("features") \in Thread /\ Next("features").seen = t.seen
          /\ Next("features").late = t.late /\ Next("features").at = "features"
          /\ threads' = (threads \ {t}) \cup {Next("features")}
      BY <1>0, <2>3 DEF Thread, Advance
    <3> HIDE DEF Next
    <3>2. CollectorTypeOK'
      BY <1>0, <2>1, <3>1 DEF CollectorTypeOK
    <3>3. ThreadInv'
      BY <1>0, <2>1, <3>1 DEF ThreadInv
    <3>4. StoreInv'
      BY <1>0, <2>1, <3>1 DEF StoreInv
    <3> QED
      BY <3>2, <3>3, <3>4
  <2> QED
    BY <1>1, <2>2, <2>3 DEF FetchKline
<1>2. CASE StoreKline(t)
  <2>1. /\ Next("features") \in Thread /\ Next("features").seen = t.seen
        /\ Next("features").late = t.late /\ Next("features").at = "features"
        /\ threads' = (threads \ {t}) \cup {Next("features")}
        /\ UNCHANGED pc /\ faults' \in 0 .. MaxFaults
    BY <1>0, <1>2, FaultIs DEF Thread, Advance, StoreKline
  <2> HIDE DEF Next
  <2>2. /\ store' \in [Bars -> Forms]
        /\ \A b \in Bars : store'[b] # store[b] => b <= t.seen
        /\ \A b \in Bars : store'[b] = "final" => store[b] = "final" \/ b < t.seen
    <3>1. CASE store' = store
      BY <1>0, <3>1 DEF CollectorTypeOK
    <3>2. CASE store' = InsertMany(store, Kline(t.seen))
      BY <1>0, <3>2, InsertIs DEF Thread
    <3> QED
      BY <1>2, <3>1, <3>2 DEF StoreKline
  <2>3. t.seen \in Bars
    BY <1>0 DEF Thread
  <2>4. CollectorTypeOK'
    BY <1>0, <2>1, <2>2, <2>3 DEF CollectorTypeOK, Bars
  <2>5. ThreadInv'
    BY <1>0, <2>1 DEF ThreadInv
  <2>6. StoreInv'
    BY <1>0, <2>1, <2>2, <2>3 DEF StoreInv, ThreadInv, Bars
  <2> QED
    BY <2>4, <2>5, <2>6
<1>3. CASE threads' = threads \ {t} /\ UNCHANGED <<store, pc>> /\ faults' \in 0 .. MaxFaults
  BY <1>0, <1>3 DEF CollectorTypeOK, ThreadInv, StoreInv
<1>4. CASE /\ t.late = 0 /\ Fault /\ pc' = "failed" /\ UNCHANGED store
           /\ threads' = {Orphan(u) : u \in threads \ {t}}
  <2>1. \A u \in threads : /\ Orphan(u) \in Thread /\ Orphan(u).late > 0
                           /\ Orphan(u).at = u.at /\ Orphan(u).seen = u.seen
    BY <1>0, <1>4, OrphanIs
  <2>2. faults' \in 0 .. MaxFaults
    BY <1>0, <1>4, FaultIs
  <2> HIDE DEF Orphan
  <2> QED
    BY <1>0, <1>4, <2>1, <2>2 DEF CollectorTypeOK, ThreadInv, StoreInv
<1> QED
  BY <1>0, <1>1, <1>2, <1>3, <1>4, FaultIs DEF CollectSymbol, ComputeFeatures, Raise

(* The main loop *)
LEMMA MainStep == ASSUME CollectorInv, Main PROVE CollectorInv'
<1> USE DEF CollectorInv
<1>0. UNCHANGED <<backend, bar>> /\ CollectorTypeOK
  BY DEF Main
<1>1. faults' \in 0 .. MaxFaults
  BY <1>0, FaultIs DEF Main, StartRun, Gathered, PublishTick, RecordHeartbeat, EndFailedRun, Restart
<1>2. CASE StartRun
  <2>1. CASE pc' = "exiting" /\ UNCHANGED <<store, threads, tick, overlap>>
    BY <1>0, <1>1, <1>2, <2>1 DEF StartRun, CollectorTypeOK, ThreadInv, StoreInv
  <2>2. CASE /\ pc' = "collect" /\ UNCHANGED <<store, tick>>
             /\ threads' = threads \cup {[at |-> "fetch", seen |-> 0, late |-> 0]}
             /\ overlap' = \E t \in threads : t.late > 0
    <3> DEFINE new == [at |-> "fetch", seen |-> 0, late |-> 0]
    <3>1. new \in Thread /\ new.seen = 0 /\ new.late = 0 /\ new.at = "fetch"
      BY CollectorAssumption DEF Thread, Bars
    <3>2. threads' = threads \cup {new}
      BY <2>2
    <3> HIDE DEF new
    <3>3. \A t \in threads : t.late > 0
      BY <1>0, <1>2 DEF StartRun, ThreadInv, CollectorTypeOK, Thread
    <3>4. ~overlap' => threads' = {new}
      BY <2>2, <3>2, <3>3
    <3>5. CollectorTypeOK'
      BY <1>0, <1>1, <2>2, <3>1, <3>2 DEF CollectorTypeOK
    <3>6. ThreadInv'
      BY <1>0, <2>2, <3>1, <3>2, <3>4 DEF ThreadInv, CollectorTypeOK, Bars
    <3>7. StoreInv'
      BY <1>0, <2>2, <3>1, <3>2, <3>4 DEF StoreInv
    <3> QED
      BY <3>5, <3>6, <3>7
  <2> QED
    BY <1>2, <2>1, <2>2 DEF StartRun
<1>3. CASE /\ UNCHANGED <<store, threads, overlap>>
           /\ tick' \in Bars \cup {-1}
           /\ pc' \in {"start", "ticks", "beat", "failed", "exiting"}
           /\ \A t \in threads : t.late > 0
  BY <1>0, <1>1, <1>3 DEF CollectorTypeOK, ThreadInv, StoreInv
<1>4. pc # "collect" => \A t \in threads : t.late > 0
  BY <1>0 DEF ThreadInv, CollectorTypeOK, Thread
<1>5. CASE Gathered \/ RecordHeartbeat \/ EndFailedRun \/ Restart
  BY <1>0, <1>3, <1>4, <1>5 DEF Gathered, RecordHeartbeat, EndFailedRun, Restart, CollectorTypeOK
<1>6. CASE PublishTick
  <2>1. tick' \in Bars \cup {-1}
    BY <1>0, <1>6, NewestIs DEF PublishTick, CollectorTypeOK
  <2> QED
    BY <1>3, <1>4, <1>6, <2>1 DEF PublishTick
<1> QED
  BY <1>2, <1>5, <1>6 DEF Main

(* The steps of the other symbols, of docker and of the exchange *)
LEMMA OutsideStep == ASSUME CollectorInv, OtherRaises \/ Kill \/ CloseBar PROVE CollectorInv'
<1> USE DEF CollectorInv
<1>1. CASE OtherRaises
  <2>1. \A u \in threads : /\ Orphan(u) \in Thread /\ Orphan(u).late > 0
                           /\ Orphan(u).at = u.at /\ Orphan(u).seen = u.seen
    BY <1>1, OrphanIs DEF OtherRaises, CollectorTypeOK
  <2>2. faults' \in 0 .. MaxFaults
    BY <1>1, FaultIs DEF OtherRaises
  <2> HIDE DEF Orphan
  <2> QED
    BY <1>1, <2>1, <2>2 DEF OtherRaises, CollectorTypeOK, ThreadInv, StoreInv
<1>2. CASE Kill
  BY <1>2, FaultIs DEF Kill, CollectorTypeOK, ThreadInv, StoreInv
<1>3. CASE CloseBar
  <2>1. /\ bar \in Bars /\ bar' = bar + 1 /\ bar' \in Bars
        /\ UNCHANGED <<backend, store, threads, pc, tick, overlap, faults>>
    BY <1>3, CollectorAssumption DEF CloseBar, collector, CollectorTypeOK, Bars
  <2>2. CollectorTypeOK'
    BY <2>1 DEF CollectorTypeOK, Bars
  <2>3. ThreadInv'
    BY <2>1 DEF ThreadInv, CollectorTypeOK, Thread, Bars
  <2>4. StoreInv'
    BY <2>1 DEF StoreInv, Bars
  <2> QED
    BY <2>2, <2>3, <2>4
<1> QED
  BY <1>1, <1>2, <1>3

(* The watchdog and the heartbeats change nothing of it but count failures. *)
LEMMA BesideStep ==
  ASSUME CollectorInv, UNCHANGED <<backend, bar, collector>>, faults' \in 0 .. MaxFaults
  PROVE  CollectorInv'
  BY DEF CollectorInv, CollectorTypeOK, ThreadInv, StoreInv, collector

(* Every step of the pipeline keeps the collector's invariant. *)
LEMMA CollectorKept ==
  ASSUME CollectorInv, [PipelineNext]_pVars
  PROVE  CollectorInv'
<1>0. CollectorTypeOK
  BY DEF CollectorInv
<1>1. CASE CollectorStep
  BY <1>1, MainStep, ThreadStep, OutsideStep DEF CollectorStep
<1>2. CASE Dog!WatchdogStep /\ UNCHANGED <<backend, bar, collector>>
  <2>1. Dog!Smooth \/ Dog!Fault
    BY <1>2 DEF Dog!WatchdogStep, Dog!CheckOnce, Dog!BeginCheck, Dog!LostRedis, Dog!Alert,
                Dog!Silent, Dog!Recovery, Dog!WatchdogCrash, Dog!Age
  <2>2. faults' \in 0 .. MaxFaults
    BY <1>0, <2>1, FaultIs DEF Dog!Smooth, Dog!Fault, Smooth, Fault
  <2> QED
    BY <1>2, <2>2, BesideStep
<1>3. CASE \E s \in Dog!ServiceSet : OtherBeat(s) \/ ExpireBeat(s)
  BY <1>0, <1>3, BesideStep DEF OtherBeat, ExpireBeat, CollectorTypeOK
<1>4. CASE UNCHANGED pVars
  BY <1>0, <1>4, BesideStep DEF pVars, cVars, CollectorTypeOK
<1> QED
  BY <1>1, <1>2, <1>3, <1>4 DEF PipelineNext

-----------------------------------------------------------------------------
(* The watchdog *)

(* While it is at a service, that is one of the list. *)
LEMMA ServiceIs ==
  ASSUME turn \in 1 .. Len(Services)
  PROVE  Dog!Service \in Dog!ServiceSet
  BY DEF Dog!Service, Dog!ServiceSet

(* A check takes one service after the other and begins again at the end. *)
LEMMA TurnIs ==
  ASSUME turn \in 0 .. Len(Services)
  PROVE  /\ Dog!NextTurn => turn' \in 0 .. Len(Services)
         /\ Dog!GiveUp => turn' \in 0 .. Len(Services)
<1>1. Len(Services) \in Nat
  BY PipelineAssumption
<1> QED
  BY <1>1 DEF Dog!NextTurn, Dog!GiveUp

(* Only services of the list are watched, remembered and reported. *)
LEMMA WatchdogType ==
  ASSUME Dog!WatchdogTypeOK, Dog!WatchdogStep
  PROVE  Dog!WatchdogTypeOK'
<1> DEFINE T == Dog!ServiceSet
<1>0. /\ turn \in 0 .. Len(Services) /\ beats \subseteq T /\ muted \subseteq T
      /\ last \in [T -> {"none", "recent", "old"}] /\ heard \in [T -> {"up", "down"}]
      /\ Len(Services) \in Nat
  BY PipelineAssumption DEF Dog!WatchdogTypeOK
<1>1. SUFFICES /\ turn' \in 0 .. Len(Services) /\ beats' \subseteq T /\ muted' \subseteq T
               /\ last' \in [T -> {"none", "recent", "old"}] /\ heard' \in [T -> {"up", "down"}]
  BY DEF Dog!WatchdogTypeOK, Dog!ServiceSet
<1>2. turn > 0 => Dog!Service \in T
  BY <1>0, ServiceIs
<1> HIDE DEF T
<1>3. CASE Dog!BeginCheck
  <2>1. Len(Services) >= 1
    BY <1>0, PipelineAssumption
  <2> QED
    BY <1>0, <1>3, <2>1 DEF Dog!BeginCheck
<1>4. CASE Dog!LostRedis \/ Dog!Silent
  BY <1>0, <1>4, TurnIs DEF Dog!LostRedis, Dog!Silent
<1>5. CASE Dog!Alert
  <2>1. turn' \in 0 .. Len(Services)
    BY <1>0, <1>5, TurnIs DEF Dog!Alert
  <2> QED
    BY <1>0, <1>2, <1>5, <2>1 DEF Dog!Alert
<1>6. CASE Dog!Recovery
  <2>1. turn' \in 0 .. Len(Services)
    BY <1>0, <1>6, TurnIs DEF Dog!Recovery
  <2> QED
    BY <1>0, <1>2, <1>6, <2>1 DEF Dog!Recovery
<1>7. CASE Dog!WatchdogCrash
  BY <1>0, <1>7 DEF Dog!WatchdogCrash, T
<1>8. ASSUME NEW s \in T, Dog!Age(s)
      PROVE  /\ turn' \in 0 .. Len(Services) /\ beats' \subseteq T /\ muted' \subseteq T
             /\ last' \in [T -> {"none", "recent", "old"}] /\ heard' \in [T -> {"up", "down"}]
  BY <1>0, <1>8 DEF Dog!Age
<1> QED
  BY <1>3, <1>4, <1>5, <1>6, <1>7, <1>8 DEF Dog!WatchdogStep, Dog!CheckOnce, T

(* Services beat under their names; the collector is one of them. *)
LEMMA PipelineStep ==
  ASSUME CollectorInv, Dog!WatchdogTypeOK, [PipelineNext]_pVars
  PROVE  CollectorInv' /\ Dog!WatchdogTypeOK'
<1>1. "collector" \in Dog!ServiceSet
  BY PipelineAssumption DEF Dog!ServiceSet
<1>2. CASE CollectorStep /\ UNCHANGED dog
  <2>1. beats' \subseteq beats \cup {"collector"}
    BY <1>2 DEF CollectorStep, Main, StartRun, Gathered, PublishTick, RecordHeartbeat,
                EndFailedRun, Restart, CollectSymbol, OtherRaises, Kill, CloseBar
  <2> QED
    BY <1>1, <1>2, <2>1, CollectorKept DEF Dog!WatchdogTypeOK, Dog!ServiceSet, dog
<1>3. CASE Dog!WatchdogStep
  BY <1>3, WatchdogType, CollectorKept
<1>4. CASE \E s \in Dog!ServiceSet : OtherBeat(s) \/ ExpireBeat(s)
  BY <1>4, CollectorKept DEF OtherBeat, ExpireBeat, Dog!WatchdogTypeOK, Dog!ServiceSet, dog
<1>5. CASE UNCHANGED pVars
  BY <1>5, CollectorKept DEF Dog!WatchdogTypeOK, Dog!ServiceSet, pVars, cVars, dog
<1> QED
  BY <1>2, <1>3, <1>4, <1>5 DEF PipelineNext

(* The invariant holds in every reachable state of the pipeline. *)
LEMMA PipelineKnown == PipelineSpec => [](CollectorInv /\ Dog!WatchdogTypeOK)
<1>1. PipelineInit => CollectorInv
  <2> SUFFICES ASSUME CollectorInit PROVE CollectorInv
    BY DEF PipelineInit
  <2> USE DEF CollectorInit
  <2>1. CollectorTypeOK
    <3>1. 0 \in Bars /\ 0 \in 0 .. MaxFaults
      BY CollectorAssumption DEF Bars
    <3>2. store \in [Bars -> Forms] /\ \A b \in Bars : store[b] = "none"
      BY DEF Forms
    <3> QED
      BY <3>1, <3>2 DEF CollectorTypeOK
  <2>2. ThreadInv /\ StoreInv
    BY DEF ThreadInv, StoreInv
  <2> QED
    BY <2>1, <2>2 DEF CollectorInv
<1>2. PipelineInit => Dog!WatchdogTypeOK
  <2>1. Len(Services) \in Nat
    BY PipelineAssumption
  <2> QED
    BY <2>1 DEF PipelineInit, CollectorInit, Dog!WatchdogInit, Dog!WatchdogTypeOK
<1> QED
  BY <1>1, <1>2, PipelineStep, PTL DEF PipelineSpec

-----------------------------------------------------------------------------
(* Theorems *)

(* The collector, its store and the watchdog are well typed, no stored bar   *)
(* lies beyond the one the exchange is forming, and the watchdog only ever   *)
(* looks at a service of its list.                                           *)
THEOREM TypeCorrect == PipelineSpec => []PipelineTypeOK
<1>1. CollectorInv /\ Dog!WatchdogTypeOK => PipelineTypeOK
  BY DEF CollectorInv, PipelineTypeOK
<1> QED
  BY <1>1, PipelineKnown, PTL

(* Threads of one cycle never take a closed candle back: that needs a thread *)
(* left over from a failed cycle, at work when the current one began.        *)
THEOREM ClosedCandlesStay == PipelineSpec => NoRegress
<1>1. CollectorInv /\ [PipelineNext]_pVars =>
        [\A b \in Bars : store[b] = "final" /\ store'[b] # "final" => overlap]_cVars
  <2> SUFFICES ASSUME CollectorInv, [PipelineNext]_pVars, NEW b \in Bars,
                      store[b] = "final", store'[b] # "final"
               PROVE  overlap
    OBVIOUS
  <2>1. CollectorStep
    BY DEF PipelineNext, OtherBeat, ExpireBeat, pVars, cVars, collector
  <2>2. PICK t \in threads : StoreKline(t)
    BY <2>1 DEF CollectorStep, Main, StartRun, Gathered, PublishTick, RecordHeartbeat,
                EndFailedRun, Restart, CollectSymbol, FetchKline, ComputeFeatures, Raise,
                OtherRaises, Kill, CloseBar, collector
  <2>3. t.at = "write" /\ store' = InsertMany(store, Kline(t.seen))
    BY <2>2 DEF StoreKline
  <2>4. CollectorTypeOK /\ t.seen \in Bars
    BY DEF CollectorInv, CollectorTypeOK, Thread
  <2>5. b = t.seen
    BY <2>3, <2>4, InsertIs
  <2> QED
    BY <2>3, <2>5 DEF CollectorInv, StoreInv, Bars
<1> QED
  BY <1>1, PipelineKnown, PTL DEF PipelineSpec, NoRegress

=============================================================================
