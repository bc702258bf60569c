------------------------------ MODULE Pipeline ------------------------------
(***************************************************************************)
(* The collector and the watchdog that watches it, through the heartbeat   *)
(* keys in Redis.  The strategy and executor processes are watched too:    *)
(* here they beat or fall silent as they like (their loops are modelled in *)
(* StrategyConsumer.tla and Executor.tla).                                 *)
(***************************************************************************)
EXTENDS Collector

CONSTANT Services    \* _SERVICES, in order

ASSUME PipelineAssumption ==
  /\ Services \in Seq(STRING)
  /\ \E i \in 1 .. Len(Services) : Services[i] = "collector"

VARIABLES turn, last, heard, muted

Dog == INSTANCE Watchdog

dog   == <<turn, last, heard, muted>>
pVars == <<cVars, dog>>

PipelineTypeOK == CollectorTypeOK /\ Dog!WatchdogTypeOK

PipelineInit == CollectorInit /\ Dog!WatchdogInit

(* record_heartbeat of another service *)
OtherBeat(s) ==
  /\ s # "collector"
  /\ s \notin beats
  /\ beats' = beats \cup {s}
  /\ UNCHANGED <<backend, bar, collector, faults, dog>>

(* A key outlives its TTL: the service is dead, hung or slow. *)
ExpireBeat(s) ==
  /\ s \in beats
  /\ beats' = beats \ {s}
  /\ UNCHANGED <<backend, bar, collector, faults, dog>>

PipelineNext ==
  \/ CollectorStep /\ UNCHANGED dog
  \/ Dog!WatchdogStep /\ UNCHANGED <<backend, bar, collector>>
  \/ \E s \in Dog!ServiceSet : OtherBeat(s) \/ ExpireBeat(s)

(* The event loop of the collector, its threads and the watchdog go on, and  *)
(* docker restarts a process that ended.  No candle has to close, no key to  *)
(* expire and no call to fail.                                               *)
PipelineSpec ==
  /\ PipelineInit
  /\ [][PipelineNext]_pVars
  /\ WF_pVars(Main /\ UNCHANGED dog)
  /\ WF_pVars((\E t \in threads : CollectSymbol(t)) /\ UNCHANGED dog)
  /\ WF_pVars(Dog!CheckOnce /\ UNCHANGED <<backend, bar, collector>>)
  /\ \A s \in Dog!ServiceSet : WF_pVars(Dog!Age(s) /\ UNCHANGED <<backend, bar, collector>>)

(* The watchdog's properties, of the pipeline *)
DeadReported     == Dog!DeadReported
RecoveryReported == Dog!RecoveryReported

=============================================================================
