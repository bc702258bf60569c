----------------------------- MODULE Collector -----------------------------
(***************************************************************************)
(* The collector process (services/run_collector.py, services/collector.py)*)
(* and the candle store it fills (infra/db/quant_store.py).                *)
(*                                                                         *)
(* One cycle starts a thread per symbol, waits for all of them, publishes  *)
(* the newest candle of each symbol as a tick and records a heartbeat.  A  *)
(* thread that raises ends the wait at once and leaves the other threads   *)
(* running, possibly into later cycles.  The symbols share nothing else:   *)
(* the module follows one of them, and has the others raise.               *)
(*                                                                         *)
(* A bar is a candle by its number.  All that matters of a stored candle   *)
(* is whether it was fetched while the exchange was still forming it.  The *)
(* rows of pipeline_runs, raw_ticker, raw_orderbook_top, raw_public_trades,*)
(* raw_funding_rates, raw_open_interest and feature_bar are read by no     *)
(* process: of their writes only the failure is modelled.                  *)
(***************************************************************************)
EXTENDS Integers, Sequences, FiniteSets

CONSTANTS
  MaxBar,     \* bound on the bars
  Window,     \* candles in one answer of get_kline (300)
  MaxFaults   \* bound on failed calls and kills

ASSUME CollectorAssumption ==
  /\ MaxBar \in Nat /\ MaxFaults \in Nat
  /\ Window \in Nat \ {0}

VARIABLES
  backend,    \* DATABASE_URL: the store in use
  bar,        \* exchange: the candle being formed
  store,      \* raw_ohlcv: how each bar is stored
  threads,    \* running calls of collect_symbol, for the symbol followed
  pc,         \* where _async_main is
  tick,       \* bar of the last tick published, -1 before the first
  overlap,    \* history: an earlier cycle's thread ran when this cycle began
  beats,      \* services whose heartbeat key exists
  faults      \* failures so far

collector == <<store, threads, pc, tick, overlap>>
cVars     == <<backend, bar, collector, beats, faults>>

Bars   == 0 .. MaxBar
Forms  == {"none", "forming", "final"}
Thread == [at   : {"fetch", "write", "features"},
           seen : Bars,              \* newest bar of the answer to get_kline
           late : 0 .. MaxFaults]    \* 0, or the failure that orphaned it

CollectorTypeOK ==
  /\ backend \in {"sqlite", "postgres"}
  /\ bar \in Bars
  /\ store \in [Bars -> Forms]
  /\ threads \subseteq Thread
  /\ pc \in {"start", "collect", "ticks", "beat", "failed", "exiting"}
  /\ tick \in Bars \cup {-1}
  /\ overlap \in BOOLEAN
  /\ faults \in 0 .. MaxFaults
  /\ \A b \in Bars : store[b] # "none" => b <= bar

CollectorInit ==
  /\ backend \in {"sqlite", "postgres"}
  /\ bar = 0
  /\ store = [b \in Bars |-> "none"]
  /\ threads = {}
  /\ pc = "start"
  /\ tick = -1
  /\ overlap = FALSE
  /\ beats = {}
  /\ faults = 0

Fault  == faults < MaxFaults /\ faults' = faults + 1
Smooth == UNCHANGED faults

-----------------------------------------------------------------------------
(* Definitions named ...Bug are the definition that follows them with one    *)
(* plausible mistake; no other definition uses them.                         *)

(* get_kline: the last Window candles, the newest of them still forming *)
Kline(newest) == [b \in Bars |-> IF b > newest \/ b <= newest - Window THEN "none"
                                 ELSE IF b = newest THEN "forming" ELSE "final"]

InsertManyBug(old, rows) ==                         \* as PostgreSQL does, on both
  [b \in Bars |-> IF old[b] = "none" THEN rows[b] ELSE old[b]]

(* insert_many: INSERT OR REPLACE on SQLite, ON CONFLICT DO NOTHING on PostgreSQL *)
InsertMany(old, rows) ==
  [b \in Bars |-> IF rows[b] = "none" \/ (backend = "postgres" /\ old[b] # "none")
                  THEN old[b] ELSE rows[b]]

(* _latest_tick: fetch_ohlcv with limit 1 *)
Newest(rows) == CHOOSE n \in Bars \cup {-1} :
                  /\ n # -1 => rows[n] # "none"
                  /\ \A b \in Bars : rows[b] # "none" => b <= n

-----------------------------------------------------------------------------
(* collect_symbol, in a thread of its own *)

Advance(t, at) == threads' = (threads \ {t}) \cup {[t EXCEPT !.at = at]}

(* _collect_ohlcv asks for the candles; an error is logged and swallowed. *)
FetchKline(t) ==
  /\ t.at = "fetch"
  /\ \/ threads' = (threads \ {t}) \cup {[t EXCEPT !.at = "write", !.seen = bar]} /\ Smooth
     \/ Advance(t, "features") /\ Fault
  /\ UNCHANGED <<store, pc>>

(* _collect_ohlcv stores them; again an error is swallowed. *)
StoreKline(t) ==
  /\ t.at = "write"
  /\ Advance(t, "features")
  /\ \/ store' = InsertMany(store, Kline(t.seen)) /\ Smooth
     \/ UNCHANGED store /\ Fault
  /\ UNCHANGED pc

(* _compute_features, and the thread is done. *)
ComputeFeatures(t) ==
  /\ t.at = "features"
  /\ threads' = threads \ {t}
  /\ Smooth
  /\ UNCHANGED <<store, pc>>

Orphan(t) == IF t.late = 0 THEN [t EXCEPT !.late = faults'] ELSE t

(* The store fails outside a try: under _collect_orderbook_top or             *)
(* _collect_public_trades, before the candles, or under _compute_features.    *)
(* gather raises in the cycle that waits for the thread and forgets the rest. *)
Raise(t) ==
  /\ t.at \in {"fetch", "features"}
  /\ Fault
  /\ IF t.late = 0
     THEN /\ threads' = {Orphan(u) : u \in threads \ {t}}
          /\ pc' = "failed"
     ELSE /\ threads' = threads \ {t}
          /\ UNCHANGED pc
  /\ UNCHANGED store

(* The thread of another symbol raises. *)
OtherRaises ==
  /\ pc = "collect"
  /\ Fault
  /\ threads' = {Orphan(u) : u \in threads}
  /\ pc' = "failed"
  /\ UNCHANGED <<backend, bar, store, tick, overlap, beats>>

CollectSymbol(t) == /\ FetchKline(t) \/ StoreKline(t) \/ ComputeFeatures(t) \/ Raise(t)
                    /\ UNCHANGED <<backend, bar, tick, overlap, beats>>

-----------------------------------------------------------------------------
(* _async_main *)

(* start_run is outside the try: its failure ends the process. *)
StartRun ==
  /\ pc = "start"
  /\ \/ /\ pc' = "collect"
        /\ threads' = threads \cup {[at |-> "fetch", seen |-> 0, late |-> 0]}
        /\ overlap' = \E t \in threads : t.late > 0
        /\ Smooth
     \/ pc' = "exiting" /\ UNCHANGED <<threads, overlap>> /\ Fault
  /\ UNCHANGED <<store, tick, beats>>

GatheredBug ==                                      \* the cycle does not wait
  /\ pc = "collect"
  /\ \/ pc' = "ticks" /\ Smooth
     \/ pc' = "failed" /\ Fault
  /\ UNCHANGED <<store, threads, tick, overlap, beats>>

(* Every thread of the cycle has returned; end_run("success") may raise. *)
Gathered ==
  /\ pc = "collect"
  /\ \A t \in threads : t.late > 0
  /\ \/ pc' = "ticks" /\ Smooth
     \/ pc' = "failed" /\ Fault
  /\ UNCHANGED <<store, threads, tick, overlap, beats>>

(* _latest_tick and queue_push, for every symbol in turn: the newest stored *)
(* candle goes to the queue, if there is one.  A push that raises may have  *)
(* been carried out, and another symbol's may raise before this one's.      *)
PublishTick ==
  /\ pc = "ticks"
  /\ \/ tick' = Newest(store) /\ pc' = "beat" /\ Smooth
     \/ /\ Fault /\ pc' = "failed"
        /\ tick' = Newest(store) \/ UNCHANGED tick
  /\ UNCHANGED <<store, threads, overlap, beats>>

(* record_heartbeat swallows its errors. *)
RecordHeartbeat ==
  /\ pc = "beat"
  /\ pc' = "start"
  /\ \/ beats' = beats \cup {"collector"} /\ Smooth
     \/ UNCHANGED beats /\ Fault
  /\ UNCHANGED <<store, threads, tick, overlap>>

(* end_run("error") in the handler of the exception; its own failure ends  *)
(* the process.                                                            *)
EndFailedRun ==
  /\ pc = "failed"
  /\ \/ pc' = "start" /\ Smooth
     \/ pc' = "exiting" /\ Fault
  /\ UNCHANGED <<store, threads, tick, overlap, beats>>

(* asyncio.run joins the threads that still run; then docker restarts. *)
Restart ==
  /\ pc = "exiting"
  /\ threads = {}
  /\ pc' = "start"
  /\ Smooth
  /\ UNCHANGED <<store, threads, tick, overlap, beats>>

Kill ==
  /\ pc # "exiting"
  /\ pc' = "exiting"
  /\ threads' = {}
  /\ Fault
  /\ UNCHANGED <<backend, bar, store, tick, overlap, beats>>

Main == /\ \/ StartRun \/ Gathered \/ PublishTick \/ RecordHeartbeat
           \/ EndFailedRun \/ Restart
        /\ UNCHANGED <<backend, bar>>

(* The exchange closes a candle and opens the next. *)
CloseBar ==
  /\ bar < MaxBar
  /\ bar' = bar + 1
  /\ UNCHANGED <<backend, collector, beats, faults>>

CollectorStep == Main \/ (\E t \in threads : CollectSymbol(t)) \/ OtherRaises \/ Kill
                 \/ CloseBar

-----------------------------------------------------------------------------
(* Properties *)

Closed == {b \in Bars : b < bar /\ b > bar - Window}

(* A closed candle in the store is overwritten with an older answer only if  *)
(* a thread that a failed cycle left running was still at work when the      *)
(* current cycle began: otherwise the threads of a cycle never race those of *)
(* another.                                                                  *)
NoRegress ==
  [][\A b \in Bars : store[b] = "final" /\ store'[b] # "final" => overlap]_cVars

(* Whatever fails or dies, once failures cease the ticks follow the exchange *)
(* again, and every closed candle that get_kline still answers is stored,    *)
(* orphaned threads notwithstanding: on SQLite as it closed, on PostgreSQL,  *)
(* which never updates a row, perhaps as it was while it was being formed.   *)
CatchesUp ==
  <>[](tick = bar /\ \A b \in Closed : store[b] \in (IF backend = "sqlite" THEN {"final"}
                                                     ELSE {"final", "forming"}))

=============================================================================
