-------------------------- MODULE StrategySettings --------------------------
(***************************************************************************)
(* The parameters of the API's own strategy object and the presets table   *)
(* behind it (api/routes/trading.py, ops/lifecycle.py, services/strategy.py,*)
(* strategies/strategy_params.py): updates of parameters, saving of presets *)
(* and requests to change the symbol.                                      *)
(*                                                                         *)
(* The object is changed between awaits of requests that take no lock; one *)
(* action is the code between two awaits.  The object keeps the strategy   *)
(* of TRADING_STRATEGY, so only the presets of that strategy are kept.  A  *)
(* parameter is a number, a preset a partial function.                     *)
(***************************************************************************)
EXTENDS Integers, FiniteSets

CONSTANTS
  Symbols,    \* SUPPORTED_ASSETS
  Home,       \* STRATEGY_SYMBOL
  Fields,     \* parameters the strategy has
  Unknown,    \* keys of a preset that no parameter has
  Values,
  Defaults,   \* the parameters of a new params object
  Builtin,    \* BUILTIN_PRESETS of the strategy, Missing where there is none
  Edits,      \* parameters clients change
  Given,      \* presets clients save
  Missing,    \* the table has no row
  Unsure,     \* no client knows what the row is
  Handlers,   \* requests served at the same time
  MaxCalls,   \* bound on the requests
  MaxFaults   \* bound on crashes and failed calls

Partial(D) == UNION {[S -> Values] : S \in SUBSET D}
Params     == [Fields -> Values]
Presets    == Partial(Fields \cup Unknown)

ASSUME SettingsAssumption ==
  /\ Home \in Symbols
  /\ Fields \cap Unknown = {}
  /\ Defaults \in Params
  /\ Builtin \in [Symbols -> Partial(Fields) \cup {Missing}]
  /\ Edits \subseteq Partial(Fields) /\ Given \subseteq Presets
  /\ Missing \notin Presets /\ Unsure \notin Presets \cup {Missing}
  /\ MaxCalls \in Nat /\ MaxFaults \in Nat

VARIABLES
  up,        \* the API process runs
  object,    \* app.state.trading_strategy
  presets,   \* strategy_presets
  call,      \* what each handler is doing
  calls,     \* requests so far
  told,      \* history: what a client was told last that the row is
  stale,     \* history: the object may differ from the row of its symbol
  faults     \* disturbances so far

vars == <<up, object, presets, call, calls, told, stale, faults>>

Call == [at      : {"idle", "save", "load", "replace"},
         op      : {"none", "update", "preset", "symbol"},
         symbol  : Symbols,
         body    : Presets,       \* the row to be written
         overlap : BOOLEAN]       \* history: another request was under way
Nothing == [f \in {} |-> 0]
Idle    == [at |-> "idle", op |-> "none", symbol |-> Home, body |-> Nothing, overlap |-> FALSE]
Busy    == {h \in Handlers : call[h] # Idle}

TypeOK ==
  /\ up \in BOOLEAN /\ stale \in BOOLEAN
  /\ object \in [symbol : Symbols, params : Params]
  /\ presets \in [Symbols -> Presets \cup {Missing}]
  /\ told \in [Symbols -> Presets \cup {Unsure}]
  /\ call \in [Handlers -> Call]
  /\ calls \in 0 .. MaxCalls
  /\ faults \in 0 .. MaxFaults

-----------------------------------------------------------------------------
(* Definitions named ...Bug are the definition that follows them with one    *)
(* plausible mistake; no other definition uses them.                         *)

MergeBug(p, over) ==                     \* keys the object does not have are set as well
  [f \in Fields \cup DOMAIN over |-> IF f \in DOMAIN over THEN over[f] ELSE p[f]]

(* apply_preset_overrides: keys the object does not have are skipped *)
Merge(p, over) == [f \in Fields |-> IF f \in DOMAIN over THEN over[f] ELSE p[f]]

(* load_preset_overrides: the row, even an empty one, or the built-in preset *)
Overrides(s) ==
  IF presets[s] # Missing THEN presets[s]
  ELSE IF Builtin[s] # Missing THEN Builtin[s]
  ELSE Nothing

(* build_strategy *)
Build(s, over) == [symbol |-> s, params |-> Merge(Defaults, over)]

SeededBug(s) == IF Builtin[s] # Missing THEN Builtin[s] ELSE presets[s]    \* whatever the table says

(* seed_builtin_presets: rows that are there are left alone *)
Seeded(s) == IF presets[s] = Missing THEN Builtin[s] ELSE presets[s]

Smooth == UNCHANGED faults
Fault  == faults < MaxFaults /\ faults' = faults + 1

Init ==
  /\ up = FALSE
  /\ object = Build(Home, Nothing)
  /\ presets = [s \in Symbols |-> Missing]
  /\ call = [h \in Handlers |-> Idle]
  /\ calls = 0
  /\ told = [s \in Symbols |-> Unsure]
  /\ stale = FALSE
  /\ faults = 0

-----------------------------------------------------------------------------
(* The process *)

(* on_startup, before the first request is served.  Should it fail, the  *)
(* container starts again.                                               *)
Startup ==
  /\ ~up
  /\ up' = TRUE
  /\ presets' = [s \in Symbols |-> Seeded(s)]
  /\ object' = Build(Home, Overrides(Home)')
  /\ stale' = FALSE
  /\ UNCHANGED <<call, calls, told, faults>>

(* A row whose request dies with the process was written before, or not: *)
(* see Store.                                                            *)
Crash ==
  /\ up
  /\ up' = FALSE
  /\ call' = [h \in Handlers |-> Idle]
  /\ Fault
  /\ UNCHANGED <<object, presets, calls, told, stale>>

-----------------------------------------------------------------------------
(* The requests *)

Begin(h, at, op, s, body) ==
  /\ up
  /\ call[h] = Idle
  /\ calls < MaxCalls
  /\ calls' = calls + 1
  /\ call' = [g \in Handlers |->
                IF g = h THEN [at |-> at, op |-> op, symbol |-> s, body |-> body,
                               overlap |-> Busy # {}]
                ELSE [call[g] EXCEPT !.overlap = call[g] # Idle]]
  /\ UNCHANGED <<up, presets, told, stale, faults>>

UpdateParamsBug(h) ==                    \* only what the client changed is saved
  \E edit \in Edits, s \in Symbols :
    /\ object' = [symbol |-> s, params |-> Merge(object.params, edit)]
    /\ Begin(h, "save", "update", s, edit)

(* update_trading_params: the object changes at once, the symbol among its   *)
(* parameters included, and all of it is saved as the preset of its symbol.  *)
UpdateParams(h) ==
  \E edit \in Edits \cup {Nothing}, s \in Symbols :
    /\ object' = [symbol |-> s, params |-> Merge(object.params, edit)]
    /\ Begin(h, "save", "update", s, object'.params)

(* save_trading_preset: the object is left alone *)
SavePreset(h) ==
  \E preset \in Given, s \in Symbols : Begin(h, "save", "preset", s, preset) /\ UNCHANGED object

(* change_symbol: is_active of the object is never set, since no process   *)
(* calls its start_trading                                                 *)
ChangeSymbol(h) ==
  \E s \in Symbols : Begin(h, "load", "symbol", s, Nothing) /\ UNCHANGED object

Done(h) == call' = [call EXCEPT ![h] = Idle]

(* _load_preset_overrides: what it answers reaches no object, see Replace *)
Load(h) ==
  /\ call[h].at = "load"
  /\ \/ call' = [call EXCEPT ![h].at = "replace"] /\ Smooth
     \/ Done(h) /\ Fault
  /\ UNCHANGED <<up, object, presets, calls, told, stale>>

(* the rest of change_symbol: app.state.build_strategy is the function      *)
(* itself, and it is called without the trade_tracker_db it requires, so    *)
(* that every call raises before the object is replaced.                    *)
Replace(h) ==
  /\ call[h].at = "replace"
  /\ Done(h)
  /\ UNCHANGED <<up, object, presets, calls, told, stale, faults>>

(* save_strategy_preset, and the answer.  A call that fails, or whose answer *)
(* is lost, leaves the object as it is.                                      *)
Store(h) ==
  LET s    == call[h].symbol
      rows == [presets EXCEPT ![s] = call[h].body]
      sure == ~call[h].overlap
  IN
  /\ call[h].at = "save"
  /\ \/ /\ presets' = rows
        /\ told' = [told EXCEPT ![s] = IF sure THEN call[h].body ELSE Unsure]
        /\ stale' = IF call[h].op = "update" THEN ~sure ELSE stale \/ object.symbol = s
        /\ Smooth
     \/ /\ presets' \in {presets, rows}
        /\ told' = [told EXCEPT ![s] = Unsure]
        /\ stale' = (stale \/ call[h].op = "update" \/ object.symbol = s)
        /\ Fault
  /\ Done(h)
  /\ UNCHANGED <<up, object, calls>>

-----------------------------------------------------------------------------
Next ==
  \/ Startup \/ Crash
  \/ \E h \in Handlers : \/ UpdateParams(h) \/ SavePreset(h) \/ ChangeSymbol(h)
                         \/ Load(h) \/ Replace(h) \/ Store(h)

Spec == Init /\ [][Next]_vars

-----------------------------------------------------------------------------
(* Properties *)

(* Unless requests overlapped, one failed, or a preset was saved over the   *)
(* one in use, a start of the API with the object's symbol would build the  *)
(* object that is there: no acknowledged update is only in memory, and a    *)
(* row holds all of the parameters although an update names a few.          *)
NothingUnsaved ==
  up /\ Busy = {} /\ ~stale => object = Build(object.symbol, Overrides(object.symbol))

(* What a client was told last that a preset is, is in the table, through   *)
(* restarts, their seeding and writes of others, unless requests overlapped *)
(* or one failed.                                                           *)
ToldIsStored == \A s \in Symbols : told[s] # Unsure => presets[s] = told[s]

=============================================================================
