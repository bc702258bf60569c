----------------------- MODULE StrategySettingsProofs -----------------------
(***************************************************************************)
(* What holds of StrategySettings.tla for any symbols, parameters, presets *)
(* and number of requests under way.                                       *)
(***************************************************************************)
EXTENDS StrategySettings, TLAPS

-----------------------------------------------------------------------------
(* Presets *)

(* A preset is a function from some of the parameters to values. *)
LEMMA PartialIs ==
  ASSUME NEW D, NEW g
  PROVE  g \in Partial(D) <=> \E S \in SUBSET D : g \in [S -> Values]
  BY DEF Partial

(* The empty preset, a full one and every built-in one are presets. *)
LEMMA PresetKinds ==
  /\ Nothing \in Presets
  /\ Params \subseteq Presets
  /\ Partial(Fields) \subseteq Presets
<1>1. Nothing \in [{} -> Values]
  BY DEF Nothing
<1>2. {} \in SUBSET (Fields \cup Unknown) /\ Fields \in SUBSET (Fields \cup Unknown)
  OBVIOUS
<1>3. Nothing \in Presets
  BY <1>1, <1>2, PartialIs DEF Presets
<1>4. Params \subseteq Presets
  BY <1>2, PartialIs DEF Presets, Params
<1>5. Partial(Fields) \subseteq Presets
  <2> SUFFICES ASSUME NEW g \in Partial(Fields) PROVE g \in Presets
    OBVIOUS
  <2>1. PICK S \in SUBSET Fields : g \in [S -> Values]
    BY PartialIs
  <2> QED
    BY <2>1, PartialIs DEF Presets
<1> QED
  BY <1>3, <1>4, <1>5

(* apply_preset_overrides keeps every parameter, whatever the preset says. *)
LEMMA MergeType ==
  ASSUME NEW p \in Params, NEW over \in Presets
  PROVE  Merge(p, over) \in Params
<1>1. PICK S \in SUBSET (Fields \cup Unknown) : over \in [S -> Values]
  BY PartialIs DEF Presets
<1>2. \A f \in DOMAIN over : over[f] \in Values
  BY <1>1
<1> QED
  BY <1>2 DEF Merge, Params

(* Overrides that name every parameter replace them all: what lets a preset  *)
(* that was saved from the object give the object back.                      *)
LEMMA MergeFull ==
  ASSUME NEW p \in Params, NEW over \in Params
  PROVE  Merge(p, over) = over
  BY DEF Merge, Params

(* build_strategy answers an object with every parameter set. *)
LEMMA BuildType ==
  ASSUME NEW s \in Symbols, NEW over \in Presets
  PROVE  Build(s, over) \in [symbol : Symbols, params : Params]
  BY MergeType, SettingsAssumption DEF Build

(* seed_builtin_presets leaves a preset or no row. *)
LEMMA SeededType ==
  ASSUME TypeOK, NEW s \in Symbols
  PROVE  Seeded(s) \in Presets \cup {Missing}
  BY PresetKinds, SettingsAssumption DEF TypeOK, Seeded

-----------------------------------------------------------------------------
(* Requests *)

(* An idle handler is well typed. *)
LEMMA IdleType == Idle \in Call
  BY PresetKinds, SettingsAssumption DEF Idle, Call

(* What beginning a request does to the handlers: the new one knows whether  *)
(* others are under way, and they learn that it is.                          *)
LEMMA BeginCalls ==
  ASSUME TypeOK, NEW h \in Handlers, NEW at, NEW op, NEW s, NEW body,
         Begin(h, at, op, s, body)
  PROVE  /\ call'[h] = [at |-> at, op |-> op, symbol |-> s, body |-> body, overlap |-> Busy # {}]
         /\ \A g \in Handlers \ {h} : call'[g] = [call[g] EXCEPT !.overlap = call[g] # Idle]
         /\ call[h] = Idle
         /\ up
  BY DEF Begin

(* The history flag of a handler is TRUE or FALSE. *)
LEMMA OverlapType ==
  ASSUME NEW c \in Call, NEW b \in BOOLEAN, NEW d, d = [c EXCEPT !.overlap = b]
  PROVE  /\ d \in Call
         /\ d.at = c.at /\ d.op = c.op /\ d.symbol = c.symbol /\ d.body = c.body
         /\ d.overlap = b
  BY DEF Call

(* Beginning a request keeps the types, and what it has changed is its call. *)
LEMMA BeginType ==
  ASSUME TypeOK, NEW h \in Handlers, NEW at \in {"save", "load"},
         NEW op \in {"update", "preset", "symbol"}, NEW s \in Symbols, NEW body \in Presets,
         Begin(h, at, op, s, body)
  PROVE  /\ call' \in [Handlers -> Call]
         /\ calls' \in 0 .. MaxCalls
         /\ UNCHANGED <<up, presets, told, stale, faults>>
<1>1. calls' \in 0 .. MaxCalls
  BY SettingsAssumption DEF TypeOK, Begin
<1>2. (Busy # {}) \in BOOLEAN
  OBVIOUS
<1>3. [at |-> at, op |-> op, symbol |-> s, body |-> body, overlap |-> Busy # {}] \in Call
  BY <1>2, Zenon DEF Call
<1>4. \A g \in Handlers : [call[g] EXCEPT !.overlap = call[g] # Idle] \in Call
  <2> SUFFICES ASSUME NEW g \in Handlers PROVE [call[g] EXCEPT !.overlap = call[g] # Idle] \in Call
    OBVIOUS
  <2>1. (call[g] # Idle) \in BOOLEAN /\ call[g] \in Call
    BY DEF TypeOK
  <2> HIDE DEF Idle
  <2> QED
    BY <2>1, OverlapType
<1>5. call' = [g \in Handlers |->
                 IF g = h THEN [at |-> at, op |-> op, symbol |-> s, body |-> body,
                                overlap |-> Busy # {}]
                 ELSE [call[g] EXCEPT !.overlap = call[g] # Idle]]
  BY DEF Begin
<1>6. call' \in [Handlers -> Call]
  BY <1>3, <1>4, <1>5, Zenon
<1> QED
  BY <1>1, <1>6 DEF Begin

(* A finished request leaves its handler idle and the others alone. *)
LEMMA DoneType ==
  ASSUME TypeOK, NEW h \in Handlers, Done(h)
  PROVE  /\ call' \in [Handlers -> Call]
         /\ call'[h] = Idle
         /\ \A g \in Handlers \ {h} : call'[g] = call[g]
  BY IdleType DEF TypeOK, Done

(* The fault budget stays within its bound, whether a call succeeds or fails. *)
LEMMA FaultType ==
  ASSUME TypeOK, Smooth \/ Fault
  PROVE  faults' \in 0 .. MaxFaults
  BY SettingsAssumption DEF TypeOK, Smooth, Fault

(* The object after update_trading_params, and what is saved of it *)
LEMMA UpdateObject ==
  ASSUME TypeOK, NEW h \in Handlers, UpdateParams(h)
  PROVE  \E s \in Symbols, params \in Params :
           /\ object' = [symbol |-> s, params |-> params]
           /\ Begin(h, "save", "update", s, params)
<1>1. PICK edit \in Edits \cup {Nothing}, s \in Symbols :
        /\ object' = [symbol |-> s, params |-> Merge(object.params, edit)]
        /\ Begin(h, "save", "update", s, object'.params)
  BY DEF UpdateParams
<1>2. edit \in Presets /\ object.params \in Params
  BY PresetKinds, SettingsAssumption DEF TypeOK
<1>3. Merge(object.params, edit) \in Params
  BY <1>2, MergeType
<1>4. object'.params = Merge(object.params, edit)
  BY <1>1
<1> QED
  BY <1>1, <1>3, <1>4

(* Loading takes the request to its last step, or ends it. *)
LEMMA LoadCall ==
  ASSUME TypeOK, NEW h \in Handlers, Load(h)
  PROVE  /\ call' \in [Handlers -> Call]
         /\ \/ call'[h] = Idle
            \/ /\ call'[h].at = "replace" /\ call'[h].op = call[h].op
               /\ call'[h].overlap = call[h].overlap
         /\ \A g \in Handlers \ {h} : call'[g] = call[g]
<1>1. CASE Done(h)
  BY <1>1, DoneType
<1>2. CASE call' = [call EXCEPT ![h].at = "replace"]
  BY <1>2 DEF TypeOK, Call
<1> QED
  BY <1>1, <1>2 DEF Load

(* Every step keeps every type. *)
LEMMA NextType == TypeOK /\ [Next]_vars => TypeOK'
<1> SUFFICES ASSUME TypeOK, [Next]_vars PROVE TypeOK'
  OBVIOUS
<1>1. CASE Startup
  <2>1. presets' \in [Symbols -> Presets \cup {Missing}]
    BY <1>1, SeededType DEF Startup
  <2>2. Overrides(Home)' \in Presets
    BY <2>1, PresetKinds, SettingsAssumption DEF Overrides
  <2>3. object' \in [symbol : Symbols, params : Params]
    BY <1>1, <2>2, BuildType, SettingsAssumption DEF Startup
  <2>4. up' \in BOOLEAN /\ stale' \in BOOLEAN
    BY <1>1, Zenon DEF Startup
  <2> QED
    BY <1>1, <2>1, <2>3, <2>4 DEF Startup, TypeOK
<1>2. CASE Crash
  <2>1. up' \in BOOLEAN
    BY <1>2, Zenon DEF Crash
  <2>2. call' \in [Handlers -> Call]
    BY <1>2, IdleType DEF Crash
  <2> QED
    BY <1>2, <2>1, <2>2, FaultType DEF Crash, TypeOK
<1>3. ASSUME NEW h \in Handlers, UpdateParams(h) PROVE TypeOK'
  BY <1>3, UpdateObject, BeginType, PresetKinds DEF TypeOK
<1>4. ASSUME NEW h \in Handlers, SavePreset(h) PROVE TypeOK'
  <2>1. PICK preset \in Given, s \in Symbols :
          Begin(h, "save", "preset", s, preset) /\ UNCHANGED object
    BY <1>4 DEF SavePreset
  <2> QED
    BY <2>1, BeginType, SettingsAssumption DEF TypeOK
<1>5. ASSUME NEW h \in Handlers, ChangeSymbol(h) PROVE TypeOK'
  <2>1. PICK s \in Symbols : Begin(h, "load", "symbol", s, Nothing) /\ UNCHANGED object
    BY <1>5 DEF ChangeSymbol
  <2> QED
    BY <2>1, BeginType, PresetKinds DEF TypeOK
<1>6. ASSUME NEW h \in Handlers, Load(h) PROVE TypeOK'
  BY <1>6, LoadCall, FaultType DEF Load, TypeOK
<1>7. ASSUME NEW h \in Handlers, Replace(h) PROVE TypeOK'
  BY <1>7, DoneType DEF Replace, TypeOK
<1>8. ASSUME NEW h \in Handlers, Store(h) PROVE TypeOK'
  <2>1. call[h] \in Call
    BY DEF TypeOK
  <2>2. presets' \in [Symbols -> Presets \cup {Missing}]
    BY <1>8, <2>1 DEF Store, Call, TypeOK
  <2>3. told' \in [Symbols -> Presets \cup {Unsure}]
    BY <1>8, <2>1 DEF Store, Call, TypeOK
  <2>4. stale' \in BOOLEAN
    BY <1>8, Zenon DEF Store, TypeOK
  <2>5. UNCHANGED <<up, object, calls>> /\ faults' \in 0 .. MaxFaults /\ Done(h)
    BY <1>8, FaultType DEF Store
  <2> QED
    BY <2>2, <2>3, <2>4, <2>5, DoneType DEF TypeOK
<1>9. CASE UNCHANGED vars
  BY <1>9 DEF vars, TypeOK
<1> QED
  BY <1>1, <1>2, <1>3, <1>4, <1>5, <1>6, <1>7, <1>8, <1>9 DEF Next

(* Type correctness of StrategySettings.tla: whatever presets clients save,  *)
(* the object always has every parameter of the strategy and no other.       *)
THEOREM TypeCorrect == Spec => []TypeOK
<1>1. Init => TypeOK
  <2> SUFFICES ASSUME Init PROVE TypeOK
    OBVIOUS
  <2>1. object \in [symbol : Symbols, params : Params]
    BY BuildType, PresetKinds, SettingsAssumption DEF Init
  <2>2. up \in BOOLEAN /\ stale \in BOOLEAN
    BY Zenon DEF Init
  <2>3. call \in [Handlers -> Call]
    BY IdleType DEF Init
  <2>4. calls \in 0 .. MaxCalls /\ faults \in 0 .. MaxFaults
    BY SettingsAssumption DEF Init
  <2> QED
    BY <2>1, <2>2, <2>3, <2>4 DEF Init, TypeOK
<1> QED
  BY <1>1, NextType, PTL DEF Spec

-----------------------------------------------------------------------------
(* What a client was told *)

(* Told and stored agree after every step: only Store writes a row and tells, *)
(* and a startup seeds only rows that are missing.                            *)
LEMMA ToldStep == TypeOK /\ ToldIsStored /\ [Next]_vars => ToldIsStored'
<1> SUFFICES ASSUME TypeOK, ToldIsStored, [Next]_vars,
                    NEW s \in Symbols, told'[s] # Unsure
             PROVE  presets'[s] = told'[s]
  BY DEF ToldIsStored
<1>1. CASE Startup
  <2>1. told'[s] = told[s] /\ presets[s] = told[s] /\ presets[s] # Missing
    BY <1>1, SettingsAssumption DEF Startup, ToldIsStored, TypeOK
  <2> QED
    BY <1>1, <2>1 DEF Startup, Seeded
<1>2. ASSUME NEW h \in Handlers, Store(h) PROVE presets'[s] = told'[s]
  <2>1. CASE call[h].symbol = s
    BY <1>2, <2>1 DEF Store, TypeOK
  <2>2. CASE call[h].symbol # s
    BY <1>2, <2>2 DEF Store, TypeOK, ToldIsStored
  <2> QED
    BY <2>1, <2>2
<1>3. CASE ~Startup /\ ~\E h \in Handlers : Store(h)
  <2>1. UNCHANGED <<presets, told>>
    BY <1>3 DEF Next, Crash, UpdateParams, SavePreset, ChangeSymbol, Load, Replace, Begin, vars
  <2> QED
    BY <2>1 DEF ToldIsStored
<1> QED
  BY <1>1, <1>2, <1>3

(* What a client was told last that a preset is, is in the table, unless     *)
(* requests overlapped or one failed.                                        *)
THEOREM ToldStored == Spec => []ToldIsStored
<1>1. Init => ToldIsStored
  BY DEF Init, ToldIsStored
<1> QED
  BY <1>1, ToldStep, TypeCorrect, PTL DEF Spec

-----------------------------------------------------------------------------
(* The object and its preset *)

(* A start with the object's symbol would build the object that is there. *)
Synced == object = Build(object.symbol, Overrides(object.symbol))

(* A request knows when another one has been under way: one that does not    *)
(* is alone, so that the object is still what an update has made of it.      *)
CallInv ==
  /\ ~up => \A h \in Handlers : call[h] = Idle
  /\ \A h \in Handlers :
       /\ call[h].op = "update" => call[h].at = "save"
       /\ call[h] # Idle /\ ~call[h].overlap => \A g \in Handlers \ {h} : call[g] = Idle
       /\ call[h].op = "update" /\ ~call[h].overlap =>
            /\ call[h].body \in Params
            /\ object = [symbol |-> call[h].symbol, params |-> call[h].body]

(* Unless an update is on its way to the table, the object is synced with it *)
(* or known to be stale.                                                     *)
SyncInv == up /\ ~stale /\ (\A h \in Handlers : call[h].op # "update") => Synced

(* An idle handler is at no point of a request. *)
LEMMA IdleIs ==
  /\ Idle.at = "idle" /\ Idle.op = "none" /\ Idle.overlap = FALSE
  BY DEF Idle

(* The others, when a request begins: they are what they were, but know that *)
(* they have company.                                                        *)
LEMMA BeginOthers ==
  ASSUME TypeOK, NEW h \in Handlers, NEW at, NEW op, NEW s, NEW body,
         Begin(h, at, op, s, body), NEW g \in Handlers \ {h}
  PROVE  /\ call'[g].at = call[g].at /\ call'[g].op = call[g].op
         /\ call'[g].symbol = call[g].symbol /\ call'[g].body = call[g].body
         /\ call[g] = Idle => call'[g] = Idle
         /\ ~call'[g].overlap => call[g] = Idle
<1> DEFINE busy == call[g] # Idle
<1>1. call'[g] = [call[g] EXCEPT !.overlap = busy]
  BY BeginCalls
<1>2. call[g] \in Call /\ busy \in BOOLEAN
  BY DEF TypeOK
<1>3. /\ call'[g].at = call[g].at /\ call'[g].op = call[g].op
      /\ call'[g].symbol = call[g].symbol /\ call'[g].body = call[g].body
      /\ call'[g].overlap = busy
      /\ call'[g] \in Call
  <2> DEFINE c == call[g]
             d == call'[g]
  <2>1. d = [c EXCEPT !.overlap = busy] /\ c \in Call /\ busy \in BOOLEAN
    BY <1>1, <1>2
  <2> HIDE DEF busy, c, d
  <2>2. /\ d.at = c.at /\ d.op = c.op /\ d.symbol = c.symbol /\ d.body = c.body
        /\ d.overlap = busy /\ d \in Call
    BY <2>1, OverlapType, Zenon
  <2> QED
    BY <2>2 DEF c, d
<1>4. ~call'[g].overlap => call[g] = Idle
  BY <1>3, Zenon
<1>5. call[g] = Idle => call'[g] = Idle
  <2> SUFFICES ASSUME call[g] = Idle PROVE call'[g] = Idle
    OBVIOUS
  <2>1. call'[g].overlap = FALSE
    BY <1>3, Zenon
  <2>2. call'[g] = [at |-> call'[g].at, op |-> call'[g].op, symbol |-> call'[g].symbol,
                    body |-> call'[g].body, overlap |-> call'[g].overlap]
    BY <1>3 DEF Call
  <2>3. call'[g].at = Idle.at /\ call'[g].op = Idle.op /\ call'[g].symbol = Idle.symbol
        /\ call'[g].body = Idle.body
    BY <1>3
  <2> QED
    BY <2>1, <2>2, <2>3 DEF Idle
<1> QED
  BY <1>3, <1>4, <1>5

(* The handler that begins knows its request, and whether it has company. *)
LEMMA BeginOwn ==
  ASSUME TypeOK, NEW h \in Handlers, NEW at, NEW op, NEW s, NEW body,
         Begin(h, at, op, s, body)
  PROVE  /\ call'[h].at = at /\ call'[h].op = op /\ call'[h].symbol = s /\ call'[h].body = body
         /\ call'[h].overlap = (Busy # {})
<1> DEFINE busy == Busy # {}
<1>1. call'[h] = [at |-> at, op |-> op, symbol |-> s, body |-> body, overlap |-> busy]
  BY BeginCalls
<1>2. /\ call'[h].at = at /\ call'[h].op = op /\ call'[h].symbol = s /\ call'[h].body = body
      /\ call'[h].overlap = busy
  <2> HIDE DEF busy
  <2> QED
    BY <1>1
<1> QED
  BY <1>2, Zenon

(* Beginning a request that is no update, or an update that has just made    *)
(* the object what it will save, keeps what requests know of one another.    *)
LEMMA BeginInv ==
  ASSUME TypeOK, CallInv, NEW h \in Handlers, NEW at \in {"save", "load"}, NEW op, NEW s,
         NEW body, Begin(h, at, op, s, body),
         \/ op # "update" /\ UNCHANGED object
         \/ /\ op = "update" /\ at = "save" /\ body \in Params
            /\ object' = [symbol |-> s, params |-> body]
  PROVE  CallInv'
<1>1. /\ call'[h].at = at /\ call'[h].op = op /\ call'[h].symbol = s /\ call'[h].body = body
      /\ call'[h].overlap = (Busy # {})
  BY BeginOwn
<1>2. up' /\ up /\ UNCHANGED presets
  BY BeginCalls DEF Begin
<1>3. ~call'[h].overlap => \A g \in Handlers \ {h} : call'[g] = Idle
  <2>1. ~call'[h].overlap => Busy = {}
    BY <1>1, Zenon
  <2>2. Busy = {} => \A g \in Handlers : call[g] = Idle
    BY DEF Busy
  <2> QED
    BY <2>1, <2>2, BeginOthers
<1>4. ASSUME NEW g \in Handlers \ {h}, ~call'[g].overlap PROVE call'[g] = Idle
  BY <1>4, BeginOthers
<1>5. ASSUME NEW g \in Handlers
      PROVE  /\ call'[g].op = "update" => call'[g].at = "save"
             /\ call'[g] # Idle /\ ~call'[g].overlap => \A k \in Handlers \ {g} : call'[k] = Idle
             /\ call'[g].op = "update" /\ ~call'[g].overlap =>
                  /\ call'[g].body \in Params
                  /\ object' = [symbol |-> call'[g].symbol, params |-> call'[g].body]
  <2>1. CASE g = h
    BY <1>1, <1>3, <2>1
  <2>2. CASE g # h
    BY <1>4, <2>2, BeginOthers, IdleIs DEF CallInv
  <2> QED
    BY <2>1, <2>2
<1> QED
  BY <1>2, <1>5 DEF CallInv

(* Every step keeps what requests know of one another. *)
LEMMA CallStep == TypeOK /\ CallInv /\ [Next]_vars => CallInv'
<1> SUFFICES ASSUME TypeOK, CallInv, [Next]_vars PROVE CallInv'
  OBVIOUS
<1>1. CASE Startup
  <2>1. up' /\ \A h \in Handlers : call'[h] = Idle
    BY <1>1 DEF Startup, CallInv
  <2> QED
    BY <2>1, IdleIs DEF CallInv
<1>2. CASE Crash
  <2>1. \A h \in Handlers : call'[h] = Idle
    BY <1>2 DEF Crash
  <2> QED
    BY <2>1, IdleIs DEF CallInv
<1>3. ASSUME NEW h \in Handlers, UpdateParams(h) PROVE CallInv'
  BY <1>3, UpdateObject, BeginInv
<1>4. ASSUME NEW h \in Handlers, SavePreset(h) \/ ChangeSymbol(h) PROVE CallInv'
  <2>1. UNCHANGED object
    BY <1>4 DEF SavePreset, ChangeSymbol
  <2>2. \E at \in {"save", "load"}, op \in {"preset", "symbol"} :
           \E s, body : Begin(h, at, op, s, body)
    BY <1>4 DEF SavePreset, ChangeSymbol
  <2> QED
    BY <2>1, <2>2, BeginInv
<1>5. ASSUME NEW h \in Handlers, Load(h) PROVE CallInv'
  <2>1. /\ call[h].at = "load" /\ call[h] # Idle /\ call[h].op # "update"
        /\ UNCHANGED <<up, object>> /\ up
    BY <1>5, IdleIs DEF Load, CallInv
  <2>2. /\ \A g \in Handlers \ {h} : call'[g] = call[g]
        /\ \/ call'[h] = Idle
           \/ call'[h].op = call[h].op /\ call'[h].overlap = call[h].overlap
    BY <1>5, LoadCall
  <2> QED
    BY <2>1, <2>2, IdleIs DEF CallInv
<1>6. ASSUME NEW h \in Handlers, Replace(h) \/ Store(h) PROVE CallInv'
  <2>1. /\ call[h] # Idle /\ up /\ up' = up
        /\ call'[h] = Idle /\ \A g \in Handlers \ {h} : call'[g] = call[g]
    BY <1>6, IdleIs, DoneType DEF Replace, Store, CallInv
  <2>2. \A g \in Handlers \ {h} : call'[g] # Idle => call'[g].overlap
    BY <2>1 DEF CallInv
  <2> QED
    BY <2>1, <2>2, IdleIs DEF CallInv
<1>7. CASE UNCHANGED vars
  BY <1>7 DEF vars, CallInv
<1> QED
  BY <1>1, <1>2, <1>3, <1>4, <1>5, <1>6, <1>7 DEF Next

(* Loading what was saved of a whole object gives the object. *)
LEMMA SavedObject ==
  ASSUME NEW s \in Symbols, NEW params \in Params, presets'[s] = params,
         object' = [symbol |-> s, params |-> params]
  PROVE  Synced'
<1>1. object'.symbol = s
  OBVIOUS
<1>2. Overrides(s)' = params
  BY PresetKinds, SettingsAssumption DEF Overrides
<1>3. Build(s, params) = [symbol |-> s, params |-> params]
  BY MergeFull, SettingsAssumption DEF Build
<1>4. Build(object.symbol, Overrides(object.symbol))' = Build(s, params)
  BY <1>1, <1>2 DEF Build, Overrides
<1> QED
  BY <1>3, <1>4 DEF Synced

(* Only the row of the object's own symbol matters to it. *)
LEMMA SyncedKept ==
  ASSUME Synced, UNCHANGED object, presets'[object.symbol] = presets[object.symbol]
  PROVE  Synced'
  BY DEF Synced, Build, Overrides

(* Every step keeps the object synced with its row, or notes that it may not *)
(* be.                                                                       *)
LEMMA SyncStep == TypeOK /\ CallInv /\ SyncInv /\ [Next]_vars => SyncInv'
<1> SUFFICES ASSUME TypeOK, CallInv, SyncInv, [Next]_vars, up', ~stale',
                    \A h \in Handlers : call'[h].op # "update"
             PROVE  Synced'
  BY DEF SyncInv
<1>1. CASE Startup
  <2>1. object' = Build(Home, Overrides(Home)')
    BY <1>1 DEF Startup
  <2>2. object'.symbol = Home
    BY <2>1 DEF Build
  <2> QED
    BY <2>1, <2>2 DEF Synced, Build
<1>2. CASE Crash
  BY <1>2 DEF Crash
<1>3. ASSUME NEW h \in Handlers, UpdateParams(h) PROVE FALSE
  <2>1. call'[h].op = "update"
    BY <1>3, UpdateObject, BeginOwn
  <2> QED
    BY <2>1
<1>4. ASSUME NEW h \in Handlers, SavePreset(h) \/ ChangeSymbol(h) PROVE Synced'
  <2>1. PICK at \in {"save", "load"}, op \in {"preset", "symbol"} :
          \E s, body : Begin(h, at, op, s, body)
    BY <1>4 DEF SavePreset, ChangeSymbol
  <2>2. UNCHANGED <<object, presets, stale>> /\ up
    BY <1>4, <2>1 DEF SavePreset, ChangeSymbol, Begin
  <2>3. \A g \in Handlers : call[g].op # "update"
    BY <2>1, BeginOthers, BeginCalls, IdleIs
  <2> QED
    BY <2>2, <2>3, SyncedKept DEF SyncInv
<1>5. ASSUME NEW h \in Handlers, Load(h) PROVE Synced'
  <2>1. call[h].op # "update" /\ UNCHANGED <<up, object, presets, stale>>
    BY <1>5 DEF Load, CallInv
  <2>2. \A g \in Handlers \ {h} : call'[g] = call[g]
    BY <1>5, LoadCall
  <2> QED
    BY <2>1, <2>2, SyncedKept DEF SyncInv
<1>6. ASSUME NEW h \in Handlers, Replace(h) PROVE Synced'
  <2>1. call[h].op # "update" /\ UNCHANGED <<up, object, presets, stale>>
    BY <1>6 DEF Replace, CallInv
  <2>2. \A g \in Handlers \ {h} : call'[g] = call[g]
    BY <1>6, DoneType DEF Replace
  <2> QED
    BY <2>1, <2>2, SyncedKept DEF SyncInv
<1>7. ASSUME NEW h \in Handlers, Store(h) PROVE Synced'
  <2>1. /\ call[h].at = "save" /\ call[h] \in Call /\ UNCHANGED <<up, object>>
        /\ \A g \in Handlers \ {h} : call'[g] = call[g]
    BY <1>7, DoneType DEF Store, TypeOK
  <2>2. CASE call[h].op = "update"
    <3>1. ~call[h].overlap /\ presets' = [presets EXCEPT ![call[h].symbol] = call[h].body]
      BY <1>7, <2>2 DEF Store
    <3>2. call[h].body \in Params /\ object' = [symbol |-> call[h].symbol, params |-> call[h].body]
      BY <2>1, <2>2, <3>1 DEF CallInv
    <3>3. call[h].symbol \in Symbols
      BY <2>1 DEF Call
    <3>4. presets'[call[h].symbol] = call[h].body
      BY <3>1, <3>3 DEF TypeOK
    <3> QED
      BY <3>2, <3>3, <3>4, SavedObject
  <2>3. CASE call[h].op # "update"
    <3>1. /\ ~stale /\ object.symbol # call[h].symbol
          /\ presets' \in {presets, [presets EXCEPT ![call[h].symbol] = call[h].body]}
      BY <1>7, <2>3 DEF Store
    <3>2. Synced
      BY <2>1, <2>3, <3>1 DEF SyncInv
    <3>3. presets'[object.symbol] = presets[object.symbol]
      BY <3>1 DEF TypeOK
    <3> QED
      BY <2>1, <3>2, <3>3, SyncedKept
  <2> QED
    BY <2>2, <2>3
<1>8. CASE UNCHANGED vars
  BY <1>8, SyncedKept DEF vars, SyncInv
<1> QED
  BY <1>1, <1>2, <1>3, <1>4, <1>5, <1>6, <1>7, <1>8 DEF Next

(* No acknowledged update is in memory only: unless requests overlapped, one *)
(* failed or a preset was saved over the one in use, a start of the API with *)
(* the object's symbol would build the object that is there.                 *)
THEOREM Saved == Spec => []NothingUnsaved
<1>1. Init => CallInv /\ SyncInv
  BY IdleIs DEF Init, CallInv, SyncInv
<1>2. TypeOK /\ CallInv /\ SyncInv /\ [Next]_vars => CallInv' /\ SyncInv'
  BY CallStep, SyncStep
<1>3. SyncInv => NothingUnsaved
  BY IdleIs DEF SyncInv, NothingUnsaved, Busy, Synced
<1> QED
  BY <1>1, <1>2, <1>3, TypeCorrect, PTL DEF Spec

=============================================================================
