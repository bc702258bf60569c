------------------------------ MODULE Watchdog ------------------------------
(***************************************************************************)
(* The watchdog (services/run_watchdog.py): it looks for the heartbeat key *)
(* of each service in turn and tells Discord of a missing key, again after *)
(* every threshold, and of a key that is back.  notify() raises when the   *)
(* request fails, which ends the check of all services, and returns False, *)
(* which nobody looks at, when Discord refuses the message.                *)
(***************************************************************************)
EXTENDS Naturals, Sequences

CONSTANTS
  Services,   \* _SERVICES, in order
  MaxFaults   \* bound on failures

VARIABLES
  beats,      \* services whose heartbeat key exists
  turn,       \* the service check_once looks at; 0 while the watchdog sleeps
  last,       \* _last_alert: none, or within or beyond the threshold
  heard,      \* history: what the channel was last told of each service
  muted,      \* history: services whose recovery the channel will not hear of
  faults

own   == <<turn, last, heard, muted>>
wVars == <<beats, own, faults>>

ServiceSet == {Services[i] : i \in 1 .. Len(Services)}

WatchdogTypeOK ==
  /\ beats \subseteq ServiceSet
  /\ turn \in 0 .. Len(Services)
  /\ last \in [ServiceSet -> {"none", "recent", "old"}]
  /\ heard \in [ServiceSet -> {"up", "down"}]
  /\ muted \subseteq ServiceSet

WatchdogInit ==
  /\ turn = 0
  /\ last = [s \in ServiceSet |-> "none"]
  /\ heard = [s \in ServiceSet |-> "up"]
  /\ muted = {}

Fault  == faults < MaxFaults /\ faults' = faults + 1
Smooth == UNCHANGED faults

-----------------------------------------------------------------------------
(* Definitions named ...Bug are the definition that follows them with one    *)
(* plausible mistake; no other definition uses them.                         *)

Service   == Services[turn]
NextTurnBug == turn' = IF turn > Len(Services) THEN 0 ELSE turn + 1   \* off by one
NextTurn  == turn' = IF turn = Len(Services) THEN 0 ELSE turn + 1
GiveUp    == turn' = 0      \* an exception ends check_once; run() logs it

BeginCheck ==
  /\ turn = 0
  /\ turn' = 1
  /\ Smooth
  /\ UNCHANGED <<beats, last, heard, muted>>

(* get_heartbeat raises. *)
LostRedis ==
  /\ turn > 0
  /\ GiveUp
  /\ Fault
  /\ UNCHANGED <<beats, last, heard, muted>>

AlertBug ==                                         \* alerts once per outage
  /\ turn > 0 /\ Service \notin beats /\ last[Service] = "none"
  /\ \/ /\ heard' = [heard EXCEPT ![Service] = "down"] /\ Smooth
        /\ last' = [last EXCEPT ![Service] = "recent"] /\ NextTurn
     \/ /\ UNCHANGED heard /\ Fault
        /\ \/ last' = [last EXCEPT ![Service] = "recent"] /\ NextTurn
           \/ UNCHANGED last /\ GiveUp
  /\ muted' = muted \ {Service}
  /\ UNCHANGED beats

(* No key, and no alert within the threshold: the alert is told, or refused *)
(* and counted as told, or the request fails and the check with it.         *)
Alert ==
  /\ turn > 0 /\ Service \notin beats /\ last[Service] # "recent"
  /\ \/ /\ heard' = [heard EXCEPT ![Service] = "down"] /\ Smooth
        /\ last' = [last EXCEPT ![Service] = "recent"] /\ NextTurn
     \/ /\ UNCHANGED heard /\ Fault
        /\ \/ last' = [last EXCEPT ![Service] = "recent"] /\ NextTurn
           \/ UNCHANGED last /\ GiveUp
  /\ muted' = muted \ {Service}
  /\ UNCHANGED beats

(* The key is there, or its absence was reported within the threshold. *)
Silent ==
  /\ turn > 0
  /\ last[Service] = IF Service \in beats THEN "none" ELSE "recent"
  /\ NextTurn
  /\ Smooth
  /\ UNCHANGED <<beats, last, heard, muted>>

RecoveryBug ==                                      \* reset before the notification
  /\ turn > 0 /\ Service \in beats /\ last[Service] # "none"
  /\ last' = [last EXCEPT ![Service] = "none"]
  /\ \/ heard' = [heard EXCEPT ![Service] = "up"] /\ Smooth /\ NextTurn /\ UNCHANGED muted
     \/ UNCHANGED <<heard, muted>> /\ Fault /\ GiveUp
     \/ UNCHANGED heard /\ muted' = muted \cup {Service} /\ Fault /\ NextTurn
  /\ UNCHANGED beats

(* The key is back after an alert. *)
Recovery ==
  /\ turn > 0 /\ Service \in beats /\ last[Service] # "none"
  /\ \/ /\ heard' = [heard EXCEPT ![Service] = "up"] /\ Smooth
        /\ last' = [last EXCEPT ![Service] = "none"] /\ NextTurn
        /\ UNCHANGED muted
     \/ /\ UNCHANGED heard /\ Fault
        /\ \/ /\ last' = [last EXCEPT ![Service] = "none"] /\ NextTurn
              /\ muted' = muted \cup {Service}
           \/ UNCHANGED <<last, muted>> /\ GiveUp
  /\ UNCHANGED beats

(* The threshold passes. *)
Age(s) ==
  /\ last[s] = "recent"
  /\ last' = [last EXCEPT ![s] = "old"]
  /\ Smooth
  /\ UNCHANGED <<beats, turn, heard, muted>>

(* The watchdog dies and docker restarts it: _last_alert is forgotten. *)
WatchdogCrash ==
  /\ turn' = 0
  /\ last' = [s \in ServiceSet |-> "none"]
  /\ muted' = muted \cup {s \in ServiceSet : last[s] # "none"}
  /\ Fault
  /\ UNCHANGED <<beats, heard>>

CheckOnce == BeginCheck \/ LostRedis \/ Alert \/ Silent \/ Recovery
WatchdogStep == CheckOnce \/ WatchdogCrash \/ \E s \in ServiceSet : Age(s)

WatchdogFairness == WF_wVars(CheckOnce) /\ \A s \in ServiceSet : WF_wVars(Age(s))

-----------------------------------------------------------------------------
(* Properties *)

(* A service that stays silent is reported, and stays reported, although     *)
(* another service's alert may end the check first and its own alert may be  *)
(* refused: refused alerts are repeated after the threshold.                 *)
DeadReported ==
  \A s \in ServiceSet : <>[](s \notin beats) => <>[](heard[s] = "down")

(* A service that is back is reported back, unless Discord refused that very *)
(* message or the watchdog lost its memory in between.                       *)
RecoveryReported ==
  \A s \in ServiceSet : <>[](s \in beats) => <>[](heard[s] = "up" \/ s \in muted)

=============================================================================
