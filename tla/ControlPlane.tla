---------------------------- MODULE ControlPlane ----------------------------
(***************************************************************************)
(* The operator's commands and what they change: the command consumer      *)
(* (control/command_consumer.py), the action handler (execution/actions.py)*)
(* the failover state machine (control/failover.py), the exchange router   *)
(* (execution/router.py) with the manager's failover calls                 *)
(* (execution/manager.py) and the snapshot loop that probes readiness      *)
(* (control/manager.py).                                                   *)
(*                                                                         *)
(* The consumer and the snapshot loop are two tasks of one event loop.     *)
(* They meet in the readiness probe, which awaits Redis between its static *)
(* checks and the assignment of the result.                                *)
(*                                                                         *)
(* FLATTEN, RISK_OVERRIDE, RELOAD_CONFIG and the order commands do not     *)
(* touch this state and are left out, as are ids, audit and reasons.       *)
(***************************************************************************)
EXTENDS Naturals

CONSTANTS
  Exchanges,   (* exchange names                                            *)
  Registered,  (* the ones with an adapter in the router's registry         *)
  Primary,     (* the exchanges the router is built with                    *)
  Secondary,
  None,        (* a target the command does not name                        *)
  ArmTargets,  (* the targets operators send                                *)
  HasRouter,   (* is an exchange router configured?                         *)
  Restarts     (* may the process stop and be started again?                *)

Messages == {"none", "paused", "halted", "resumed", "not_ready", "failover_armed",
             "recovery_armed", "failover_complete", "recovery_complete", "router_unavailable"}

Targets == [primary : Exchanges \cup {None}, secondary : Exchanges \cup {None}]

ASSUME ConstantsAssumption ==
  /\ Registered \subseteq Exchanges
  /\ Primary \in Registered /\ Secondary \in Exchanges
  /\ None \notin Exchanges
  /\ ArmTargets \subseteq Targets
  /\ {HasRouter, Restarts} \subseteq BOOLEAN

FailoverState ==
  {"PRIMARY_ACTIVE", "FAILOVER_ARMED", "SECONDARY_ACTIVE", "RECOVERY_PENDING", "HALTED"}

VARIABLES
  up,        (* the process runs                                            *)
  paused,    (* trading_paused                                              *)
  ready,     (* execution_ready                                             *)
  failover,  (* failover_state.context.state                                *)
  targets,   (* the context's and the manager's primary and secondary       *)
  router,    (* ExchangeRouterState                                         *)
  consumer,  (* the consumer: idle, or resuming (awaiting the order books)  *)
  probe,     (* the snapshot loop: idle, or probing (awaiting them)         *)
  read,      (* what each of the two was answered: none, fresh or stale     *)
  result,    (* the message of the last command's published result          *)
  reported,  (* execution_ready in the published control:state              *)
  blocked,   (* trading disabled, config drift or no credentials: fixed     *)
             (* while the process runs                                      *)
  killed,    (* kill_switch.is_active()                                     *)
  fresh      (* are the order books fresh?                                  *)

flags == <<paused, ready>>
switching == <<failover, targets, router>>
env == <<blocked, killed, fresh>>
tasks == <<consumer, probe, read>>
vars == <<up, flags, switching, tasks, reported, result, env>>

TypeOK ==
  /\ up \in BOOLEAN
  /\ paused \in BOOLEAN /\ ready \in BOOLEAN
  /\ failover \in FailoverState
  /\ targets \in Targets
  /\ router \in [active : Registered, primary : Exchanges, secondary : Exchanges]
  /\ consumer \in {"idle", "resuming"}
  /\ probe \in {"idle", "probing"}
  /\ read \in [{"consumer", "probe"} -> {"none", "fresh", "stale"}]
  /\ reported \in BOOLEAN
  /\ result \in Messages
  /\ blocked \in BOOLEAN /\ killed \in BOOLEAN /\ fresh \in BOOLEAN

(* A fresh process: everything but the published snapshot is in memory.    *)
(* The action handler's constructor takes the books as not yet checked.    *)
Fresh(b, k) ==
  [paused |-> FALSE, ready |-> ~b /\ ~k, failover |-> "PRIMARY_ACTIVE",
   targets |-> [primary |-> None, secondary |-> None],
   router |-> [active |-> Primary, primary |-> Primary, secondary |-> Secondary]]

Init ==
  /\ up = TRUE
  /\ blocked \in BOOLEAN /\ killed \in BOOLEAN /\ fresh \in BOOLEAN
  /\ paused = FALSE
  /\ ready = Fresh(blocked, killed).ready
  /\ failover = Fresh(blocked, killed).failover
  /\ targets = Fresh(blocked, killed).targets
  /\ router = Fresh(blocked, killed).router
  /\ consumer = "idle" /\ probe = "idle"
  /\ read = [t \in {"consumer", "probe"} |-> "none"]
  /\ reported = FALSE
  /\ result = "none"

-----------------------------------------------------------------------------
(* Readiness. *)

(* Mutant: the pause is not one of the static conditions. *)
PrereqForgetsPause == ~blocked /\ ~killed

_static_execution_prereq == ~blocked /\ ~paused /\ ~killed

(* The snapshot loop.  A failing static check needs no await. *)
Probe ==
  /\ up /\ probe = "idle"
  /\ IF _static_execution_prereq
       THEN probe' = "probing" /\ UNCHANGED <<ready, reported>>
       ELSE ready' = FALSE /\ reported' = FALSE /\ UNCHANGED probe
  /\ UNCHANGED <<up, paused, switching, consumer, read, result, env>>

(* Redis reads the order book health for the task t. *)
Waits(t) == (t = "consumer" /\ consumer = "resuming") \/ (t = "probe" /\ probe = "probing")

ReadBooks(t) ==
  /\ up /\ Waits(t) /\ read[t] = "none"
  /\ read' = [read EXCEPT ![t] = IF fresh THEN "fresh" ELSE "stale"]
  /\ UNCHANGED <<up, flags, switching, consumer, probe, reported, result, env>>

Probed ==
  /\ up /\ probe = "probing" /\ read["probe"] # "none"
  /\ probe' = "idle"
  /\ read' = [read EXCEPT !["probe"] = "none"]
  /\ ready' = (read["probe"] = "fresh")
  /\ reported' = ready'
  /\ UNCHANGED <<up, paused, switching, consumer, result, env>>

-----------------------------------------------------------------------------
(* PAUSE, RESUME, HALT.  After setting trading_paused the readiness check  *)
(* fails before its first await, so PAUSE and HALT are one step.           *)

Idle == up /\ consumer = "idle"

Pause ==
  /\ Idle
  /\ paused' = TRUE /\ ready' = FALSE
  /\ result' = "paused"
  /\ UNCHANGED <<up, switching, tasks, reported, env>>

Halt ==
  /\ Idle
  /\ paused' = TRUE /\ ready' = FALSE
  /\ failover' = "HALTED"
  /\ result' = "halted"
  /\ UNCHANGED <<up, targets, router, tasks, reported, env>>

(* Mutant: RESUME clears the pause before it refreshes the readiness. *)
ResumeClearsFirst ==
  /\ Idle
  /\ paused' = FALSE /\ UNCHANGED ready
  /\ result' = "resumed"
  /\ UNCHANGED <<up, switching, tasks, reported, env>>

(* RESUME refreshes the readiness first, under the pause it is to lift. *)
Resume ==
  /\ Idle
  /\ IF _static_execution_prereq
       THEN consumer' = "resuming" /\ UNCHANGED <<ready, result>>
       ELSE ready' = FALSE /\ result' = "not_ready" /\ UNCHANGED consumer
  /\ UNCHANGED <<up, paused, switching, probe, read, reported, env>>

Resumed ==
  /\ up /\ consumer = "resuming" /\ read["consumer"] # "none"
  /\ consumer' = "idle"
  /\ read' = [read EXCEPT !["consumer"] = "none"]
  /\ ready' = (read["consumer"] = "fresh")
  /\ paused' = IF ready' THEN FALSE ELSE paused
  /\ result' = IF ready' THEN "resumed" ELSE "not_ready"
  /\ UNCHANGED <<up, switching, probe, reported, env>>

-----------------------------------------------------------------------------
(* FailoverStateMachine.apply for everything but HALT: the state after a   *)
(* command.  HALTED, and any state the command is not for, is kept.        *)

Moves ==
  { [command |-> "FAILOVER_ARM", from |-> "PRIMARY_ACTIVE", to |-> "FAILOVER_ARMED"],
    [command |-> "FAILOVER_EXEC", from |-> "FAILOVER_ARMED", to |-> "SECONDARY_ACTIVE"],
    [command |-> "RECOVER_ARM", from |-> "SECONDARY_ACTIVE", to |-> "RECOVERY_PENDING"],
    [command |-> "RECOVER_EXEC", from |-> "RECOVERY_PENDING", to |-> "PRIMARY_ACTIVE"] }

Applied(c) ==
  IF \E m \in Moves : m.command = c /\ m.from = failover
    THEN (CHOOSE m \in Moves : m.command = c /\ m.from = failover).to
    ELSE failover

(* failover_arm and recover_arm: the targets are taken in every state, and *)
(* the answer is "executed" in every state.                                *)
Arm(c, t) ==
  /\ Idle
  /\ targets' = t
  /\ failover' = Applied(c)
  /\ result' = IF c = "FAILOVER_ARM" THEN "failover_armed" ELSE "recovery_armed"
  /\ UNCHANGED <<up, flags, router, tasks, reported, env>>

(* Mutant: a missing adapter goes unnoticed. *)
SwitchUnchecked(r, x, message) ==
  router' = [r EXCEPT !.active = x] /\ result' = message /\ UNCHANGED up

(* The router after a switch to exchange x: an exchange without an adapter *)
(* raises, which ends the consumer and with it the process.                *)
Switch(r, x, message) ==
  IF r.active = x \/ x \in Registered
    THEN router' = [r EXCEPT !.active = x] /\ result' = message /\ UNCHANGED up
    ELSE up' = FALSE /\ UNCHANGED <<router, result>>

(* failover_exec, recover_exec: the state machine may refuse the command;  *)
(* the manager is asked to switch all the same.                            *)
FailoverExec ==
  /\ Idle
  /\ failover' = Applied("FAILOVER_EXEC")
  /\ IF ~HasRouter
       THEN result' = "router_unavailable" /\ UNCHANGED <<router, up>>
       ELSE LET r == IF targets.primary # None /\ targets.secondary # None
                       THEN [router EXCEPT !.primary = targets.primary,
                                           !.secondary = targets.secondary]
                       ELSE router
            IN  Switch(r, r.secondary, "failover_complete")
  /\ UNCHANGED <<flags, targets, tasks, reported, env>>

RecoverExec ==
  /\ Idle
  /\ failover' = Applied("RECOVER_EXEC")
  /\ IF ~HasRouter
       THEN result' = "router_unavailable" /\ UNCHANGED <<router, up>>
       ELSE LET r == IF targets.primary # None
                       THEN [router EXCEPT !.primary = targets.primary] ELSE router
            IN  Switch(r, r.primary, "recovery_complete")
  /\ UNCHANGED <<flags, targets, tasks, reported, env>>

-----------------------------------------------------------------------------
(* The world: books go stale and recover, the kill switch acts, and the    *)
(* process ends and is started again with empty memory.                    *)
World ==
  /\ \/ fresh' = ~fresh /\ UNCHANGED killed
     \/ killed' = ~killed /\ UNCHANGED fresh
  /\ UNCHANGED <<up, flags, switching, tasks, reported, result, blocked>>

Restart ==
  /\ Restarts
  /\ up' = TRUE
  /\ blocked' \in BOOLEAN
  /\ LET f == Fresh(blocked', killed) IN
       /\ paused' = f.paused /\ ready' = f.ready
       /\ failover' = f.failover /\ targets' = f.targets /\ router' = f.router
  /\ consumer' = "idle" /\ probe' = "idle"
  /\ read' = [t \in {"consumer", "probe"} |-> "none"]
  /\ UNCHANGED <<reported, result, killed, fresh>>

Command ==
  \/ Pause \/ Halt \/ Resume
  \/ FailoverExec \/ RecoverExec
  \/ \E c \in {"FAILOVER_ARM", "RECOVER_ARM"}, t \in ArmTargets : Arm(c, t)

SnapshotLoop == Probe \/ Probed

Next ==
  \/ Command \/ Resumed \/ SnapshotLoop
  \/ ReadBooks("consumer") \/ ReadBooks("probe")
  \/ World \/ Restart

Spec == Init /\ [][Next]_vars

(* The snapshot loop keeps turning and Redis answers it. *)
LiveSpec ==
  /\ Spec
  /\ WF_vars(Probe) /\ WF_vars(Probed) /\ WF_vars(ReadBooks("probe"))

-----------------------------------------------------------------------------
(* Properties. *)

(* HALT is final: no sequence of pauses, resumes, failovers, recoveries,   *)
(* failed switches or probes in flight ends the pause or leaves HALTED     *)
(* while the process lives.                                                *)
HaltedIsPaused == failover = "HALTED" => paused

HaltIsFinal ==
  [][failover = "HALTED" => Restart \/ (failover' = "HALTED" /\ paused')]_vars

(* A reason not to trade that lasts is eventually, and then for good,      *)
(* reported by the snapshot, although a probe that passed its static check *)
(* before a PAUSE sets execution_ready after it.                           *)
UnreadinessIsLearned ==
  <>[](up /\ (paused \/ killed \/ blocked)) => <>[](~ready /\ ~reported)
=============================================================================
