-------------------------- MODULE SupervisionProofs --------------------------
(* Proofs about what may stop the trading: ControlPlane, for any           *)
(* exchanges, targets and registry, and KillSwitch, which it asks, for     *)
(* every set of triggers, with Redis failures and restarts.                *)
EXTENDS ControlPlane, KillSwitch, TLAPS

-----------------------------------------------------------------------------
(* The control plane. *)

(* A RESUME waits for the order books only while nothing is paused, and    *)
(* the consumer takes no other command before it is done.                  *)
ResumingIsUnpaused == consumer = "resuming" => ~paused

IInv == TypeOK /\ HaltedIsPaused /\ ResumingIsUnpaused

-----------------------------------------------------------------------------
LEMMA FreshFacts ==
  ASSUME NEW b \in BOOLEAN, NEW k \in BOOLEAN
  PROVE  /\ Fresh(b, k).paused = FALSE /\ Fresh(b, k).ready \in BOOLEAN
         /\ Fresh(b, k).failover = "PRIMARY_ACTIVE"
         /\ Fresh(b, k).targets \in Targets
         /\ Fresh(b, k).router
              \in [active : Registered, primary : Exchanges, secondary : Exchanges]
  BY ConstantsAssumption DEF Fresh, Targets

LEMMA InitIInv == Init => IInv
<1> SUFFICES ASSUME Init PROVE IInv
  OBVIOUS
<1>1. blocked \in BOOLEAN /\ killed \in BOOLEAN
  BY DEF Init
<1> QED
  BY <1>1, FreshFacts
  DEF Init, IInv, TypeOK, HaltedIsPaused, ResumingIsUnpaused, FailoverState, Messages

(* The state machine never enters or leaves HALTED but by HALT. *)
LEMMA AppliedFacts ==
  ASSUME failover \in FailoverState, NEW c
  PROVE  /\ Applied(c) \in FailoverState
         /\ Applied(c) = "HALTED" <=> failover = "HALTED"
<1>1. \A m \in Moves : m.to \in FailoverState \ {"HALTED"} /\ m.from # "HALTED"
  BY DEF Moves, FailoverState
<1>2. CASE \E m \in Moves : m.command = c /\ m.from = failover
  <2> DEFINE move == CHOOSE m \in Moves : m.command = c /\ m.from = failover
  <2>1. move \in Moves /\ move.from = failover
    BY <1>2
  <2>2. Applied(c) = move.to
    BY <1>2 DEF Applied
  <2> HIDE DEF move
  <2> QED
    BY <2>1, <2>2, <1>1
<1>3. CASE ~\E m \in Moves : m.command = c /\ m.from = failover
  BY <1>3 DEF Applied
<1> QED
  BY <1>2, <1>3

LEMMA SwitchTyped ==
  ASSUME TypeOK,
         NEW r \in [active : Registered, primary : Exchanges, secondary : Exchanges],
         NEW x, NEW message \in Messages, Switch(r, x, message)
  PROVE  /\ router' \in [active : Registered, primary : Exchanges, secondary : Exchanges]
         /\ up' \in BOOLEAN /\ result' \in Messages
  BY DEF Switch, TypeOK

LEMMA FailoverExecIInv == IInv /\ FailoverExec => IInv'
<1> SUFFICES ASSUME IInv, FailoverExec PROVE IInv'
  OBVIOUS
<1> DEFINE r == IF targets.primary # None /\ targets.secondary # None
                  THEN [router EXCEPT !.primary = targets.primary,
                                      !.secondary = targets.secondary]
                  ELSE router
<1>1. r \in [active : Registered, primary : Exchanges, secondary : Exchanges]
  BY DEF IInv, TypeOK, Targets
<1>2. Applied("FAILOVER_EXEC") \in FailoverState
        /\ (Applied("FAILOVER_EXEC") = "HALTED" <=> failover = "HALTED")
  BY AppliedFacts DEF IInv, TypeOK
<1>3. router' \in [active : Registered, primary : Exchanges, secondary : Exchanges]
        /\ up' \in BOOLEAN /\ result' \in Messages
  <2>1. CASE HasRouter
    <3>1. Switch(r, r.secondary, "failover_complete")
      BY <2>1 DEF FailoverExec
    <3>2. "failover_complete" \in Messages
      BY DEF Messages
    <3> HIDE DEF r
    <3> QED
      BY <1>1, <3>1, <3>2, SwitchTyped DEF IInv
  <2>2. CASE ~HasRouter
    BY <2>2 DEF FailoverExec, IInv, TypeOK, Messages
  <2> QED
    BY <2>1, <2>2
<1> QED
  BY <1>2, <1>3 DEF FailoverExec, IInv, TypeOK, HaltedIsPaused, ResumingIsUnpaused, flags, tasks, env

LEMMA RecoverExecIInv == IInv /\ RecoverExec => IInv'
<1> SUFFICES ASSUME IInv, RecoverExec PROVE IInv'
  OBVIOUS
<1> DEFINE r == IF targets.primary # None
                  THEN [router EXCEPT !.primary = targets.primary] ELSE router
<1>1. r \in [active : Registered, primary : Exchanges, secondary : Exchanges]
  BY DEF IInv, TypeOK, Targets
<1>2. Applied("RECOVER_EXEC") \in FailoverState
        /\ (Applied("RECOVER_EXEC") = "HALTED" <=> failover = "HALTED")
  BY AppliedFacts DEF IInv, TypeOK
<1>3. router' \in [active : Registered, primary : Exchanges, secondary : Exchanges]
        /\ up' \in BOOLEAN /\ result' \in Messages
  <2>1. CASE HasRouter
    <3>1. Switch(r, r.primary, "recovery_complete")
      BY <2>1 DEF RecoverExec
    <3>2. "recovery_complete" \in Messages
      BY DEF Messages
    <3> HIDE DEF r
    <3> QED
      BY <1>1, <3>1, <3>2, SwitchTyped DEF IInv
  <2>2. CASE ~HasRouter
    BY <2>2 DEF RecoverExec, IInv, TypeOK, Messages
  <2> QED
    BY <2>1, <2>2
<1> QED
  BY <1>2, <1>3 DEF RecoverExec, IInv, TypeOK, HaltedIsPaused, ResumingIsUnpaused, flags, tasks, env

LEMMA CommandIInv == IInv /\ Command => IInv'
<1> SUFFICES ASSUME IInv, Command PROVE IInv'
  OBVIOUS
<1> USE DEF IInv, TypeOK, HaltedIsPaused, ResumingIsUnpaused, Messages, switching, tasks, env
<1>1. CASE Pause
  BY <1>1 DEF Pause, Idle
<1>2. CASE Halt
  BY <1>2 DEF Halt, Idle, FailoverState
<1>3. CASE Resume
  BY <1>3 DEF Resume, _static_execution_prereq
<1>4. ASSUME NEW c \in {"FAILOVER_ARM", "RECOVER_ARM"}, NEW t \in ArmTargets, Arm(c, t)
      PROVE  IInv'
  <2>1. Applied(c) \in FailoverState /\ (Applied(c) = "HALTED" <=> failover = "HALTED")
    BY AppliedFacts
  <2>2. t \in Targets
    BY ConstantsAssumption
  <2> QED
    BY <1>4, <2>1, <2>2 DEF Arm, flags
<1> QED
  BY <1>1, <1>2, <1>3, <1>4, FailoverExecIInv, RecoverExecIInv DEF Command

LEMMA TaskIInv ==
  IInv /\ (Resumed \/ SnapshotLoop \/ ReadBooks("consumer") \/ ReadBooks("probe")) => IInv'
<1> SUFFICES ASSUME IInv, Resumed \/ SnapshotLoop \/ ReadBooks("consumer") \/ ReadBooks("probe")
             PROVE  IInv'
  OBVIOUS
<1> USE DEF IInv, TypeOK, HaltedIsPaused, ResumingIsUnpaused, flags, switching, env
<1>1. CASE Resumed
  BY <1>1 DEF Resumed, Messages
<1>2. CASE Probe
  BY <1>2 DEF Probe
<1>3. CASE Probed
  BY <1>3 DEF Probed
<1>4. ASSUME NEW t \in {"consumer", "probe"}, ReadBooks(t) PROVE IInv'
  BY <1>4 DEF ReadBooks
<1> QED
  BY <1>1, <1>2, <1>3, <1>4 DEF SnapshotLoop

LEMMA WorldIInv == IInv /\ (World \/ Restart) => IInv'
<1> SUFFICES ASSUME IInv, World \/ Restart PROVE IInv'
  OBVIOUS
<1> USE DEF IInv, TypeOK, HaltedIsPaused, ResumingIsUnpaused
<1>1. CASE World
  BY <1>1 DEF World, flags, switching, tasks
<1>2. CASE Restart
  <2>1. blocked' \in BOOLEAN /\ killed \in BOOLEAN
    BY <1>2 DEF Restart
  <2> QED
    BY <1>2, <2>1, FreshFacts DEF Restart, FailoverState
<1> QED
  BY <1>1, <1>2

LEMMA StepIInv == IInv /\ [Next]_vars => IInv'
<1> SUFFICES ASSUME IInv, [Next]_vars PROVE IInv'
  OBVIOUS
<1>1. CASE UNCHANGED vars
  BY <1>1 DEF vars, flags, switching, tasks, env, IInv, TypeOK, HaltedIsPaused,
              ResumingIsUnpaused
<1> QED
  BY <1>1, CommandIInv, TaskIInv, WorldIInv DEF Next

LEMMA SpecIInv == Spec => []IInv
  BY InitIInv, StepIInv, PTL DEF Spec

-----------------------------------------------------------------------------
(* No step but a restart leaves HALTED or lifts its pause. *)
LEMMA StepHaltIsFinal ==
  ASSUME IInv, [Next]_vars, failover = "HALTED"
  PROVE  Restart \/ (failover' = "HALTED" /\ paused')
<1>1. paused /\ consumer # "resuming"
  BY DEF IInv, HaltedIsPaused, ResumingIsUnpaused
<1>2. \A c : Applied(c) = "HALTED"
  BY AppliedFacts DEF IInv, TypeOK
<1> USE <1>1, <1>2
<1>3. CASE UNCHANGED vars
  BY <1>3 DEF vars, flags, switching
<1>4. CASE Command
  <2>1. CASE Pause \/ Halt \/ Resume
    BY <2>1 DEF Pause, Halt, Resume, switching
  <2>2. CASE FailoverExec \/ RecoverExec
    BY <2>2 DEF FailoverExec, RecoverExec, flags
  <2>3. ASSUME NEW c, NEW t, Arm(c, t) PROVE failover' = "HALTED" /\ paused'
    BY <2>3 DEF Arm, flags
  <2> QED
    BY <1>4, <2>1, <2>2, <2>3 DEF Command
<1>5. CASE Resumed \/ SnapshotLoop \/ ReadBooks("consumer") \/ ReadBooks("probe")
  BY <1>5 DEF Resumed, SnapshotLoop, Probe, Probed, ReadBooks, flags, switching
<1>6. CASE World
  BY <1>6 DEF World, flags, switching
<1> QED
  BY <1>3, <1>4, <1>5, <1>6 DEF Next

(* Every state of the control plane is well typed; in particular the       *)
(* router's active exchange always has an adapter.                         *)
THEOREM ControlPlaneTypeCorrect == Spec => []TypeOK
  BY SpecIInv, PTL DEF IInv

(* Once HALT is applied, no command, probe or failed switch ends the pause *)
(* or leaves HALTED until the process is restarted.                        *)
THEOREM HaltStaysFinal == Spec => HaltIsFinal
<1>1. IInv /\ [Next]_vars
        => [failover = "HALTED" => Restart \/ (failover' = "HALTED" /\ paused')]_vars
  BY StepHaltIsFinal
<1> QED
  BY <1>1, SpecIInv, PTL DEF Spec, HaltIsFinal

-----------------------------------------------------------------------------
(* The kill switch. *)

(* A save that a trigger sent says "active". *)
SavesActivate == \A s \in saving : s.who # "sanity" => s.state.active

SwitchInv == SwitchTypeOK /\ SavesActivate /\ StoreRemembers

-----------------------------------------------------------------------------
LEMMA StateFacts ==
  /\ Clear \in State
  /\ \A s \in State, t \in Triggers : Triggered(s, t) \in State /\ Triggered(s, t).active
  BY DEF Clear, State, Triggered

LEMMA NamesAreLoaders ==
  /\ \A t \in Triggers : t \in Loaders /\ t \in Savers
  /\ "startup" \in Loaders /\ "refresh" \in Loaders /\ "sanity" \in Savers
  /\ Manual \in Triggers
  BY SwitchAssumption DEF Loaders, Savers

LEMMA InitSwitchInv == SwitchInit => SwitchInv
  BY StateFacts DEF SwitchInit, SwitchInv, SwitchTypeOK, SavesActivate, StoreRemembers, Clear

(* A caller that goes on, and a caller that asks, keep the loads typed. *)
LEMMA LoadsTyped ==
  ASSUME SwitchTypeOK, NEW l \in Loaders
  PROVE  /\ Ask(l) => load' \in [Loaders -> {"idle", "asked", "answered"}]
         /\ GoOn(l) => /\ load' \in [Loaders -> {"idle", "asked", "answered"}]
                         /\ answer' \in [Loaders -> State]
  BY StateFacts DEF SwitchTypeOK, Ask, GoOn

LEMMA RedisSwitchInv == SwitchInv /\ Redis => SwitchInv'
<1> SUFFICES ASSUME SwitchInv, Redis PROVE SwitchInv'
  OBVIOUS
<1> USE DEF SwitchInv, api
<1>1. CASE \E l \in Loaders : Answer(l)
  BY <1>1 DEF Answer, SwitchTypeOK, SavesActivate, StoreRemembers
<1>2. ASSUME NEW s \in saving, Land(s) PROVE SwitchInv'
  <2>1. s.who \in Savers /\ s.state \in State
    BY DEF SwitchTypeOK
  <2>2. SwitchTypeOK'
    BY <1>2, <2>1 DEF Land, SwitchTypeOK, Savers
  <2>3. SavesActivate'
    BY <1>2 DEF Land, SavesActivate
  <2>4. StoreRemembers'
    BY <1>2 DEF Land, SavesActivate, StoreRemembers
  <2> QED
    BY <2>2, <2>3, <2>4
<1>3. ASSUME NEW s \in saving, FailSave(s) PROVE SwitchInv'
  BY <1>3 DEF FailSave, SwitchTypeOK, SavesActivate, StoreRemembers
<1> QED
  BY <1>1, <1>2, <1>3 DEF Redis

LEMMA LifetimeSwitchInv == SwitchInv /\ Lifetime => SwitchInv'
<1> SUFFICES ASSUME SwitchInv, Lifetime PROVE SwitchInv'
  OBVIOUS
<1> USE StateFacts, NamesAreLoaders DEF SwitchInv, api, SavesActivate, StoreRemembers
<1>1. CASE Start
  BY <1>1, LoadsTyped DEF Start, SwitchTypeOK
<1>2. ASSUME NEW flat \in BOOLEAN, Started(flat) PROVE SwitchInv'
  BY <1>2, LoadsTyped DEF Started, SwitchTypeOK
<1>3. CASE StartedBlind
  BY <1>3, LoadsTyped DEF StartedBlind, SwitchTypeOK
<1>4. CASE SanityReset
  BY <1>4 DEF SanityReset, SwitchTypeOK
<1>5. CASE Stop
  BY <1>5 DEF Stop, SwitchTypeOK
<1> QED
  BY <1>1, <1>2, <1>3, <1>4, <1>5 DEF Lifetime

LEMMA TriggerOnSwitchInv ==
  ASSUME SwitchInv, NEW s \in State, NEW t \in Triggers, TriggerOn(s, t)
  PROVE  /\ cache' \in State /\ initialized' \in BOOLEAN
         /\ saving' \subseteq [who : Savers, state : State]
         /\ SavesActivate'
<1>1. /\ cache' = Triggered(s, t) /\ initialized' = TRUE
      /\ saving' = saving \cup {[who |-> t, state |-> cache']}
  BY DEF TriggerOn
<1>2. cache' \in State /\ cache'.active
  BY <1>1, StateFacts
<1>3. saving \subseteq [who : Savers, state : State] /\ t \in Savers
  BY NamesAreLoaders DEF SwitchInv, SwitchTypeOK
<1>4. SavesActivate'
  BY <1>1, <1>2 DEF SwitchInv, SavesActivate
<1> QED
  BY <1>1, <1>2, <1>3, <1>4

LEMMA WorkerSwitchInv == SwitchInv /\ (\E t \in Triggers : Worker(t)) => SwitchInv'
<1> SUFFICES ASSUME SwitchInv, NEW t \in Triggers, Worker(t) PROVE SwitchInv'
  OBVIOUS
<1> USE NamesAreLoaders DEF api
<1>1. CASE Trigger(t)
  <2>1. CASE initialized
    BY <1>1, <2>1, TriggerOnSwitchInv DEF Trigger, SwitchInv, SwitchTypeOK, StoreRemembers
  <2>2. CASE ~initialized
    BY <1>1, <2>2, LoadsTyped DEF Trigger, SwitchInv, SwitchTypeOK, SavesActivate, StoreRemembers
  <2> QED
    BY <2>1, <2>2
<1>2. CASE TriggerInitialized(t)
  <2>1. answer[t] \in State
    BY DEF SwitchInv, SwitchTypeOK
  <2> QED
    BY <1>2, <2>1, TriggerOnSwitchInv, LoadsTyped
    DEF TriggerInitialized, SwitchInv, SwitchTypeOK, StoreRemembers
<1>3. CASE TriggerFails(t)
  BY <1>3, LoadsTyped DEF TriggerFails, SwitchInv, SwitchTypeOK, SavesActivate, StoreRemembers
<1> QED
  BY <1>1, <1>2, <1>3 DEF Worker

LEMMA RefreshSwitchInv == SwitchInv /\ RefreshLoop => SwitchInv'
<1> SUFFICES ASSUME SwitchInv, RefreshLoop PROVE SwitchInv'
  OBVIOUS
<1> USE NamesAreLoaders, LoadsTyped DEF SwitchInv, api, SavesActivate, StoreRemembers
<1>1. CASE Refresh
  BY <1>1 DEF Refresh, SwitchTypeOK
<1>2. CASE Refreshed
  BY <1>2 DEF Refreshed, SwitchTypeOK
<1>3. CASE RefreshFails
  BY <1>3 DEF RefreshFails, SwitchTypeOK
<1> QED
  BY <1>1, <1>2, <1>3 DEF RefreshLoop

LEMMA EndpointsSwitchInv == SwitchInv /\ Endpoints => SwitchInv'
<1> SUFFICES ASSUME SwitchInv, Endpoints PROVE SwitchInv'
  OBVIOUS
<1> USE StateFacts, NamesAreLoaders DEF SwitchInv, SwitchTypeOK, runtime, SavesActivate, StoreRemembers
<1>1. CASE EndpointRead
  BY <1>1 DEF EndpointRead
<1>2. CASE EndpointTrigger
  BY <1>2 DEF EndpointTrigger
<1>3. CASE EndpointReset
  BY <1>3 DEF EndpointReset, api
<1> QED
  BY <1>1, <1>2, <1>3 DEF Endpoints

LEMMA StepSwitchInv == SwitchInv /\ [SwitchNext]_switchVars => SwitchInv'
<1> SUFFICES ASSUME SwitchInv, [SwitchNext]_switchVars PROVE SwitchInv'
  OBVIOUS
<1>1. CASE UNCHANGED switchVars
  BY <1>1 DEF switchVars, runtime, api, SwitchInv, SwitchTypeOK, SavesActivate, StoreRemembers
<1> QED
  BY <1>1, RedisSwitchInv, LifetimeSwitchInv, WorkerSwitchInv, RefreshSwitchInv, EndpointsSwitchInv DEF SwitchNext

LEMMA SpecSwitchInv == SwitchSpec => []SwitchInv
  BY InitSwitchInv, StepSwitchInv, PTL DEF SwitchSpec

-----------------------------------------------------------------------------
(* Every state of the switch, the key and the coroutines is well typed. *)
THEOREM KillSwitchTypeCorrect == SwitchSpec => []SwitchTypeOK
  BY SpecSwitchInv, PTL DEF SwitchInv

(* A trigger that reached Redis is never forgotten there: whatever the     *)
(* runtime, its restarts, failed commands and the dashboard's endpoints do *)
(* to the key, it says "active" until a reset is stored.                   *)
THEOREM StoreRemembersTriggers == SwitchSpec => []StoreRemembers
  BY SpecSwitchInv, PTL DEF SwitchInv
=============================================================================
