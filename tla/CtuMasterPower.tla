--------------------------- MODULE CtuMasterPower ---------------------------
(***************************************************************************)
(* The CTU master board: the power-up sequencer (srv_pwr_ctrl.c) and the   *)
(* fault policy that owns MOTOR (app_fault_policy.c), run by one timer     *)
(* (power_task.c): the sequencer in every tick, the policy in every Div-th *)
(* tick after it.  The RS485 command 0x05 clears the policy's latch        *)
(* between two ticks.                                                      *)
(*                                                                         *)
(* Both write motor_on, and each remembers the past on its own: the        *)
(* sequencer that MOTOR is wanted, the policy since when MOTOR runs and    *)
(* since when its power-good is missing.  The policy looks only while it   *)
(* finds the board powered and the emergency stop released.                *)
(*                                                                         *)
(* Times are counted in ticks, those of the policy in policy steps; the    *)
(* buzzer and the logs are left out.                                       *)
(***************************************************************************)
EXTENDS Naturals, Fsm

CONSTANTS
    Volts,        \* input voltages that are told apart, in V
    VinMin, VinMax,   \* the range in which outputs may be switched on
    OvTrip,       \* a powered board at this voltage is switched off ...
    OvTicks,      \* ... when it lasts this long
    SettleTicks,  \* step 3: after VIN_DC-DC is enabled
    PgdTicks,     \* step 5: debounce of the two power-good signals
    Div,          \* ticks per step of the fault policy
    Grace,        \* policy steps in which MOTOR's power-good is not judged
    LossTicks     \* policy steps for which it must then be missing

ASSUME MasterAssumption ==
    /\ Volts \subseteq Nat /\ {VinMin, VinMax, OvTrip} \subseteq Nat
    /\ VinMin > 0 /\ VinMin <= VinMax /\ VinMax < OvTrip
    /\ {OvTicks, SettleTicks, PgdTicks, Div, Grace, LossTicks} \subseteq Nat \ {0}

MasterStates ==
    {"IDLE", "CHECK_VIN", "CHECK_VIN_DCDC", "EN_VIN", "EN_24V", "POWERED"}

(* What a tick reads from the ADC and the status pins; the emergency stop  *)
(* counts when the digital pin and the redundant contacts agree.           *)
MasterInputs ==
    [vin : Volts, dcdc : Volts, pgds : BOOLEAN, motorOk : BOOLEAN,
     pressed : BOOLEAN, contactsOpen : BOOLEAN]
EstopOn(in) == in.pressed /\ in.contactsOpen

(* s_motor_pgd_low_since = 0.                                              *)
NotLow == LossTicks + 1

VARIABLES
    pc,      \* pwr_ctrl_t
    fp,      \* the static variables of app_fault_policy.c
    sub,     \* s_sub_tick
    calm,    \* from now on the supply is good and nobody presses a button
    ran,     \* policy steps that found MOTOR on since it was last off
    missed   \* an over-voltage shutdown took MOTOR from the policy, which has
             \* not found it off since

masterVars == <<pc, fp, sub, calm, ran, missed>>

Rails == {"vin", "dc24v", "aux", "motor"}
MasterInit ==
    /\ pc = [fsm |-> FsmGoto(FsmAt("IDLE"), "CHECK_VIN"), stage |-> 0, pgdOk |-> 0,
             ovFor |-> 0, ovLatched |-> FALSE, desired |-> FALSE, on |-> {}]
    /\ fp = [tripped |-> FALSE, prev |-> FALSE, valid |-> FALSE,
             enPrev |-> FALSE, enFor |-> 0, lowFor |-> NotLow]
    /\ sub = 0 /\ calm = FALSE
    /\ ran = 0 /\ missed = FALSE

-----------------------------------------------------------------------------
(* The sequencer.                                                          *)
Powered(p) == p.fsm.state = "POWERED"
InRange(v) == VinMin <= v /\ v <= VinMax

(* pwr_entry_cb.                                                           *)
Entered(p) ==
    [p EXCEPT !.stage = 0, !.pgdOk = 0,
              !.on = @ \cup (CASE p.fsm.state = "EN_VIN" -> {"vin"}
                               [] p.fsm.state = "EN_24V" -> {"dc24v"}
                               [] OTHER -> {})]

(* The result of a handler that returns state s.                           *)
To(p, s) == [p EXCEPT !.fsm = FsmGoto(@, s)]

PwrIdle(p, in) ==
    IF p.ovLatched /\ InRange(in.vin)
    THEN To([p EXCEPT !.ovLatched = FALSE, !.ovFor = 0], "CHECK_VIN")
    ELSE To(p, "IDLE")

CheckVin(p, in) ==
    IF InRange(in.vin)
    THEN To([p EXCEPT !.on = @ \cup {"aux"}, !.stage = 0], "CHECK_VIN_DCDC")
    ELSE To(p, "CHECK_VIN")

CheckVinDcdc(p, in) ==
    IF in.vin > 0 /\ (in.dcdc * 1000) \div in.vin >= 900
    THEN To([p EXCEPT !.stage = 0], "EN_VIN")
    ELSE To(p, "CHECK_VIN_DCDC")

(* Variant for checking the checks: one tick too many.                     *)
EnVinLate(p) ==
    IF p.stage + 1 > SettleTicks
    THEN To([p EXCEPT !.stage = 0], "EN_24V")
    ELSE To([p EXCEPT !.stage = @ + 1], "EN_VIN")
EnVin(p) ==
    IF p.stage + 1 >= SettleTicks
    THEN To([p EXCEPT !.stage = 0], "EN_24V")
    ELSE To([p EXCEPT !.stage = @ + 1], "EN_VIN")

En24V(p, in) ==
    LET ok == IF in.pgds THEN p.pgdOk + 1 ELSE 0
    IN  IF ok >= PgdTicks
        THEN To([p EXCEPT !.pgdOk = ok, !.stage = 0], "POWERED")
        ELSE To([p EXCEPT !.pgdOk = ok], "EN_24V")

(* Variant: AUX is forgotten.                                              *)
AllButAuxOff(p) == [p EXCEPT !.on = @ \cap {"aux"}, !.stage = 0, !.pgdOk = 0]
(* pwr_rails_all_off.                                                      *)
AllOff(p) == [p EXCEPT !.on = {}, !.stage = 0, !.pgdOk = 0]

(* Variant: the shutdown is not remembered.                                *)
NotLatched(p) == [AllOff(p) EXCEPT !.ovFor = 0]
Latched(p) == [AllOff(p) EXCEPT !.ovLatched = TRUE, !.ovFor = 0]
StayPowered(p, in) ==
    LET over == IF in.vin >= OvTrip THEN p.ovFor + 1 ELSE 0
    IN  IF over >= OvTicks
        THEN To(Latched(p), "IDLE")
        ELSE To([p EXCEPT !.ovFor = over,
                          !.on = IF p.desired THEN @ \cup {"motor"} ELSE @], "POWERED")

(* srv_pwr_ctrl_step.                                                      *)
PwrStep(p0, in) ==
    LET p == IF FsmEntering(p0.fsm) THEN Entered(p0) ELSE p0
    IN  CASE p.fsm.state = "IDLE"           -> PwrIdle(p, in)
          [] p.fsm.state = "CHECK_VIN"      -> CheckVin(p, in)
          [] p.fsm.state = "CHECK_VIN_DCDC" -> CheckVinDcdc(p, in)
          [] p.fsm.state = "EN_VIN"         -> EnVin(p)
          [] p.fsm.state = "EN_24V"         -> En24V(p, in)
          [] p.fsm.state = "POWERED"        -> StayPowered(p, in)

(* Variant: the request survives.                                          *)
MotorOffOnce(p) == [p EXCEPT !.on = @ \ {"motor"}]
(* srv_pwr_ctrl_motor_set: off acts at once, on waits for POWERED.         *)
MotorOff(p) == [p EXCEPT !.desired = FALSE, !.on = @ \ {"motor"}]
MotorOn(p) ==
    [p EXCEPT !.desired = TRUE,
              !.on = IF Powered(p) THEN @ \cup {"motor"} ELSE @]

-----------------------------------------------------------------------------
(* The fault policy.  millis() runs on whether or not it is looked at.     *)
Later(n, most) == IF n < most THEN n + 1 ELSE n
Aged(f) ==
    [f EXCEPT !.enFor = IF f.enPrev THEN Later(@, Grace) ELSE @,
              !.lowFor = IF @ = NotLow THEN NotLow ELSE Later(@, LossTicks)]

(* Variant: the start of MOTOR is not noticed.                             *)
JudgedAtOnce(f, motor, ok) ==
    IF ~motor THEN [f EXCEPT !.enPrev = FALSE, !.lowFor = NotLow]
    ELSE [f EXCEPT !.enPrev = TRUE,
                   !.lowFor = IF f.enFor < Grace THEN @
                              ELSE IF ok THEN NotLow
                              ELSE IF @ = NotLow THEN 0 ELSE @]
(* fault_policy_critical: what it leaves in f, and whether it trips.       *)
Judged(f, motor, ok) ==
    IF ~motor THEN [f EXCEPT !.enPrev = FALSE, !.enFor = 0, !.lowFor = NotLow]
    ELSE LET since == IF f.enPrev THEN f.enFor ELSE 0
         IN  [f EXCEPT !.enPrev = TRUE, !.enFor = since,
                       !.lowFor = IF since < Grace THEN @
                                  ELSE IF ok THEN NotLow
                                  ELSE IF @ = NotLow THEN 0 ELSE @]
Critical(f, motor, ok) ==
    motor /\ f.enFor >= Grace /\ ~ok /\ f.lowFor # NotLow /\ f.lowFor >= LossTicks

(* utils_edge_detect: any edge, and app_fault_policy_step takes either as  *)
(* the release of the emergency stop.                                      *)
Edge(f, in) == f.valid /\ EstopOn(in) # f.prev
Sampled(f, in) ==
    [f EXCEPT !.prev = EstopOn(in), !.valid = TRUE,
              !.tripped = @ /\ ~Edge(f, in)]

(* app_fault_policy_step, on the state that PwrStep has just left.         *)
PolicyStep(p, f0, in) ==
    LET f == Sampled(Aged(f0), in)
        stop == EstopOn(in)
        motor == "motor" \in p.on
        looks == ~stop /\ Powered(p)
        g == IF looks THEN Judged(f, motor, in.motorOk) ELSE f
        trip == stop \/ (looks /\ Critical(g, motor, in.motorOk))
    IN  IF f.tripped /\ stop
        THEN [pc |-> IF motor THEN MotorOff(p) ELSE p, fp |-> f]
        ELSE IF trip
        THEN [pc |-> MotorOff(p), fp |-> [g EXCEPT !.tripped = TRUE]]
        ELSE [pc |-> IF Powered(p) /\ ~g.tripped /\ ~motor THEN MotorOn(p) ELSE p,
              fp |-> g]

-----------------------------------------------------------------------------
(* power_timer_cb.                                                         *)
MasterTick(in) ==
    LET p == PwrStep(pc, in)
        r == PolicyStep(p, fp, in)
        due == sub + 1 >= Div
        looks == due /\ ~EstopOn(in) /\ Powered(p)
    IN  /\ calm => InRange(in.vin) /\ in.dcdc = in.vin /\ in.pgds /\ in.motorOk
                   /\ ~EstopOn(in)
        /\ sub' = IF due THEN 0 ELSE sub + 1
        /\ pc' = IF due THEN r.pc ELSE p
        /\ fp' = IF due THEN r.fp ELSE fp
        /\ ran' = IF "motor" \notin pc'.on THEN 0
                  ELSE IF due /\ "motor" \in p.on THEN Later(ran, Grace + LossTicks) ELSE ran
        /\ missed' = IF looks /\ "motor" \notin p.on THEN FALSE
                     ELSE missed \/ ("motor" \in pc.on /\ p.ovLatched)
        /\ UNCHANGED calm

(* Command 0x05 (com_reset_latch).                                         *)
RemoteReset ==
    /\ ~calm
    /\ fp' = [fp EXCEPT !.tripped = FALSE]
    /\ UNCHANGED <<pc, sub, calm, ran, missed>>

(* External: trouble ends.                                                 *)
MasterCalm == calm' = TRUE /\ UNCHANGED <<pc, fp, sub, ran, missed>>

MasterNext == (\E in \in MasterInputs : MasterTick(in)) \/ RemoteReset \/ MasterCalm
(* The main loop runs, and a tick always has some input.                   *)
MasterFairness == WF_masterVars(\E in \in MasterInputs : MasterTick(in))
MasterSpec == MasterInit /\ [][MasterNext]_masterVars /\ MasterFairness

-----------------------------------------------------------------------------
(* Type invariant of both parts of the master board.                       *)
MasterTypeOK ==
    /\ pc.fsm \in [state : MasterStates, last : MasterStates]
    /\ pc.stage \in 0 .. SettleTicks - 1 /\ pc.pgdOk \in 0 .. PgdTicks
    /\ pc.ovFor \in 0 .. OvTicks - 1 /\ {pc.ovLatched, pc.desired} \subseteq BOOLEAN
    /\ pc.on \subseteq Rails
    /\ {fp.tripped, fp.prev, fp.valid, fp.enPrev} \subseteq BOOLEAN
    /\ fp.enFor \in 0 .. Grace /\ fp.lowFor \in 0 .. NotLow
    /\ sub \in 0 .. Div - 1 /\ ran \in 0 .. Grace + LossTicks
    /\ {calm, missed} \subseteq BOOLEAN

(* An emergency stop that the policy has seen, and a trip, keep MOTOR off  *)
(* and unwanted, whatever the sequencer does between two policy steps: it  *)
(* starts MOTOR by itself as long as a request is on record.               *)
StoppedStaysOff == fp.prev \/ fp.tripped => "motor" \notin pc.on /\ ~pc.desired

(* The rails follow the sequence: MOTOR only on a powered board, a powered *)
(* board has the other three, an over-voltage shutdown leaves none, and    *)
(* nothing is on before AUX.                                               *)
RailsFollowTheSteps ==
    /\ "motor" \in pc.on => Powered(pc)
    /\ Powered(pc) => {"vin", "dc24v", "aux"} \subseteq pc.on
    /\ pc.fsm.state = "IDLE" => pc.on = {}
    /\ pc.on # {} => "aux" \in pc.on

(* Both.                                                                   *)
MasterRails == StoppedStaysOff /\ RailsFollowTheSteps

(* MOTOR is tripped for a missing power-good only after the settle window  *)
(* and the debounce (app_fault_policy.c:147-149: first a stable window for *)
(* the soft start).                                                        *)
LossTrip == ~fp.tripped /\ fp'.tripped /\ ~fp'.prev
GraceKept == [][LossTrip => ran >= Grace + LossTicks]_masterVars

(* What the code keeps of that: the window is cut short only when an       *)
(* over-voltage shutdown and restart took MOTOR off and on while the       *)
(* policy was not looking.                                                 *)
GraceLostByRestart == [][LossTrip /\ ran < Grace + LossTicks => missed]_masterVars

(* Once the supply is good and no stop is pressed, the board powers up by  *)
(* itself, also after an over-voltage shutdown, and MOTOR runs unless a    *)
(* trip is on record.                                                      *)
CalmStartsMotor == calm ~> ("motor" \in pc.on \/ fp.tripped)
=============================================================================
