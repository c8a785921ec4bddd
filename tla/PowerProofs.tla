----------------------------- MODULE PowerProofs ----------------------------
(***************************************************************************)
(* The three power boards, for any limits, thresholds and times, and with  *)
(* the commands to two of them (CommandProofs) side by side.               *)
(*                                                                         *)
(* CTU master board.  MasterRails is not inductive: the entry callbacks    *)
(* switch a rail on one tick after the sequencer has gone on, so what a    *)
(* state says of the rails depends on whether its entry is still due       *)
(* (Sequence); and the sequencer starts MOTOR by itself, so that a stop    *)
(* holds only because it takes the request off the record, too.            *)
(*                                                                         *)
(* CTU slave board.  The records of an output (machine, latch bit, pin,    *)
(* request) agree in themselves: RecordsAgree is inductive over the types. *)
(* The two claims about time need what the counters of the code say of the *)
(* time that has really passed: AgesKept for an output that is being       *)
(* enabled, LossCounted for a missing AUX supply.                          *)
(*                                                                         *)
(* E1 power board.  A tick is a chain of three records: the precharge, the *)
(* sequence, the policy.  Each is shown to keep the board safe (Safe), and *)
(* the precharge to keep the soft start of its state (Soft).               *)
(*                                                                         *)
(* All of them together.  A step of the boards is a step or a stutter of   *)
(* each one, so that the invariants hold side by side.                     *)
(***************************************************************************)
EXTENDS MCPowerBoards, CommandProofs

-----------------------------------------------------------------------------
(* The boards.                                                             *)

Stages == 0 .. SettleTicks - 1
Goods == 0 .. PgdTicks
Overs == 0 .. OvTicks - 1
Ages == 0 .. Grace
Lows == 0 .. NotLow

PwrRecord ==
    [fsm : [state : MasterStates, last : MasterStates], stage : Stages,
     pgdOk : Goods, ovFor : Overs, ovLatched : BOOLEAN, desired : BOOLEAN, on : SUBSET Rails]
PolicyRecord ==
    [tripped : BOOLEAN, prev : BOOLEAN, valid : BOOLEAN, enPrev : BOOLEAN,
     enFor : Ages, lowFor : Lows]

(* What a state says of the rails when its entry callback is due, and when *)
(* it has run.                                                             *)
Steps(place, outs) ==
    /\ "motor" \in outs => place = "POWERED"
    /\ place \in {"IDLE", "CHECK_VIN"} => outs = {}
    /\ place \notin {"IDLE", "CHECK_VIN"} => "aux" \in outs
    /\ place \in {"EN_24V", "POWERED"} => "vin" \in outs
    /\ place = "POWERED" => "dc24v" \in outs
Driven(place, outs) ==
    /\ place = "EN_VIN" => "vin" \in outs
    /\ place = "EN_24V" => "dc24v" \in outs
Debounced(p) == p.fsm.state = "EN_24V" => p.pgdOk < PgdTicks
StepSettled(p) ==
    /\ Steps(p.fsm.state, p.on) /\ Driven(p.fsm.state, p.on) /\ Debounced(p)
    /\ p.ovLatched => p.fsm.state = "IDLE"
Sequence(p) ==
    /\ Steps(p.fsm.state, p.on)
    /\ ~FsmEntering(p.fsm) => Driven(p.fsm.state, p.on) /\ Debounced(p)
    /\ p.ovLatched => p.fsm.state = "IDLE"

(* A stop or a trip that the policy has on record, with the request.       *)
Stopped(p, f) == f.prev \/ f.tripped => "motor" \notin p.on /\ ~p.desired

(* The clocks of the policy never run ahead of the steps that found MOTOR  *)
(* on (n), unless a shutdown was missed (m).                               *)
Timed(p, f, n, m) ==
    /\ ~f.enPrev => f.lowFor = NotLow
    /\ ~m /\ f.enPrev =>
         /\ p.desired => "motor" \in p.on
         /\ "motor" \in p.on =>
              /\ f.enFor < n
              /\ f.lowFor # NotLow => f.lowFor + Grace < n \/ n = Grace + LossTicks

MasterInv ==
    /\ pc \in PwrRecord /\ fp \in PolicyRecord /\ Sequence(pc) /\ Stopped(pc, fp)
    /\ Timed(pc, fp, ran, missed)
    /\ sub \in 0 .. Div - 1 /\ ran \in 0 .. Grace + LossTicks
    /\ calm \in BOOLEAN /\ missed \in BOOLEAN

(* What every operation of the sequencer keeps: the request, and that      *)
(* MOTOR runs only where it ran or is requested.                           *)
Obeys(p, q) ==
    /\ q \in PwrRecord /\ Sequence(q) /\ q.desired = p.desired
    /\ "motor" \in q.on => "motor" \in p.on \/ p.desired
    /\ "motor" \in p.on => "motor" \in q.on \/ q.ovLatched

-----------------------------------------------------------------------------
(* Every counter may be cleared.                                           *)
LEMMA Ranges ==
    /\ 0 \in Stages /\ 0 \in Goods /\ 0 \in Overs /\ 0 \in Ages /\ 0 \in Lows
    /\ NotLow \in Lows /\ 0 < PgdTicks /\ TRUE \in BOOLEAN /\ FALSE \in BOOLEAN
BY MasterAssumption DEF NotLow, Stages, Goods, Overs, Ages, Lows

(* What setting one field of the sequencer leaves.                         *)
LEMMA PwrParts ==
    ASSUME NEW p \in PwrRecord
    PROVE  /\ \A x \in [state : MasterStates, last : MasterStates] : LET q == [p EXCEPT !.fsm = x] IN
                q \in PwrRecord /\ q.fsm = x
                /\ q.stage = p.stage /\ q.pgdOk = p.pgdOk /\ q.ovFor = p.ovFor
                /\ q.ovLatched = p.ovLatched /\ q.desired = p.desired /\ q.on = p.on
           /\ \A x \in Stages : LET q == [p EXCEPT !.stage = x] IN
                q \in PwrRecord /\ q.stage = x
                /\ q.fsm = p.fsm /\ q.pgdOk = p.pgdOk /\ q.ovFor = p.ovFor
                /\ q.ovLatched = p.ovLatched /\ q.desired = p.desired /\ q.on = p.on
           /\ \A x \in Goods : LET q == [p EXCEPT !.pgdOk = x] IN
                q \in PwrRecord /\ q.pgdOk = x
                /\ q.fsm = p.fsm /\ q.stage = p.stage /\ q.ovFor = p.ovFor
                /\ q.ovLatched = p.ovLatched /\ q.desired = p.desired /\ q.on = p.on
           /\ \A x \in Overs : LET q == [p EXCEPT !.ovFor = x] IN
                q \in PwrRecord /\ q.ovFor = x
                /\ q.fsm = p.fsm /\ q.stage = p.stage /\ q.pgdOk = p.pgdOk
                /\ q.ovLatched = p.ovLatched /\ q.desired = p.desired /\ q.on = p.on
           /\ \A x \in BOOLEAN : LET q == [p EXCEPT !.ovLatched = x] IN
                q \in PwrRecord /\ q.ovLatched = x
                /\ q.fsm = p.fsm /\ q.stage = p.stage /\ q.pgdOk = p.pgdOk
                /\ q.ovFor = p.ovFor /\ q.desired = p.desired /\ q.on = p.on
           /\ \A x \in BOOLEAN : LET q == [p EXCEPT !.desired = x] IN
                q \in PwrRecord /\ q.desired = x
                /\ q.fsm = p.fsm /\ q.stage = p.stage /\ q.pgdOk = p.pgdOk
                /\ q.ovFor = p.ovFor /\ q.ovLatched = p.ovLatched /\ q.on = p.on
           /\ \A x \in SUBSET Rails : LET q == [p EXCEPT !.on = x] IN
                q \in PwrRecord /\ q.on = x
                /\ q.fsm = p.fsm /\ q.stage = p.stage /\ q.pgdOk = p.pgdOk
                /\ q.ovFor = p.ovFor /\ q.ovLatched = p.ovLatched /\ q.desired = p.desired
BY DEF PwrRecord

(* What setting one field of the policy leaves.                            *)
LEMMA PolicyParts ==
    ASSUME NEW f \in PolicyRecord
    PROVE  /\ \A x \in BOOLEAN : LET g == [f EXCEPT !.tripped = x] IN
                g \in PolicyRecord /\ g.tripped = x
                /\ g.prev = f.prev /\ g.valid = f.valid /\ g.enPrev = f.enPrev
                /\ g.enFor = f.enFor /\ g.lowFor = f.lowFor
           /\ \A x \in BOOLEAN : LET g == [f EXCEPT !.prev = x] IN
                g \in PolicyRecord /\ g.prev = x
                /\ g.tripped = f.tripped /\ g.valid = f.valid /\ g.enPrev = f.enPrev
                /\ g.enFor = f.enFor /\ g.lowFor = f.lowFor
           /\ \A x \in BOOLEAN : LET g == [f EXCEPT !.valid = x] IN
                g \in PolicyRecord /\ g.valid = x
                /\ g.tripped = f.tripped /\ g.prev = f.prev /\ g.enPrev = f.enPrev
                /\ g.enFor = f.enFor /\ g.lowFor = f.lowFor
           /\ \A x \in BOOLEAN : LET g == [f EXCEPT !.enPrev = x] IN
                g \in PolicyRecord /\ g.enPrev = x
                /\ g.tripped = f.tripped /\ g.prev = f.prev /\ g.valid = f.valid
                /\ g.enFor = f.enFor /\ g.lowFor = f.lowFor
           /\ \A x \in Ages : LET g == [f EXCEPT !.enFor = x] IN
                g \in PolicyRecord /\ g.enFor = x
                /\ g.tripped = f.tripped /\ g.prev = f.prev /\ g.valid = f.valid
                /\ g.enPrev = f.enPrev /\ g.lowFor = f.lowFor
           /\ \A x \in Lows : LET g == [f EXCEPT !.lowFor = x] IN
                g \in PolicyRecord /\ g.lowFor = x
                /\ g.tripped = f.tripped /\ g.prev = f.prev /\ g.valid = f.valid
                /\ g.enPrev = f.enPrev /\ g.enFor = f.enFor
BY DEF PolicyRecord

(* A change of state of the master.                                        *)
LEMMA ToResult ==
    ASSUME NEW p \in PwrRecord, NEW s \in MasterStates
    PROVE  /\ To(p, s) \in PwrRecord
           /\ To(p, s).fsm = [state |-> s, last |-> p.fsm.state]
           /\ To(p, s).on = p.on /\ To(p, s).desired = p.desired
           /\ To(p, s).ovLatched = p.ovLatched /\ To(p, s).pgdOk = p.pgdOk
BY DEF To, PwrRecord, FsmGoto

(* A handler that stays, or goes on, with the rails p.on of its state.     *)
LEMMA GoesOn ==
    ASSUME NEW p \in PwrRecord, NEW q \in PwrRecord, NEW s \in MasterStates,
           q.fsm = p.fsm, q.desired = p.desired,
           "motor" \in q.on => "motor" \in p.on \/ p.desired,
           "motor" \in p.on => "motor" \in q.on \/ q.ovLatched,
           q.ovLatched => s = "IDLE", Steps(s, q.on),
           s = p.fsm.state => Driven(s, q.on) /\ (s = "EN_24V" => q.pgdOk < PgdTicks)
    PROVE  Obeys(p, To(q, s))
<1>1. /\ To(q, s) \in PwrRecord /\ To(q, s).on = q.on /\ To(q, s).desired = p.desired
      /\ To(q, s).fsm = [state |-> s, last |-> p.fsm.state]
      /\ To(q, s).ovLatched = q.ovLatched /\ To(q, s).pgdOk = q.pgdOk
  BY ToResult
<1>2. /\ To(q, s).fsm.state = s
      /\ FsmEntering(To(q, s).fsm) <=> s # p.fsm.state
  BY <1>1 DEF FsmEntering
<1> QED BY <1>1, <1>2 DEF Obeys, Sequence, Debounced

(* What entering a state does to the rails.                                *)
LEMMA EnteredRails ==
    ASSUME NEW p \in PwrRecord, Sequence(p), FsmEntering(p.fsm)
    PROVE  /\ Entered(p) \in PwrRecord /\ StepSettled(Entered(p))
           /\ Entered(p).fsm = p.fsm /\ Entered(p).desired = p.desired
           /\ "motor" \in Entered(p).on <=> "motor" \in p.on
<1> DEFINE more == CASE p.fsm.state = "EN_VIN" -> {"vin"}
                     [] p.fsm.state = "EN_24V" -> {"dc24v"}
                     [] OTHER -> {}
           outs == p.on \cup more
<1>1. /\ more \subseteq {"vin", "dc24v"}
      /\ p.fsm.state = "EN_VIN" => "vin" \in more
      /\ p.fsm.state = "EN_24V" => "dc24v" \in more
      /\ p.fsm.state \notin {"EN_VIN", "EN_24V"} => more = {}
  OBVIOUS
<1>2. Entered(p) = [p EXCEPT !.stage = 0, !.pgdOk = 0, !.on = outs]
  BY DEF Entered
<1> HIDE DEF more
<1>3. outs \in SUBSET Rails
  BY <1>1 DEF PwrRecord, Rails
<1>4. /\ Entered(p) \in PwrRecord /\ Entered(p).on = outs
      /\ Entered(p).fsm = p.fsm /\ Entered(p).desired = p.desired
      /\ Entered(p).ovLatched = p.ovLatched /\ Entered(p).pgdOk = 0
  <2> HIDE DEF outs
  <2> DEFINE q == [p EXCEPT !.stage = 0]
             r == [q EXCEPT !.pgdOk = 0]
  <2>1. /\ q \in PwrRecord /\ q.fsm = p.fsm /\ q.desired = p.desired
        /\ q.ovLatched = p.ovLatched
    BY Ranges, PwrParts
  <2>2. /\ r \in PwrRecord /\ r.fsm = q.fsm /\ r.desired = q.desired
        /\ r.ovLatched = q.ovLatched /\ r.pgdOk = 0
    <3> HIDE DEF q
    <3> QED BY <2>1, Ranges, PwrParts
  <2>3. Entered(p) = [r EXCEPT !.on = outs]
    BY <1>2
  <2> HIDE DEF r
  <2> QED BY <1>3, <2>1, <2>2, <2>3, PwrParts
<1>5. Debounced(Entered(p))
  BY <1>4, Ranges DEF Debounced
<1>6. StepSettled(Entered(p)) /\ ("motor" \in outs <=> "motor" \in p.on)
  BY <1>1, <1>4, <1>5 DEF Sequence, StepSettled, Steps, Driven
<1> QED BY <1>4, <1>6

-----------------------------------------------------------------------------
(* The handlers, on a state whose entry callback has run.                  *)
LEMMA IdleObeys ==
    ASSUME NEW p \in PwrRecord, NEW in \in MasterInputs, StepSettled(p),
           p.fsm.state = "IDLE"
    PROVE  Obeys(p, PwrIdle(p, in))
<1> DEFINE a == [p EXCEPT !.ovLatched = FALSE]
           q == [a EXCEPT !.ovFor = 0]
<1>1. /\ q \in PwrRecord /\ q.fsm = p.fsm /\ q.on = p.on /\ q.desired = p.desired
      /\ ~q.ovLatched
  <2>1. /\ a \in PwrRecord /\ a.fsm = p.fsm /\ a.on = p.on /\ a.desired = p.desired
        /\ ~a.ovLatched
    BY Ranges, PwrParts
  <2> HIDE DEF a
  <2> QED BY <2>1, Ranges, PwrParts
<1>2. p.on = {}
  BY DEF StepSettled, Steps
<1>3. Obeys(p, To(q, "CHECK_VIN")) /\ Obeys(p, To(p, "IDLE"))
  <2> HIDE DEF q
  <2> QED BY <1>1, <1>2, GoesOn DEF MasterStates, StepSettled, Steps, Driven
<1> QED BY <1>3 DEF PwrIdle

(* The handlers of the states of the master obey the sequence.             *)
LEMMA CheckVinObeys ==
    ASSUME NEW p \in PwrRecord, NEW in \in MasterInputs, StepSettled(p),
           p.fsm.state = "CHECK_VIN"
    PROVE  Obeys(p, CheckVin(p, in))
<1> DEFINE outs == p.on \cup {"aux"}
           a == [p EXCEPT !.on = outs]
           q == [a EXCEPT !.stage = 0]
<1>1. /\ q \in PwrRecord /\ q.fsm = p.fsm /\ q.on = outs
      /\ q.desired = p.desired /\ q.ovLatched = p.ovLatched
  <2>1. outs \in SUBSET Rails
    BY DEF PwrRecord, Rails
  <2> HIDE DEF outs
  <2>2. /\ a \in PwrRecord /\ a.fsm = p.fsm /\ a.on = outs
        /\ a.desired = p.desired /\ a.ovLatched = p.ovLatched
    BY <2>1, PwrParts
  <2> HIDE DEF a
  <2> QED BY <2>2, Ranges, PwrParts
<1>2. p.on = {}
  BY DEF StepSettled, Steps
<1>3. Obeys(p, To(q, "CHECK_VIN_DCDC")) /\ Obeys(p, To(p, "CHECK_VIN"))
  <2> HIDE DEF q
  <2> QED BY <1>1, <1>2, GoesOn DEF MasterStates, StepSettled, Steps, Driven
<1> QED BY <1>3 DEF CheckVin

(* CHECK_VIN_DCDC.                                                         *)
LEMMA CheckVinDcdcObeys ==
    ASSUME NEW p \in PwrRecord, NEW in \in MasterInputs, StepSettled(p),
           p.fsm.state = "CHECK_VIN_DCDC"
    PROVE  Obeys(p, CheckVinDcdc(p, in))
<1> DEFINE q == [p EXCEPT !.stage = 0]
<1>1. /\ q \in PwrRecord /\ q.fsm = p.fsm /\ q.on = p.on /\ q.desired = p.desired
      /\ q.ovLatched = p.ovLatched
  BY Ranges, PwrParts
<1>2. Obeys(p, To(q, "EN_VIN")) /\ Obeys(p, To(p, "CHECK_VIN_DCDC"))
  <2> HIDE DEF q
  <2> QED BY <1>1, GoesOn DEF MasterStates, StepSettled, Steps, Driven
<1> QED BY <1>2 DEF CheckVinDcdc

(* EN_VIN.                                                                 *)
LEMMA EnVinObeys ==
    ASSUME NEW p \in PwrRecord, StepSettled(p), p.fsm.state = "EN_VIN"
    PROVE  Obeys(p, EnVin(p))
<1>1. ASSUME NEW n \in Stages
      PROVE  LET q == [p EXCEPT !.stage = n] IN
             /\ q \in PwrRecord /\ q.fsm = p.fsm /\ q.on = p.on
             /\ q.desired = p.desired /\ q.ovLatched = p.ovLatched
  BY PwrParts
<1>2. ASSUME NEW q \in PwrRecord, q.fsm = p.fsm, q.on = p.on, q.desired = p.desired,
             q.ovLatched = p.ovLatched
      PROVE  Obeys(p, To(q, "EN_24V")) /\ Obeys(p, To(q, "EN_VIN"))
  BY <1>2, GoesOn DEF MasterStates, StepSettled, Steps, Driven, Powered
<1>3. 0 \in Stages /\ (~(p.stage + 1 >= SettleTicks) => p.stage + 1 \in Stages)
  BY MasterAssumption DEF PwrRecord, Stages
<1> QED BY <1>1, <1>2, <1>3 DEF EnVin

(* EN_24V.                                                                 *)
LEMMA En24VObeys ==
    ASSUME NEW p \in PwrRecord, NEW in \in MasterInputs, StepSettled(p),
           p.fsm.state = "EN_24V"
    PROVE  Obeys(p, En24V(p, in))
<1> DEFINE ok == IF in.pgds THEN p.pgdOk + 1 ELSE 0
           wait == [p EXCEPT !.pgdOk = ok]
           clear == [wait EXCEPT !.stage = 0]
<1>1. ok \in Goods
  BY MasterAssumption DEF PwrRecord, StepSettled, Debounced, Goods
<1>2. /\ wait \in PwrRecord /\ wait.fsm = p.fsm /\ wait.on = p.on /\ wait.desired = p.desired
      /\ wait.ovLatched = p.ovLatched /\ wait.pgdOk = ok
  <2> HIDE DEF ok
  <2> QED BY <1>1, PwrParts
<1>3. /\ clear \in PwrRecord /\ clear.fsm = p.fsm /\ clear.on = p.on /\ clear.desired = p.desired
      /\ clear.ovLatched = p.ovLatched
  <2> HIDE DEF wait
  <2> QED BY <1>2, Ranges, PwrParts
<1>4. Obeys(p, To(clear, "POWERED")) /\ (ok < PgdTicks => Obeys(p, To(wait, "EN_24V")))
  <2> HIDE DEF clear, wait, ok
  <2> QED BY <1>2, <1>3, GoesOn DEF MasterStates, StepSettled, Steps, Driven, Powered
<1>5. ok >= PgdTicks \/ ok < PgdTicks
  BY <1>1, MasterAssumption DEF Goods
<1>6. En24V(p, in) = IF ok >= PgdTicks THEN To(clear, "POWERED") ELSE To(wait, "EN_24V")
  BY DEF En24V
<1> HIDE DEF ok, clear, wait
<1> QED BY <1>4, <1>5, <1>6

(* In the powered states.                                                  *)
LEMMA PoweredObeys ==
    ASSUME NEW p \in PwrRecord, NEW in \in MasterInputs, StepSettled(p), Powered(p)
    PROVE  Obeys(p, StayPowered(p, in))
<1> DEFINE over == IF in.vin >= OvTrip THEN p.ovFor + 1 ELSE 0
           outs == IF p.desired THEN p.on \cup {"motor"} ELSE p.on
           kept == [p EXCEPT !.ovFor = over]
           stay == [kept EXCEPT !.on = outs]
<1>1. over \in Nat /\ outs \in SUBSET Rails
  BY DEF PwrRecord, Rails, Overs
<1>2. /\ "motor" \in outs => "motor" \in p.on \/ p.desired
      /\ p.on \subseteq outs /\ outs \subseteq p.on \cup {"motor"}
  OBVIOUS
<1>3. ASSUME ~(over >= OvTicks)
      PROVE  /\ stay \in PwrRecord /\ stay.fsm = p.fsm /\ stay.on = outs
             /\ stay.desired = p.desired /\ stay.ovLatched = p.ovLatched
  <2>1. over \in Overs
    <3> HIDE DEF over
    <3> QED BY <1>1, <1>3, MasterAssumption DEF Overs
  <2>2. /\ kept \in PwrRecord /\ kept.fsm = p.fsm /\ kept.desired = p.desired
        /\ kept.ovLatched = p.ovLatched
    <3> HIDE DEF over
    <3> QED BY <2>1, PwrParts
  <2>3. outs \in SUBSET Rails
    BY <1>1
  <2> HIDE DEF kept, outs, over
  <2> QED BY <2>2, <2>3, PwrParts
<1>4. /\ Latched(p) \in PwrRecord /\ Latched(p).fsm = p.fsm /\ Latched(p).on = {}
      /\ Latched(p).desired = p.desired /\ Latched(p).ovLatched
  <2> DEFINE a == [p EXCEPT !.on = {}]
             b == [a EXCEPT !.stage = 0]
             c == [b EXCEPT !.pgdOk = 0]
             d == [c EXCEPT !.ovLatched = TRUE]
  <2>1. a \in PwrRecord /\ a.fsm = p.fsm /\ a.on = {} /\ a.desired = p.desired
    <3>1. {} \in SUBSET Rails
      OBVIOUS
    <3> QED BY <3>1, PwrParts
  <2>2. b \in PwrRecord /\ b.fsm = p.fsm /\ b.on = {} /\ b.desired = p.desired
    <3> HIDE DEF a
    <3> QED BY <2>1, Ranges, PwrParts
  <2>3. c \in PwrRecord /\ c.fsm = p.fsm /\ c.on = {} /\ c.desired = p.desired
    <3> HIDE DEF b
    <3> QED BY <2>2, Ranges, PwrParts
  <2>4. /\ d \in PwrRecord /\ d.fsm = p.fsm /\ d.on = {} /\ d.desired = p.desired
        /\ d.ovLatched
    <3> HIDE DEF c
    <3> QED BY <2>3, Ranges, PwrParts
  <2>5. Latched(p) = [d EXCEPT !.ovFor = 0]
    BY DEF Latched, AllOff
  <2> HIDE DEF d
  <2> QED BY <2>4, <2>5, Ranges, PwrParts
<1>5. Obeys(p, To(Latched(p), "IDLE"))
  BY <1>4, GoesOn DEF MasterStates, StepSettled, Steps, Driven, Powered
<1>6. ~(over >= OvTicks) => Obeys(p, To(stay, "POWERED"))
  <2> HIDE DEF outs, stay, over
  <2> QED BY <1>2, <1>3, GoesOn DEF MasterStates, StepSettled, Steps, Driven, Powered
<1>7. StayPowered(p, in) = IF over >= OvTicks THEN To(Latched(p), "IDLE")
                                              ELSE To(stay, "POWERED")
  BY DEF StayPowered
<1> HIDE DEF over, stay
<1> QED BY <1>5, <1>6, <1>7

(* The whole step: entering, then the handler.                             *)
LEMMA PwrStepObeys ==
    ASSUME NEW p0 \in PwrRecord, NEW in \in MasterInputs, Sequence(p0)
    PROVE  Obeys(p0, PwrStep(p0, in))
<1> DEFINE p == IF FsmEntering(p0.fsm) THEN Entered(p0) ELSE p0
<1>1. /\ p \in PwrRecord /\ StepSettled(p)
      /\ p.fsm = p0.fsm /\ p.desired = p0.desired
      /\ "motor" \in p.on <=> "motor" \in p0.on
  BY EnteredRails DEF Sequence, StepSettled
<1>2. p.fsm.state \in MasterStates
  BY <1>1 DEF PwrRecord
<1>3. PwrStep(p0, in) =
        CASE p.fsm.state = "IDLE"           -> PwrIdle(p, in)
          [] p.fsm.state = "CHECK_VIN"      -> CheckVin(p, in)
          [] p.fsm.state = "CHECK_VIN_DCDC" -> CheckVinDcdc(p, in)
          [] p.fsm.state = "EN_VIN"         -> EnVin(p)
          [] p.fsm.state = "EN_24V"         -> En24V(p, in)
          [] p.fsm.state = "POWERED"        -> StayPowered(p, in)
  BY DEF PwrStep
<1> HIDE DEF p
<1>4. Obeys(p, PwrStep(p0, in))
  <2>1. CASE p.fsm.state = "IDLE"
    BY <1>1, <1>3, <2>1, IdleObeys
  <2>2. CASE p.fsm.state = "CHECK_VIN"
    BY <1>1, <1>3, <2>2, CheckVinObeys
  <2>3. CASE p.fsm.state = "CHECK_VIN_DCDC"
    BY <1>1, <1>3, <2>3, CheckVinDcdcObeys
  <2>4. CASE p.fsm.state = "EN_VIN"
    BY <1>1, <1>3, <2>4, EnVinObeys
  <2>5. CASE p.fsm.state = "EN_24V"
    BY <1>1, <1>3, <2>5, En24VObeys
  <2>6. CASE p.fsm.state = "POWERED"
    BY <1>1, <1>3, <2>6, PoweredObeys DEF Powered
  <2> QED BY <1>2, <2>1, <2>2, <2>3, <2>4, <2>5, <2>6 DEF MasterStates
<1> QED BY <1>1, <1>4 DEF Obeys

-----------------------------------------------------------------------------
(* The fault policy.                                                       *)
LEMMA MotorOffResult ==
    ASSUME NEW p \in PwrRecord, Sequence(p)
    PROVE  /\ MotorOff(p) \in PwrRecord /\ Sequence(MotorOff(p))
           /\ "motor" \notin MotorOff(p).on /\ ~MotorOff(p).desired
<1>1. /\ MotorOff(p).fsm = p.fsm /\ MotorOff(p).desired = FALSE
      /\ MotorOff(p).on = p.on \ {"motor"} /\ MotorOff(p) \in PwrRecord
      /\ MotorOff(p).ovLatched = p.ovLatched /\ MotorOff(p).pgdOk = p.pgdOk
  <2> DEFINE q == [p EXCEPT !.desired = FALSE]
  <2>1. /\ q \in PwrRecord /\ q.fsm = p.fsm /\ q.on = p.on /\ q.desired = FALSE
        /\ q.ovLatched = p.ovLatched /\ q.pgdOk = p.pgdOk
    BY Ranges, PwrParts
  <2>2. MotorOff(p) = [q EXCEPT !.on = p.on \ {"motor"}]
    BY DEF MotorOff
  <2>3. p.on \ {"motor"} \in SUBSET Rails
    BY DEF PwrRecord
  <2> HIDE DEF q
  <2> QED BY <2>1, <2>2, <2>3, PwrParts
<1> QED BY <1>1 DEF Sequence, Steps, Driven, Debounced

(* pwr_motor_on.                                                           *)
LEMMA MotorOnResult ==
    ASSUME NEW p \in PwrRecord, Sequence(p), Powered(p)
    PROVE  MotorOn(p) \in PwrRecord /\ Sequence(MotorOn(p)) /\ "motor" \in MotorOn(p).on
<1>1. /\ MotorOn(p).fsm = p.fsm /\ MotorOn(p).on = p.on \cup {"motor"}
      /\ MotorOn(p) \in PwrRecord
      /\ MotorOn(p).ovLatched = p.ovLatched /\ MotorOn(p).pgdOk = p.pgdOk
  <2> DEFINE q == [p EXCEPT !.desired = TRUE]
             outs == p.on \cup {"motor"}
  <2>1. outs \in SUBSET Rails
    BY DEF PwrRecord, Rails
  <2>2. /\ q \in PwrRecord /\ q.fsm = p.fsm
        /\ q.ovLatched = p.ovLatched /\ q.pgdOk = p.pgdOk
    BY Ranges, PwrParts
  <2>3. MotorOn(p) = [q EXCEPT !.on = outs]
    BY DEF MotorOn
  <2> HIDE DEF q, outs
  <2>4. /\ MotorOn(p).fsm = p.fsm /\ MotorOn(p).on = outs /\ MotorOn(p) \in PwrRecord
        /\ MotorOn(p).ovLatched = p.ovLatched /\ MotorOn(p).pgdOk = p.pgdOk
    BY <2>1, <2>2, <2>3, PwrParts
  <2> QED BY <2>4 DEF outs
<1> QED BY <1>1 DEF Sequence, Steps, Driven, Debounced, Powered

(* A policy step later: the clocks that run have advanced, each up to its  *)
(* end.                                                                    *)
Since(f) == IF f.enPrev THEN Later(f.enFor, Grace) ELSE f.enFor
Low(f) == IF f.lowFor = NotLow THEN NotLow ELSE Later(f.lowFor, LossTicks)
(* The counters of the policy grow.                                        *)
LEMMA AgedResult ==
    ASSUME NEW f \in PolicyRecord
    PROVE  /\ Aged(f) \in PolicyRecord
           /\ Aged(f).tripped = f.tripped /\ Aged(f).enPrev = f.enPrev
           /\ Aged(f).enFor = Since(f) /\ Aged(f).lowFor = Low(f)
<1> DEFINE g == [f EXCEPT !.enFor = Since(f)]
<1>1. Since(f) \in Ages /\ Low(f) \in Lows
  BY MasterAssumption DEF PolicyRecord, Ages, Lows, Since, Low, Later, NotLow
<1>2. Aged(f) = [g EXCEPT !.lowFor = Low(f)]
  BY DEF Aged, Since, Low
<1>3. /\ g \in PolicyRecord /\ g.tripped = f.tripped /\ g.enPrev = f.enPrev
      /\ g.enFor = Since(f)
  BY <1>1, PolicyParts
<1> HIDE DEF g
<1> QED BY <1>1, <1>2, <1>3, PolicyParts

(* What the policy reads of the pins leaves tripped as it was, or clears   *)
(* it, and the clocks alone.                                               *)
LEMMA SampledResult ==
    ASSUME NEW f \in PolicyRecord, NEW in \in MasterInputs
    PROVE  LET g == Sampled(f, in) IN
           /\ g \in PolicyRecord /\ g.prev = EstopOn(in) /\ (g.tripped => f.tripped)
           /\ g.enPrev = f.enPrev /\ g.enFor = f.enFor /\ g.lowFor = f.lowFor
<1> DEFINE still == f.tripped /\ ~Edge(f, in)
           a == [f EXCEPT !.prev = EstopOn(in)]
           b == [a EXCEPT !.valid = TRUE]
           g == Sampled(f, in)
<1>1. EstopOn(in) \in BOOLEAN /\ still \in BOOLEAN
  BY DEF EstopOn, MasterInputs
<1>2. /\ a \in PolicyRecord /\ a.prev = EstopOn(in)
      /\ a.enPrev = f.enPrev /\ a.enFor = f.enFor /\ a.lowFor = f.lowFor
  BY <1>1, PolicyParts
<1>3. /\ b \in PolicyRecord /\ b.prev = EstopOn(in)
      /\ b.enPrev = f.enPrev /\ b.enFor = f.enFor /\ b.lowFor = f.lowFor
  <2> HIDE DEF a
  <2> QED BY <1>2, Ranges, PolicyParts
<1>4. g = [b EXCEPT !.tripped = still]
  BY DEF Sampled
<1>5. /\ g \in PolicyRecord /\ g.prev = EstopOn(in) /\ g.tripped = still
      /\ g.enPrev = f.enPrev /\ g.enFor = f.enFor /\ g.lowFor = f.lowFor
  <2> HIDE DEF b, still, g
  <2> QED BY <1>1, <1>3, <1>4, PolicyParts
<1> QED BY <1>5

(* What the policy makes of a MOTOR that is off, and of one that is on.    *)
LEMMA JudgedOff ==
    ASSUME NEW f \in PolicyRecord, NEW ok
    PROVE  LET g == Judged(f, FALSE, ok) IN
           /\ g \in PolicyRecord /\ g.prev = f.prev /\ g.tripped = f.tripped
           /\ ~g.enPrev /\ g.lowFor = NotLow
<1> DEFINE a == [f EXCEPT !.enPrev = FALSE]
           b == [a EXCEPT !.enFor = 0]
           g == [b EXCEPT !.lowFor = NotLow]
<1>1. Judged(f, FALSE, ok) = g
  BY DEF Judged
<1>2. a \in PolicyRecord /\ a.prev = f.prev /\ a.tripped = f.tripped /\ ~a.enPrev
  BY Ranges, PolicyParts
<1>3. b \in PolicyRecord /\ b.prev = f.prev /\ b.tripped = f.tripped /\ ~b.enPrev
  <2> HIDE DEF a
  <2> QED BY <1>2, Ranges, PolicyParts
<1>4. /\ g \in PolicyRecord /\ g.prev = f.prev /\ g.tripped = f.tripped
      /\ ~g.enPrev /\ g.lowFor = NotLow
  <2> HIDE DEF b
  <2> QED BY <1>3, Ranges, PolicyParts
<1> HIDE DEF g
<1> QED BY <1>1, <1>4

AgeOn(f) == IF f.enPrev THEN f.enFor ELSE 0
LowOn(f, old, ok) ==
    IF old < Grace THEN f.lowFor
    ELSE IF ok THEN NotLow ELSE IF f.lowFor = NotLow THEN 0 ELSE f.lowFor
(* The judgement while the supply is enabled.                              *)
LEMMA JudgedOn ==
    ASSUME NEW f \in PolicyRecord, NEW ok
    PROVE  LET g == Judged(f, TRUE, ok) IN
           /\ g \in PolicyRecord /\ g.prev = f.prev /\ g.tripped = f.tripped
           /\ g.enPrev /\ g.enFor = AgeOn(f) /\ g.lowFor = LowOn(f, AgeOn(f), ok)
<1> DEFINE since == AgeOn(f)
           low == LowOn(f, since, ok)
           a == [f EXCEPT !.enPrev = TRUE]
           b == [a EXCEPT !.enFor = since]
           g == [b EXCEPT !.lowFor = low]
<1>1. Judged(f, TRUE, ok) = g
  BY DEF Judged, AgeOn, LowOn
<1>2. since \in Ages /\ low \in Lows
  BY Ranges DEF PolicyRecord, AgeOn, LowOn
<1>3. a \in PolicyRecord /\ a.prev = f.prev /\ a.tripped = f.tripped /\ a.enPrev
  BY Ranges, PolicyParts
<1>4. /\ b \in PolicyRecord /\ b.prev = f.prev /\ b.tripped = f.tripped
      /\ b.enPrev /\ b.enFor = since
  <2> HIDE DEF a, since
  <2> QED BY <1>2, <1>3, PolicyParts
<1>5. /\ g \in PolicyRecord /\ g.prev = f.prev /\ g.tripped = f.tripped
      /\ g.enPrev /\ g.enFor = since /\ g.lowFor = low
  <2> HIDE DEF b, since, low
  <2> QED BY <1>2, <1>4, PolicyParts
<1> HIDE DEF g
<1> QED BY <1>1, <1>5

(* A trip of the policy.                                                   *)
LEMMA TrippedResult ==
    ASSUME NEW f \in PolicyRecord
    PROVE  LET g == [f EXCEPT !.tripped = TRUE] IN
           /\ g \in PolicyRecord /\ g.prev = f.prev /\ g.tripped
           /\ g.enPrev = f.enPrev /\ g.enFor = f.enFor /\ g.lowFor = f.lowFor
BY PolicyParts

(* What the policy has done to a sample f of its record f0 when MOTOR is   *)
(* on: the clocks stay behind the steps that found it on, and a trip needs *)
(* the whole window.                                                       *)
OneMore(n) == Later(n, Grace + LossTicks)
(* A loss is not judged before its time.                                   *)
LEMMA JudgedInTime ==
    ASSUME NEW f0 \in PolicyRecord, NEW f \in PolicyRecord, NEW ok,
           NEW n \in 0 .. Grace + LossTicks,
           f.enPrev = f0.enPrev, f.enFor = Since(f0), f.lowFor = Low(f0),
           f0.enPrev => f0.enFor < n,
           f0.lowFor # NotLow => f0.lowFor + Grace < n \/ n = Grace + LossTicks,
           ~f0.enPrev => f0.lowFor = NotLow
    PROVE  LET g == Judged(f, TRUE, ok) IN
           /\ g.enFor < OneMore(n)
           /\ g.lowFor # NotLow =>
                g.lowFor + Grace < OneMore(n) \/ OneMore(n) = Grace + LossTicks
           /\ Critical(g, TRUE, ok) => n = Grace + LossTicks
<1> DEFINE g == Judged(f, TRUE, ok)
           since == IF f0.enPrev THEN Later(f0.enFor, Grace) ELSE 0
<1>1. /\ g.enFor = since
      /\ g.lowFor = IF since < Grace THEN Low(f0)
                    ELSE IF ok THEN NotLow
                    ELSE IF Low(f0) = NotLow THEN 0 ELSE Low(f0)
  <2>1. g.enFor = AgeOn(f) /\ g.lowFor = LowOn(f, AgeOn(f), ok)
    BY JudgedOn
  <2>2. AgeOn(f) = since
    BY DEF AgeOn, Since
  <2> HIDE DEF g, since
  <2> QED BY <2>1, <2>2 DEF LowOn
<1>2. /\ f0.enFor \in 0 .. Grace /\ f0.lowFor \in 0 .. LossTicks + 1
      /\ Grace \in Nat /\ LossTicks \in Nat /\ Grace > 0 /\ LossTicks > 0
  BY MasterAssumption DEF PolicyRecord, Ages, Lows, NotLow
<1>3. /\ since \in 0 .. Grace /\ since < n + 1 /\ (since = 0 \/ f0.enPrev)
  BY <1>2 DEF Later
<1>4. Low(f0) # NotLow => /\ f0.lowFor # NotLow
                          /\ Low(f0) \in 0 .. LossTicks /\ Low(f0) <= f0.lowFor + 1
  BY <1>2 DEF Low, Later, NotLow
<1> HIDE DEF g, since
<1>5. g.enFor < OneMore(n)
  BY <1>1, <1>2, <1>3 DEF OneMore, Later
<1>6. g.lowFor # NotLow => \/ g.lowFor = 0 /\ since >= Grace
                           \/ g.lowFor = Low(f0) /\ Low(f0) # NotLow
  BY <1>1, <1>2, <1>3
<1>7. g.lowFor # NotLow =>
        g.lowFor + Grace < OneMore(n) \/ OneMore(n) = Grace + LossTicks
  BY <1>2, <1>3, <1>4, <1>6 DEF OneMore, Later
<1>8. Critical(g, TRUE, ok) => n = Grace + LossTicks
  BY <1>2, <1>3, <1>4, <1>6 DEF Critical
<1> QED BY <1>5, <1>7, <1>8 DEF g

(* One policy step on the state p that the sequencer has left, n policy    *)
(* steps after MOTOR was found on, with a shutdown missed or not (m).      *)
LEMMA PolicyKeeps ==
    ASSUME NEW p \in PwrRecord, NEW f0 \in PolicyRecord, NEW in \in MasterInputs,
           NEW n \in 0 .. Grace + LossTicks, NEW m \in BOOLEAN,
           Sequence(p), Stopped(p, f0), Timed(p, f0, n, m)
    PROVE  LET r == PolicyStep(p, f0, in)
               looks == ~EstopOn(in) /\ Powered(p)
               more == IF "motor" \notin r.pc.on THEN 0
                       ELSE IF "motor" \in p.on THEN OneMore(n) ELSE n
               miss == IF looks /\ "motor" \notin p.on THEN FALSE ELSE m
           IN  /\ r.pc \in PwrRecord /\ r.fp \in PolicyRecord
               /\ Sequence(r.pc) /\ Stopped(r.pc, r.fp)
               /\ Timed(r.pc, r.fp, more, miss)
               /\ ~f0.tripped /\ r.fp.tripped /\ ~r.fp.prev =>
                     "motor" \in p.on /\ (~m => n = Grace + LossTicks)
<1> DEFINE f == Sampled(Aged(f0), in)
           stop == EstopOn(in)
           motor == "motor" \in p.on
           looks == ~stop /\ Powered(p)
           g == IF looks THEN Judged(f, motor, in.motorOk) ELSE f
           trip == stop \/ (looks /\ Critical(g, motor, in.motorOk))
           r == PolicyStep(p, f0, in)
           more == IF "motor" \notin r.pc.on THEN 0 ELSE IF motor THEN OneMore(n) ELSE n
           miss == IF looks /\ ~motor THEN FALSE ELSE m
<1>1. /\ f \in PolicyRecord /\ f.prev = stop /\ (f.tripped => f0.tripped)
      /\ f.enPrev = f0.enPrev /\ f.enFor = Since(f0) /\ f.lowFor = Low(f0)
  <2>1. /\ Aged(f0) \in PolicyRecord
        /\ Aged(f0).tripped = f0.tripped /\ Aged(f0).enPrev = f0.enPrev
        /\ Aged(f0).enFor = Since(f0) /\ Aged(f0).lowFor = Low(f0)
    BY AgedResult
  <2> HIDE DEF stop
  <2> QED BY <2>1, SampledResult DEF stop
<1>2. in.motorOk \in BOOLEAN /\ motor \in BOOLEAN /\ stop \in BOOLEAN
  BY DEF MasterInputs, EstopOn
<1>3. r = IF f.tripped /\ stop
          THEN [pc |-> IF motor THEN MotorOff(p) ELSE p, fp |-> f]
          ELSE IF trip
          THEN [pc |-> MotorOff(p), fp |-> [g EXCEPT !.tripped = TRUE]]
          ELSE [pc |-> IF Powered(p) /\ ~g.tripped /\ ~motor THEN MotorOn(p) ELSE p,
                fp |-> g]
  BY DEF PolicyStep
<1>4. motor => Powered(p)
  BY DEF Sequence, Steps, Powered
<1> DEFINE Good == /\ r.pc \in PwrRecord /\ r.fp \in PolicyRecord
                   /\ Sequence(r.pc) /\ Stopped(r.pc, r.fp)
                   /\ Timed(r.pc, r.fp, more, miss)
                   /\ ~f0.tripped /\ r.fp.tripped /\ ~r.fp.prev =>
                         motor /\ (~m => n = Grace + LossTicks)
<1> SUFFICES Good
  OBVIOUS
<1>5. CASE stop
  <2>1. g = f /\ trip
    BY <1>5
  <2>2. ~f.enPrev => f.lowFor = NotLow
    BY <1>1 DEF Timed, Low
  <2> DEFINE h == [f EXCEPT !.tripped = TRUE]
  <2>3. h \in PolicyRecord /\ h.prev = f.prev /\ h.enPrev = f.enPrev /\ h.lowFor = f.lowFor
    BY <1>1, TrippedResult
  <2>4. /\ r.pc \in PwrRecord /\ Sequence(r.pc)
        /\ "motor" \notin r.pc.on /\ ~r.pc.desired
    <3> HIDE DEF f, g, trip, stop, r
    <3> QED BY <1>1, <1>3, <1>5, <2>1, MotorOffResult DEF Stopped
  <2>5. r.fp = f \/ r.fp = h
    <3> HIDE DEF f, g, trip, stop, r
    <3> QED BY <1>3, <2>1
  <2>6. /\ r.fp \in PolicyRecord /\ r.fp.prev
        /\ ~r.fp.enPrev => r.fp.lowFor = NotLow
    <3> HIDE DEF f, stop, r, h
    <3> QED BY <1>1, <1>5, <2>2, <2>3, <2>5
  <2> HIDE DEF f, g, trip, stop, r
  <2> QED BY <2>4, <2>6 DEF Stopped, Timed
<1>6. CASE ~stop /\ ~Powered(p)
  <2>1. g = f /\ ~trip /\ ~motor
    BY <1>4, <1>6
  <2>2. r.pc = p /\ r.fp = f
    <3> HIDE DEF f, g, trip, stop, r, motor
    <3> QED BY <1>3, <1>6, <2>1
  <2>3. miss = m
    BY <1>6
  <2> HIDE DEF f, g, trip, r, stop, miss
  <2> QED BY <1>1, <1>6, <2>1, <2>2, <2>3 DEF Stopped, Timed, Low
<1>7. CASE ~stop /\ Powered(p) /\ ~motor
  <2>1. g = Judged(f, FALSE, in.motorOk) /\ ~trip /\ ~miss
    <3>1. motor = FALSE
      BY <1>7
    <3> QED BY <1>7, <3>1 DEF Critical
  <2>2. /\ g \in PolicyRecord /\ g.prev = f.prev /\ g.tripped = f.tripped
        /\ ~g.enPrev /\ g.lowFor = NotLow
    <3> HIDE DEF f, g
    <3> QED BY <1>1, <1>2, <2>1, JudgedOff
  <2>3. r.fp = g /\ r.pc = IF ~g.tripped THEN MotorOn(p) ELSE p
    <3> HIDE DEF f, g, trip, stop, r, motor
    <3> QED BY <1>3, <1>7, <2>1
  <2> HIDE DEF f, g, trip, r, stop, miss, more
  <2> QED BY <1>1, <1>7, <2>2, <2>3, MotorOnResult DEF Stopped, Timed
<1>8. CASE ~stop /\ motor
  <2>0. motor = TRUE /\ looks /\ miss = m
    BY <1>4, <1>8
  <2>1. g = Judged(f, TRUE, in.motorOk) /\ (trip <=> Critical(g, TRUE, in.motorOk))
    BY <1>8, <2>0
  <2>2. /\ g \in PolicyRecord /\ g.prev = f.prev /\ g.tripped = f.tripped /\ g.enPrev
    <3> HIDE DEF f, g, stop
    <3> QED BY <1>1, <1>2, <2>1, JudgedOn
  <2>3. ~m => /\ g.enFor < OneMore(n)
              /\ g.lowFor # NotLow =>
                   g.lowFor + Grace < OneMore(n) \/ OneMore(n) = Grace + LossTicks
              /\ trip => n = Grace + LossTicks
    <3>1. SUFFICES ASSUME ~m PROVE /\ f0.enPrev => f0.enFor < n
                                   /\ f0.lowFor # NotLow => f0.lowFor + Grace < n \/ n = Grace + LossTicks
                                   /\ ~f0.enPrev => f0.lowFor = NotLow
      <4> HIDE DEF f, g, trip
      <4> QED BY <1>1, <1>2, <2>1, JudgedInTime
    <3> QED BY <1>8, <3>1 DEF Timed
  <2>4. /\ trip => r = [pc |-> MotorOff(p), fp |-> [g EXCEPT !.tripped = TRUE]]
        /\ ~trip => r = [pc |-> p, fp |-> g]
    <3> HIDE DEF f, g, trip, stop, r, motor
    <3> QED BY <1>3, <1>8
  <2>5. CASE trip
    <3> DEFINE h == [g EXCEPT !.tripped = TRUE]
    <3>1. h \in PolicyRecord /\ h.tripped /\ h.prev = g.prev /\ h.enPrev
      <4> HIDE DEF g
      <4> QED BY <2>2, TrippedResult
    <3>2. r.pc = MotorOff(p) /\ r.fp = h
      <4> HIDE DEF g, r, trip
      <4> QED BY <2>4, <2>5
    <3> HIDE DEF f, g, trip, r, stop, miss, more, h
    <3>3. /\ r.pc \in PwrRecord /\ Sequence(r.pc)
          /\ "motor" \notin r.pc.on /\ ~r.pc.desired
      BY <3>2, MotorOffResult
    <3>4. Stopped(r.pc, r.fp) /\ Timed(r.pc, r.fp, more, miss)
      BY <3>1, <3>2, <3>3 DEF Stopped, Timed
    <3> QED BY <2>0, <2>3, <2>5, <3>1, <3>2, <3>3, <3>4
  <2>6. CASE ~trip
    <3>1. ~f.tripped
      BY <1>1, <1>8 DEF Stopped
    <3>2. more = OneMore(n)
      BY <1>8, <2>4, <2>6
    <3> HIDE DEF f, g, trip, r, stop, miss, more
    <3> QED BY <1>1, <1>8, <2>0, <2>2, <2>3, <2>4, <2>6, <3>1, <3>2 DEF Stopped, Timed
  <2> QED BY <2>5, <2>6
<1> HIDE DEF stop, motor, Good
<1> QED BY <1>5, <1>6, <1>7, <1>8

-----------------------------------------------------------------------------
(* The invariant of the master.                                            *)
LEMMA MasterInitInv == MasterInit => MasterInv
<1> SUFFICES ASSUME MasterInit PROVE MasterInv
  OBVIOUS
<1>1. pc \in PwrRecord /\ fp \in PolicyRecord
  BY Ranges
     DEF MasterInit, PwrRecord, PolicyRecord, FsmGoto, FsmAt, MasterStates, Rails
<1>2. Sequence(pc) /\ Stopped(pc, fp)
  BY DEF MasterInit, FsmGoto, FsmAt, Sequence, Steps, Driven, Debounced, Stopped
<1>3. Timed(pc, fp, ran, missed)
  <2>1. fp.enPrev = FALSE /\ fp.lowFor = NotLow
    BY DEF MasterInit
  <2> QED BY <2>1 DEF Timed
<1>4. sub \in 0 .. Div - 1 /\ ran \in 0 .. Grace + LossTicks
  BY MasterAssumption DEF MasterInit
<1>5. calm \in BOOLEAN /\ missed \in BOOLEAN
  BY DEF MasterInit
<1> QED BY <1>1, <1>2, <1>3, <1>4, <1>5 DEF MasterInv

(* A tick keeps the invariant, and trips MOTOR for a missing power-good    *)
(* only after the window.                                                  *)
LEMMA MasterTickInv ==
    ASSUME MasterInv, NEW in \in MasterInputs, MasterTick(in)
    PROVE  MasterInv' /\ (LossTrip /\ ran < Grace + LossTicks => missed)
<1> DEFINE p == PwrStep(pc, in)
           r == PolicyStep(p, fp, in)
           m == missed \/ ("motor" \in pc.on /\ p.ovLatched)
           due == sub + 1 >= Div
<1>1. Obeys(pc, p)
  BY PwrStepObeys DEF MasterInv
<1> HIDE DEF p
<1>2. p \in PwrRecord /\ Sequence(p) /\ Stopped(p, fp)
  BY <1>1 DEF Obeys, MasterInv, Stopped
<1>3. Timed(p, fp, ran, m) /\ m \in BOOLEAN
  BY <1>1 DEF Obeys, MasterInv, Timed
<1>4. /\ sub' \in 0 .. Div - 1 /\ calm' = calm
      /\ due => pc' = r.pc /\ fp' = r.fp
      /\ ~due => pc' = p /\ fp' = fp
      /\ ran' = IF "motor" \notin pc'.on THEN 0
                ELSE IF due /\ "motor" \in p.on THEN OneMore(ran) ELSE ran
      /\ missed' = IF due /\ ~EstopOn(in) /\ Powered(p) /\ "motor" \notin p.on THEN FALSE
                   ELSE m
  BY MasterAssumption DEF MasterTick, MasterInv, p, OneMore
<1>5. ran' \in 0 .. Grace + LossTicks
  BY <1>4, MasterAssumption DEF MasterInv, OneMore, Later
<1>6. CASE due
  <2>1. /\ r.pc \in PwrRecord /\ r.fp \in PolicyRecord
        /\ Sequence(r.pc) /\ Stopped(r.pc, r.fp)
        /\ Timed(r.pc, r.fp, ran', missed')
        /\ ~fp.tripped /\ r.fp.tripped /\ ~r.fp.prev =>
              "motor" \in p.on /\ (~m => ran = Grace + LossTicks)
    <3> HIDE DEF m
    <3> DEFINE Kept == /\ r.pc \in PwrRecord /\ r.fp \in PolicyRecord
                       /\ Sequence(r.pc) /\ Stopped(r.pc, r.fp)
                       /\ Timed(r.pc, r.fp,
                                IF "motor" \notin r.pc.on THEN 0
                                ELSE IF "motor" \in p.on THEN OneMore(ran) ELSE ran,
                                IF ~EstopOn(in) /\ Powered(p) /\ "motor" \notin p.on
                                THEN FALSE ELSE m)
                       /\ ~fp.tripped /\ r.fp.tripped /\ ~r.fp.prev =>
                             "motor" \in p.on /\ (~m => ran = Grace + LossTicks)
    <3>1. Kept
      <4> ran \in 0 .. Grace + LossTicks /\ fp \in PolicyRecord
        BY DEF MasterInv
      <4> QED BY <1>2, <1>3, PolicyKeeps
    <3> HIDE DEF r
    <3>2. ran' = IF "motor" \notin r.pc.on THEN 0
                 ELSE IF "motor" \in p.on THEN OneMore(ran) ELSE ran
      BY <1>4, <1>6
    <3>3. missed' = IF ~EstopOn(in) /\ Powered(p) /\ "motor" \notin p.on
                    THEN FALSE ELSE m
      BY <1>4, <1>6
    <3> QED BY <3>1, <3>2, <3>3
  <2>2. missed' \in BOOLEAN
    BY <1>3, <1>4
  <2>3. MasterInv'
    <3> HIDE DEF r, m
    <3> QED BY <1>4, <1>5, <1>6, <2>1, <2>2 DEF MasterInv
  <2>4. LossTrip => "motor" \in p.on /\ (~m => ran = Grace + LossTicks)
    <3> HIDE DEF r, m
    <3> QED BY <1>4, <1>6, <2>1 DEF LossTrip
  <2>5. "motor" \in p.on => ~p.ovLatched
    BY <1>2 DEF Sequence, Steps
  <2>6. ran = Grace + LossTicks => ~(ran < Grace + LossTicks)
    BY MasterAssumption
  <2> QED BY <2>3, <2>4, <2>5, <2>6
<1>7. CASE ~due
  <2>1. Timed(p, fp, ran', m)
    <3> HIDE DEF m
    <3> QED BY <1>3, <1>4, <1>7 DEF Timed
  <2>2. missed' = m
    BY <1>4, <1>7
  <2> HIDE DEF r, m
  <2> QED BY <1>2, <1>3, <1>4, <1>5, <1>7, <2>1, <2>2 DEF MasterInv, LossTrip
<1> QED BY <1>6, <1>7

(* Every step of the master keeps the invariant, and trips on a loss only  *)
(* when one was missed or the grace period is over.                        *)
LEMMA MasterNextInv ==
    MasterInv /\ [MasterNext]_masterVars =>
        MasterInv' /\ (LossTrip /\ ran < Grace + LossTicks => missed)
<1> SUFFICES ASSUME MasterInv, [MasterNext]_masterVars
             PROVE  MasterInv' /\ (LossTrip /\ ran < Grace + LossTicks => missed)
  OBVIOUS
<1>1. CASE \E in \in MasterInputs : MasterTick(in)
  BY <1>1, MasterTickInv
<1>2. CASE RemoteReset
  <2>1. fp' = [fp EXCEPT !.tripped = FALSE] /\ UNCHANGED <<pc, sub, calm, ran, missed>>
    BY <1>2 DEF RemoteReset
  <2>2. /\ fp' \in PolicyRecord /\ fp'.prev = fp.prev /\ fp'.tripped = FALSE
        /\ fp'.enPrev = fp.enPrev /\ fp'.enFor = fp.enFor /\ fp'.lowFor = fp.lowFor
    BY <2>1, Ranges, PolicyParts DEF MasterInv
  <2> QED BY <2>1, <2>2 DEF MasterInv, Stopped, Timed, LossTrip
<1>3. CASE MasterCalm
  BY <1>3 DEF MasterCalm, MasterInv, LossTrip
<1>4. CASE UNCHANGED masterVars
  BY <1>4 DEF masterVars, MasterInv, LossTrip
<1> QED BY <1>1, <1>2, <1>3, <1>4 DEF MasterNext

(* What the invariant says of types.                                       *)
LEMMA InvMasterTypes == MasterInv => MasterTypeOK
BY DEF MasterInv, MasterTypeOK, PwrRecord, PolicyRecord, Stages, Goods, Overs, Ages, Lows

(* The sequencer, the policy and their history, together.                  *)
THEOREM MasterInvariant == MasterSpec => []MasterInv
BY MasterInitInv, MasterNextInv, PTL DEF MasterSpec

(* The sequencer and the policy keep to the types of their fields: no      *)
(* counter passes its limit.                                               *)
THEOREM MasterTypes == MasterSpec => []MasterTypeOK
BY MasterInvariant, InvMasterTypes, PTL

(* A stop or a trip on record keeps MOTOR off and unwanted, and the rails  *)
(* follow the sequence, in every tick and between any two policy steps.    *)
THEOREM MasterKeepsRails == MasterSpec => []MasterRails
<1>1. MasterInv => MasterRails
  BY DEF MasterInv, Sequence, Steps, Stopped, MasterRails, StoppedStaysOff,
         RailsFollowTheSteps, Powered
<1> QED BY MasterInvariant, <1>1, PTL

(* MOTOR is tripped for a missing power-good only after its settle window  *)
(* and debounce, unless a shutdown took it from the policy unseen.         *)
THEOREM MasterGrace == MasterSpec => GraceLostByRestart
<1>1. MasterInv /\ [MasterNext]_masterVars =>
        [LossTrip /\ ran < Grace + LossTicks => missed]_masterVars
  BY MasterNextInv
<1> QED BY MasterInvariant, <1>1, PTL DEF MasterSpec, GraceLostByRestart

-----------------------------------------------------------------------------
(* An output that is being enabled has been driven for as long as its      *)
(* counters say.                                                           *)
AgesKept ==
    \A r \in Outputs :
        state[r] = "ENABLING" => age[r] >= count[r].settle + count[r].stable

(* Unless an output was found latched, the policy has counted every step   *)
(* for which AUX has been missing under a running DC24V.                   *)
LossCounted == ~shadowed => gone <= auxLost

SlaveInv == SlaveTypeOK /\ RecordsAgree /\ AgesKept /\ LossCounted

-----------------------------------------------------------------------------
(* What a handler returns: a state and counters of the right type.         *)
CountsOf(r) == {c \in Counts : c.enable < Timeout[r]}
HandledOf(r) == [state : RailStates, count : CountsOf(r)]

(* Types of the handlers of the slave board.                               *)
LEMMA NoCountType ==
    ASSUME NEW r \in Outputs PROVE NoCount \in CountsOf(r)
BY SlaveAssumption DEF NoCount, CountsOf, Counts

(* From OFF.                                                               *)
LEMMA OffType ==
    ASSUME NEW r \in Outputs, count[r] \in CountsOf(r), NEW in, NEW on24
    PROVE  FromOff(r, in, on24) \in HandledOf(r)
BY NoCountType DEF FromOff, HandledOf, RailStates

(* From ON.                                                                *)
LEMMA OnType ==
    ASSUME NEW r \in Outputs, count[r] \in CountsOf(r), NEW in
    PROVE  FromOn(r, in) \in HandledOf(r)
<1>1. [count[r] EXCEPT !.loss = 0] \in CountsOf(r)
  BY SlaveAssumption DEF CountsOf, Counts
<1>2. ~(LostFor(r) >= Loss) => [count[r] EXCEPT !.loss = @ + 1] \in CountsOf(r)
  BY SlaveAssumption DEF CountsOf, Counts, LostFor
<1>3. \A s \in RailStates, c \in CountsOf(r) : [state |-> s, count |-> c] \in HandledOf(r)
  BY DEF HandledOf
<1>4. {"OFF", "ON", "LATCHED"} \subseteq RailStates
  BY DEF RailStates
<1> DEFINE up == [count[r] EXCEPT !.loss = @ + 1]
           zero == [count[r] EXCEPT !.loss = 0]
<1>5. FromOn(r, in) = IF Refused(r) THEN [state |-> "OFF", count |-> NoCount]
                      ELSE IF r \in in.good THEN [state |-> "ON", count |-> zero]
                      ELSE IF LostFor(r) >= Loss THEN [state |-> "LATCHED", count |-> NoCount]
                      ELSE [state |-> "ON", count |-> up]
  BY DEF FromOn
<1> HIDE DEF up, zero
<1>6. zero \in CountsOf(r) /\ (~(LostFor(r) >= Loss) => up \in CountsOf(r))
  BY <1>1, <1>2 DEF up, zero
<1> QED BY <1>3, <1>4, <1>5, <1>6, NoCountType

(* The counters while an output is being enabled.                          *)
LEMMA EnablingCounts ==
    ASSUME NEW r \in Outputs, NEW c \in CountsOf(r)
    PROVE  /\ ~Settled(c)
                => [settle |-> c.settle + 1, enable |-> 0, stable |-> 0, loss |-> c.loss]
                      \in CountsOf(r)
           /\ [c EXCEPT !.stable = 0] \in CountsOf(r)
           /\ ~(c.stable + 1 >= Ready) => [c EXCEPT !.stable = @ + 1] \in CountsOf(r)
           /\ ~(c.enable + 1 >= Timeout[r])
                => [settle |-> c.settle, enable |-> c.enable + 1, stable |-> 0,
                    loss |-> c.loss] \in CountsOf(r)
<1>1. ~Settled(c) => c.settle + 1 \in 0 .. EnSettle
  BY SlaveAssumption DEF Settled, CountsOf, Counts
<1>2. ~Settled(c)
         => [settle |-> c.settle + 1, enable |-> 0, stable |-> 0, loss |-> c.loss]
               \in CountsOf(r)
  BY <1>1, SlaveAssumption DEF CountsOf, Counts
<1>3. [c EXCEPT !.stable = 0] \in CountsOf(r)
  BY SlaveAssumption DEF CountsOf, Counts
<1>4. ~(c.stable + 1 >= Ready) => [c EXCEPT !.stable = @ + 1] \in CountsOf(r)
  BY SlaveAssumption DEF CountsOf, Counts
<1>5. ~(c.enable + 1 >= Timeout[r])
         => [settle |-> c.settle, enable |-> c.enable + 1, stable |-> 0,
             loss |-> c.loss] \in CountsOf(r)
  BY SlaveAssumption DEF CountsOf, Counts
<1> QED BY <1>2, <1>3, <1>4, <1>5

(* The counters of an output that goes on being enabled.                   *)
Waits(c) == [settle |-> c.settle + 1, enable |-> 0, stable |-> 0, loss |-> c.loss]
Halts(c) == [c EXCEPT !.stable = 0]
Good(c) == [c EXCEPT !.stable = @ + 1]
Bad(c) == [settle |-> c.settle, enable |-> c.enable + 1, stable |-> 0, loss |-> c.loss]

(* The cases of FromEnabling.                                              *)
LEMMA EnablingCases ==
    ASSUME NEW r, NEW in, NEW on24
    PROVE  FromEnabling(r, in, on24) =
        IF Refused(r) THEN [state |-> "OFF", count |-> NoCount]
        ELSE IF ~Settled(count[r]) THEN [state |-> "ENABLING", count |-> Waits(count[r])]
        ELSE IF ~Precondition(r, in, on24)
        THEN [state |-> "ENABLING", count |-> Halts(count[r])]
        ELSE IF r \in in.good
        THEN IF count[r].stable + 1 >= Ready THEN [state |-> "ON", count |-> NoCount]
             ELSE [state |-> "ENABLING", count |-> Good(count[r])]
        ELSE IF count[r].enable + 1 >= Timeout[r] THEN [state |-> "LATCHED", count |-> NoCount]
             ELSE [state |-> "ENABLING", count |-> Bad(count[r])]
BY DEF FromEnabling, Waits, Halts, Good, Bad

(* From ENABLING.                                                          *)
LEMMA EnablingType ==
    ASSUME NEW r \in Outputs, count[r] \in CountsOf(r), NEW in, NEW on24
    PROVE  FromEnabling(r, in, on24) \in HandledOf(r)
<1> DEFINE c == count[r]
<1>1. /\ ~Settled(c) => Waits(c) \in CountsOf(r)
      /\ Halts(c) \in CountsOf(r)
      /\ ~(c.stable + 1 >= Ready) => Good(c) \in CountsOf(r)
      /\ ~(c.enable + 1 >= Timeout[r]) => Bad(c) \in CountsOf(r)
  BY EnablingCounts DEF Waits, Halts, Good, Bad
<1>2. \A s \in RailStates, d \in CountsOf(r) : [state |-> s, count |-> d] \in HandledOf(r)
  BY DEF HandledOf
<1>3. {"OFF", "ENABLING", "ON", "LATCHED"} \subseteq RailStates
  BY DEF RailStates
<1> QED BY <1>1, <1>2, <1>3, NoCountType, EnablingCases

(* Whatever the state of the output.                                       *)
LEMMA HandledType ==
    ASSUME SlaveTypeOK, NEW r \in Outputs, NEW in, NEW on24
    PROVE  Handled(r, in, on24) \in HandledOf(r)
<1>1. count[r] \in CountsOf(r) /\ state[r] \in RailStates
  BY DEF SlaveTypeOK, CountsOf
<1>2. [state |-> "LATCHED", count |-> count[r]] \in HandledOf(r)
  BY <1>1 DEF HandledOf, RailStates
<1> QED BY <1>1, <1>2, OffType, OnType, EnablingType DEF Handled, RailStates

-----------------------------------------------------------------------------
(* Where an output may go in one tick, and what its counters say then.     *)
LEMMA HandledMoves ==
    ASSUME SlaveTypeOK, RecordsAgree, NEW r \in Outputs, NEW in, NEW on24
    PROVE  LET h == Handled(r, in, on24) IN
           /\ state[r] = "OFF" => h.state \in {"OFF", "ENABLING"}
           /\ state[r] = "ON" => h.state # "ENABLING"
           /\ state[r] = "LATCHED" => h.state = "LATCHED"
           /\ r \notin wanted => h.state = "OFF"
           /\ h.state = "ENABLING" /\ state[r] = "OFF" => h.count = NoCount
           /\ h.state = "ENABLING" /\ state[r] = "ENABLING"
                => h.count.settle + h.count.stable
                     <= count[r].settle + count[r].stable + 1
           /\ h.state = "ON" /\ state[r] # "ON"
                => /\ state[r] = "ENABLING"
                   /\ count[r].settle >= EnSettle /\ count[r].stable + 1 >= Ready
<1> DEFINE c == count[r]
           h == Handled(r, in, on24)
<1>1. /\ c \in Counts /\ state[r] \in RailStates
      /\ c.settle \in Nat /\ c.stable \in Nat /\ c.enable \in Nat
  BY SlaveAssumption DEF SlaveTypeOK, Counts
<1>2. r \notin wanted => state[r] = "OFF"
  BY DEF RecordsAgree, UnwantedIsOff
<1>3. CASE state[r] = "OFF"
  <2>1. h = FromOff(r, in, on24)
    BY <1>3 DEF Handled
  <2> QED BY <1>3, <2>1 DEF FromOff
<1>4. CASE state[r] = "ENABLING"
  <2>1. h = FromEnabling(r, in, on24)
    BY <1>4 DEF Handled
  <2>2. /\ [c EXCEPT !.stable = 0].settle = c.settle
        /\ [c EXCEPT !.stable = 0].stable = 0
        /\ [c EXCEPT !.stable = @ + 1].settle = c.settle
        /\ [c EXCEPT !.stable = @ + 1].stable = c.stable + 1
    BY <1>1 DEF Counts
  <2>3. h.state = "ENABLING"
           => h.count.settle + h.count.stable <= c.settle + c.stable + 1
    <3>1. h.state = "ENABLING" => h.count \in {Waits(c), Halts(c), Good(c), Bad(c)}
      BY <2>1, EnablingCases
    <3>2. /\ Waits(c).settle + Waits(c).stable = c.settle + 1
          /\ Halts(c).settle + Halts(c).stable = c.settle
          /\ Good(c).settle + Good(c).stable = c.settle + c.stable + 1
          /\ Bad(c).settle + Bad(c).stable = c.settle
      BY <1>1, <2>2 DEF Waits, Halts, Good, Bad
    <3> HIDE DEF c, h
    <3> QED BY <1>1, <3>1, <3>2
  <2>4. h.state = "ON" => Settled(c) /\ c.stable + 1 >= Ready
    BY <2>1, EnablingCases
  <2>5. r \in wanted
    BY <1>2, <1>4
  <2> HIDE DEF h
  <2> QED BY <1>4, <2>3, <2>4, <2>5 DEF Settled, h
<1>5. CASE state[r] = "ON"
  <2>1. h = FromOn(r, in)
    BY <1>5 DEF Handled
  <2> QED BY <1>2, <1>5, <2>1 DEF FromOn
<1>6. CASE state[r] = "LATCHED"
  BY <1>2, <1>6 DEF Handled
<1> QED BY <1>1, <1>3, <1>4, <1>5, <1>6 DEF RailStates

-----------------------------------------------------------------------------
(* The parts of a tick, named as in SlaveTick.                             *)
St(in) == [r \in Outputs |-> Stepped(in)[r].state]
L(in) == latch \cup {r \in Outputs : state[r] # "LATCHED" /\ St(in)[r] = "LATCHED"}
Trips(in) == AuxTrips(St(in), L(in), in)

(* What a tick does, without the functions that carry it.                  *)
LEMMA SlaveTickParts ==
    ASSUME SlaveTypeOK, NEW in, SlaveTick(in)
    PROVE  /\ \A r \in Outputs :
                 /\ St(in)[r] = Stepped(in)[r].state
                 /\ state'[r] = IF Trips(in) /\ r = "DC24V" THEN "LATCHED" ELSE St(in)[r]
                 /\ count'[r] = IF Trips(in) /\ r = "DC24V" THEN NoCount
                                ELSE Stepped(in)[r].count
                 /\ Stepped(in)[r] = Handled(r, in, state["DC24V"] = "ON")
           /\ Trips(in) => St(in)["DC24V"] = "ON"
           /\ "DC24V" \in Outputs
           /\ wanted' = wanted /\ quiet' = quiet
<1>1. "DC24V" \in Outputs
  BY DEF Outputs
<1>2. /\ state' = IF Trips(in) THEN [St(in) EXCEPT !["DC24V"] = "LATCHED"] ELSE St(in)
      /\ count' = [r \in Outputs |->
                      IF Trips(in) /\ r = "DC24V" THEN NoCount ELSE Stepped(in)[r].count]
      /\ wanted' = wanted /\ quiet' = quiet
  BY DEF SlaveTick, Trips, St, L
<1>3. \A r \in Outputs : Stepped(in)[r] = Handled(r, in, state["DC24V"] = "ON")
  BY DEF Stepped
<1>4. \A r \in Outputs : St(in)[r] = Stepped(in)[r].state
  BY DEF St
<1>5. St(in) = [r \in Outputs |-> St(in)[r]]
  BY DEF St
<1>6. Trips(in) => St(in)["DC24V"] = "ON"
  BY DEF Trips, AuxTrips, Watching
<1> QED BY <1>1, <1>2, <1>3, <1>4, <1>5, <1>6

(* A tick of the slave board: the types.                                   *)
LEMMA TickTypes ==
    ASSUME SlaveTypeOK, NEW in \in SlaveInputs, SlaveTick(in)
    PROVE  SlaveTypeOK'
<1>1. /\ AuxLoss \in Nat \ {0} /\ SlaveDiv \in Nat \ {0} /\ Ready \in Nat \ {0}
      /\ EnSettle \in Nat
  BY SlaveAssumption
<1>2. state' \in [Outputs -> RailStates]
  <2>1. DOMAIN state' = Outputs /\ state' = [r \in Outputs |-> state'[r]]
    BY DEF SlaveTick
  <2>2. \A r \in Outputs : state'[r] \in RailStates
    BY SlaveTickParts, HandledType DEF HandledOf, RailStates
  <2> QED BY <2>1, <2>2
<1>3. /\ count' \in [Outputs -> Counts]
      /\ \A r \in Outputs : count'[r].enable < Timeout[r]
  <2>1. count' = [r \in Outputs |-> count'[r]]
    BY DEF SlaveTick
  <2>2. \A r \in Outputs : count'[r] \in CountsOf(r)
    BY SlaveTickParts, HandledType, NoCountType DEF HandledOf
  <2> QED BY <2>1, <2>2 DEF CountsOf
<1>4. {driven', wanted', latch'} \subseteq SUBSET Outputs
  <2>1. \A was, st : Pins(was, st) \subseteq Outputs
    BY DEF Pins
  <2>2. driven' \subseteq Outputs
    BY <2>1 DEF SlaveTick
  <2>3. latch' \subseteq Outputs
    BY DEF SlaveTick, SlaveTypeOK, Outputs
  <2> QED BY <2>2, <2>3 DEF SlaveTick, SlaveTypeOK
<1>5. auxLost' \in 0 .. AuxLoss - 1
  <2>1. auxLost' = IF ~Due THEN auxLost
                   ELSE IF Watching(St(in), L(in)) /\ ~in.aux /\ ~Trips(in)
                   THEN auxLost + 1 ELSE 0
    BY DEF SlaveTick, Trips, St, L
  <2>2. Due /\ Watching(St(in), L(in)) /\ ~in.aux /\ ~Trips(in) => ~(auxLost + 1 >= AuxLoss)
    BY DEF Trips, AuxTrips
  <2>3. auxLost \in 0 .. AuxLoss - 1
    BY DEF SlaveTypeOK
  <2> QED BY <1>1, <2>1, <2>2, <2>3
<1>6. tick' \in 0 .. SlaveDiv - 1 /\ quiet' \in BOOLEAN
  BY <1>1 DEF SlaveTick, SlaveTypeOK, Due
<1>7. age' \in [Outputs -> 0 .. EnSettle + Ready]
  <2>1. age' = [r \in Outputs |->
                   IF r \notin driven' \/ r \notin driven THEN 0
                   ELSE IF age[r] < EnSettle + Ready THEN age[r] + 1 ELSE age[r]]
    BY DEF SlaveTick
  <2>2. \A r \in Outputs : age[r] \in 0 .. EnSettle + Ready
    BY DEF SlaveTypeOK
  <2> QED BY <1>1, <2>1, <2>2
<1>8. gone' \in 0 .. AuxLoss
  BY <1>1 DEF SlaveTick, SlaveTypeOK
<1>9. shadowed' \in BOOLEAN
  BY DEF SlaveTick
<1> QED BY <1>2, <1>3, <1>4, <1>5, <1>6, <1>7, <1>8, <1>9 DEF SlaveTypeOK

(* A tick of the slave board: the records agree.                           *)
LEMMA TickRecords ==
    ASSUME SlaveTypeOK, RecordsAgree, NEW in \in SlaveInputs, SlaveTick(in)
    PROVE  RecordsAgree'
<1> DEFINE Moves(r, s) ==
              /\ state[r] = "OFF" => s \in {"OFF", "ENABLING"}
              /\ state[r] = "ON" => s # "ENABLING"
              /\ state[r] = "LATCHED" => s = "LATCHED"
              /\ r \notin wanted => s = "OFF"
<1>1. \A r \in Outputs : Moves(r, St(in)[r]) /\ St(in)[r] \in RailStates
  BY SlaveTickParts, HandledMoves, HandledType DEF HandledOf
<1>2. \A r \in Outputs : state[r] \in RailStates
  BY DEF SlaveTypeOK
<1>3. LatchAgrees'
  <2>1. latch' = IF Trips(in) THEN L(in) \cup {"DC24V"} ELSE L(in)
    BY DEF SlaveTick, Trips, St, L
  <2>2. \A r \in Outputs : r \in L(in) <=> St(in)[r] = "LATCHED"
    BY <1>1, <1>2 DEF L, RecordsAgree, LatchAgrees
  <2> QED BY <2>1, <2>2, SlaveTickParts DEF LatchAgrees
<1>4. PinAgrees'
  <2>1. driven' = IF Trips(in) THEN Pins(state, St(in)) \ {"DC24V"} ELSE Pins(state, St(in))
    BY DEF SlaveTick, Trips, St, L
  <2>2. \A r \in Outputs : r \in Pins(state, St(in)) <=> St(in)[r] \in {"ENABLING", "ON"}
    BY <1>1, <1>2 DEF Pins, RecordsAgree, PinAgrees, RailStates
  <2> QED BY <2>1, <2>2, SlaveTickParts DEF PinAgrees
<1>5. UnwantedIsOff'
  BY <1>1, SlaveTickParts DEF UnwantedIsOff
<1> QED BY <1>3, <1>4, <1>5 DEF RecordsAgree

(* A tick of the slave board: the ages of the outputs.                     *)
LEMMA TickAges ==
    ASSUME SlaveInv, NEW in \in SlaveInputs, SlaveTick(in)
    PROVE  AgesKept'
<1>1. SlaveTypeOK' /\ RecordsAgree'
  BY TickTypes, TickRecords DEF SlaveInv
<1> SUFFICES ASSUME NEW r \in Outputs, state'[r] = "ENABLING"
             PROVE  age'[r] >= count'[r].settle + count'[r].stable
  BY DEF AgesKept
<1> DEFINE h == Handled(r, in, state["DC24V"] = "ON")
<1>2. /\ h.state = "ENABLING" /\ count'[r] = h.count
      /\ state[r] \in {"OFF", "ENABLING"}
  BY SlaveTickParts, HandledMoves DEF SlaveInv, SlaveTypeOK, RailStates
<1>3. /\ EnSettle \in Nat /\ Ready \in Nat \ {0}
      /\ count'[r].settle \in 0 .. EnSettle /\ count'[r].stable \in 0 .. Ready - 1
      /\ count[r].settle \in Nat /\ count[r].stable \in Nat
      /\ age[r] \in Nat
  BY <1>1, SlaveAssumption DEF SlaveInv, SlaveTypeOK, Counts
<1>4. r \in driven'
  BY <1>1 DEF RecordsAgree, PinAgrees
<1>5. CASE state[r] = "OFF"
  <2>1. count'[r] = NoCount
    BY <1>2, <1>5, HandledMoves DEF SlaveInv
  <2>2. age'[r] \in Nat
    BY <1>1, <1>3 DEF SlaveTypeOK
  <2> QED BY <2>1, <2>2 DEF NoCount
<1>6. CASE state[r] = "ENABLING"
  <2>1. r \in driven /\ age[r] >= count[r].settle + count[r].stable
    BY <1>6 DEF SlaveInv, RecordsAgree, PinAgrees, AgesKept
  <2>2. age'[r] = IF age[r] < EnSettle + Ready THEN age[r] + 1 ELSE age[r]
    BY <1>4, <2>1 DEF SlaveTick
  <2>3. count'[r].settle + count'[r].stable <= count[r].settle + count[r].stable + 1
    BY <1>2, <1>6, HandledMoves DEF SlaveInv
  <2> QED BY <1>3, <2>1, <2>2, <2>3
<1> QED BY <1>2, <1>5, <1>6

(* A tick of the slave board: the counter of the auxiliary supply.         *)
LEMMA TickCounts ==
    ASSUME SlaveInv, NEW in \in SlaveInputs, SlaveTick(in)
    PROVE  LossCounted'
<1>1. /\ AuxLoss \in Nat \ {0} /\ auxLost \in 0 .. AuxLoss - 1 /\ gone \in 0 .. AuxLoss
      /\ shadowed \in BOOLEAN /\ (~shadowed => gone <= auxLost)
  BY SlaveAssumption DEF SlaveInv, SlaveTypeOK, LossCounted
<1>2. /\ auxLost' = IF ~Due THEN auxLost
                    ELSE IF Watching(St(in), L(in)) /\ ~in.aux /\ ~Trips(in)
                    THEN auxLost + 1 ELSE 0
      /\ gone' = IF state'["DC24V"] # "ON" \/ (Due /\ in.aux) THEN 0
                 ELSE IF Due /\ gone < AuxLoss THEN gone + 1 ELSE gone
      /\ shadowed' = (gone' > 0 /\ (shadowed \/ (Due /\ L(in) # {})))
  BY DEF SlaveTick, Trips, St, L
<1>3. state'["DC24V"] = "ON" => ~Trips(in) /\ St(in)["DC24V"] = "ON"
  BY SlaveTickParts DEF SlaveInv
<1>4. CASE state'["DC24V"] # "ON" \/ (Due /\ in.aux)
  <2>1. gone' = 0 /\ auxLost' \in Nat
    BY <1>2, <1>4, TickTypes, SlaveAssumption DEF SlaveInv, SlaveTypeOK
  <2> QED BY <2>1 DEF LossCounted
<1>5. CASE state'["DC24V"] = "ON" /\ ~Due
  BY <1>1, <1>2, <1>5 DEF LossCounted
<1>6. CASE state'["DC24V"] = "ON" /\ Due /\ ~in.aux
  <2>1. L(in) = {} => auxLost' = auxLost + 1
    BY <1>2, <1>3, <1>6 DEF Watching
  <2>2. gone' > 0 /\ gone' \in Nat /\ gone' <= gone + 1
    BY <1>1, <1>2, <1>6
  <2>3. ~shadowed' => ~shadowed /\ L(in) = {}
    BY <1>2, <1>6, <2>2
  <2>4. ~shadowed' => gone' <= auxLost'
    BY <1>1, <2>1, <2>2, <2>3
  <2> QED BY <2>4 DEF LossCounted
<1> QED BY <1>4, <1>5, <1>6 DEF SlaveInputs

-----------------------------------------------------------------------------
(* The host's commands.                                                    *)
LEMMA RequestKeeps ==
    ASSUME SlaveInv, NEW mask \in SUBSET Outputs, Request(mask)
    PROVE  SlaveInv'
<1> USE DEF SlaveInv
<1>1. NoCount \in Counts /\ \A r \in Outputs : NoCount.enable < Timeout[r]
  BY SlaveAssumption DEF NoCount, Counts
<1>2. SlaveTypeOK'
  <2>1. state' \in [Outputs -> RailStates] /\ age' \in [Outputs -> 0 .. EnSettle + Ready]
    BY SlaveAssumption DEF Request, SlaveTypeOK, RailStates
  <2>2. count' \in [Outputs -> Counts] /\ \A r \in Outputs : count'[r].enable < Timeout[r]
    BY <1>1 DEF Request, SlaveTypeOK
  <2>3. {driven', wanted', latch'} \subseteq SUBSET Outputs
    BY DEF Request, SlaveTypeOK, LatchLeft
  <2>4. gone' \in 0 .. AuxLoss /\ shadowed' \in BOOLEAN
    BY SlaveAssumption DEF Request, SlaveTypeOK
  <2>5. UNCHANGED <<auxLost, tick, quiet>>
    BY DEF Request
  <2> QED BY <2>1, <2>2, <2>3, <2>4, <2>5 DEF SlaveTypeOK
<1>3. RecordsAgree'
  BY DEF Request, LatchLeft, RecordsAgree, LatchAgrees, PinAgrees, UnwantedIsOff, SlaveTypeOK
<1>4. AgesKept'
  BY DEF Request, AgesKept, SlaveTypeOK
<1>5. LossCounted'
  BY SlaveAssumption DEF Request, LossCounted, SlaveTypeOK
<1> QED BY <1>2, <1>3, <1>4, <1>5

(* Clearing the latch.                                                     *)
LEMMA ClearKeeps ==
    ASSUME SlaveInv, ClearLatch
    PROVE  SlaveInv'
<1> USE DEF SlaveInv, ClearLatch
<1>1. SlaveTypeOK'
  BY DEF SlaveTypeOK, RailStates
<1>2. RecordsAgree'
  BY DEF RecordsAgree, LatchAgrees, PinAgrees, UnwantedIsOff, SlaveTypeOK
<1>3. AgesKept' /\ LossCounted'
  BY DEF AgesKept, LossCounted, SlaveTypeOK
<1> QED BY <1>1, <1>2, <1>3

-----------------------------------------------------------------------------
(* The invariant of the slave board.                                       *)
LEMMA SlaveInitInv == SlaveInit => SlaveInv
<1> SUFFICES ASSUME SlaveInit PROVE SlaveInv
  OBVIOUS
<1> USE DEF SlaveInit
<1>1. SlaveTypeOK
  <2>1. NoCount \in Counts /\ \A r \in Outputs : NoCount.enable < Timeout[r]
    BY SlaveAssumption DEF NoCount, Counts
  <2>2. state \in [Outputs -> RailStates] /\ count \in [Outputs -> Counts]
    BY <2>1 DEF RailStates
  <2>3. age \in [Outputs -> 0 .. EnSettle + Ready]
    BY SlaveAssumption
  <2>4. {driven, wanted, latch} \subseteq SUBSET Outputs
    BY DEF Outputs
  <2>5. auxLost \in 0 .. AuxLoss - 1 /\ tick \in 0 .. SlaveDiv - 1 /\ gone \in 0 .. AuxLoss
    BY SlaveAssumption
  <2> QED BY <2>1, <2>2, <2>3, <2>4, <2>5 DEF SlaveTypeOK
<1>2. RecordsAgree
  BY DEF RecordsAgree, LatchAgrees, PinAgrees, UnwantedIsOff
<1>3. AgesKept /\ LossCounted
  BY DEF AgesKept, LossCounted
<1> QED BY <1>1, <1>2, <1>3 DEF SlaveInv

LEMMA SlaveNextInv == SlaveInv /\ [SlaveNext]_slaveVars => SlaveInv'
<1> SUFFICES ASSUME SlaveInv, [SlaveNext]_slaveVars PROVE SlaveInv'
  OBVIOUS
<1>1. ASSUME NEW in \in SlaveInputs, SlaveTick(in) PROVE SlaveInv'
  BY <1>1, TickTypes, TickRecords, TickAges, TickCounts DEF SlaveInv
<1>2. ASSUME NEW mask \in SUBSET Outputs, Request(mask) PROVE SlaveInv'
  BY <1>2, RequestKeeps
<1>3. CASE ClearLatch
  BY <1>3, ClearKeeps
<1>4. CASE SlaveQuiet
  BY <1>4 DEF SlaveQuiet, rails, SlaveInv, SlaveTypeOK, RecordsAgree, LatchAgrees, PinAgrees,
              UnwantedIsOff, AgesKept, LossCounted
<1>5. CASE UNCHANGED slaveVars
  BY <1>5 DEF slaveVars, rails, SlaveInv, SlaveTypeOK, RecordsAgree, LatchAgrees, PinAgrees,
              UnwantedIsOff, AgesKept, LossCounted
<1> QED BY <1>1, <1>2, <1>3, <1>4, <1>5 DEF SlaveNext

(* The invariant of the slave board, for any thresholds and times.         *)
LEMMA SlaveInvariant == SlaveSpec => []SlaveInv
BY SlaveInitInv, SlaveNextInv, PTL DEF SlaveSpec

(* Type correctness: no counter leaves its range, that is, no debounce or  *)
(* timeout is ever passed over (srv_pwr_ctrl.c compares with >=, so a      *)
(* counter that could skip its limit would go unnoticed).                  *)
THEOREM SlaveTypes == SlaveSpec => []SlaveTypeOK
<1>1. SlaveInv => SlaveTypeOK
  BY DEF SlaveInv
<1> QED BY SlaveInvariant, <1>1, PTL

(* The machine, the latch bit that the host reads, the pin and the request *)
(* of every output agree after every tick, policy step and command.        *)
THEOREM SlaveRecords == SlaveSpec => []RecordsAgree
<1>1. SlaveInv => RecordsAgree
  BY DEF SlaveInv
<1> QED BY SlaveInvariant, <1>1, PTL

(* A lost AUX supply under a running DC24V latches it within its debounce, *)
(* or the policy has found an output latched since it went missing.        *)
THEOREM SlaveAuxLoss == SlaveSpec => []AuxLossLatchesAlone
<1>1. SlaveInv => AuxLossLatchesAlone
  BY SlaveAssumption DEF SlaveInv, SlaveTypeOK, LossCounted, AuxLossLatchesAlone
<1> QED BY SlaveInvariant, <1>1, PTL

Settles == \A r \in Outputs : BecomesOn(r) => age[r] >= EnSettle + Ready - 1
(* An output settles in time.                                              *)
LEMMA SettlesInTime == SlaveInv /\ [SlaveNext]_slaveVars => Settles
<1> SUFFICES ASSUME SlaveInv, [SlaveNext]_slaveVars, NEW r \in Outputs, BecomesOn(r)
             PROVE  age[r] >= EnSettle + Ready - 1
  BY DEF Settles
<1>1. ASSUME NEW in \in SlaveInputs, SlaveTick(in) PROVE age[r] >= EnSettle + Ready - 1
  <2>1. Handled(r, in, state["DC24V"] = "ON").state = "ON"
    BY <1>1, SlaveTickParts DEF SlaveInv, BecomesOn
  <2>2. /\ state[r] = "ENABLING"
        /\ count[r].settle >= EnSettle /\ count[r].stable + 1 >= Ready
    BY <2>1, HandledMoves DEF SlaveInv, BecomesOn
  <2>3. /\ age[r] >= count[r].settle + count[r].stable
        /\ count[r].settle \in Nat /\ count[r].stable \in Nat /\ age[r] \in Nat
        /\ EnSettle \in Nat /\ Ready \in Nat
    BY <2>2, SlaveAssumption DEF SlaveInv, AgesKept, SlaveTypeOK, Counts
  <2> QED BY <2>2, <2>3
<1>2. ASSUME NEW mask \in SUBSET Outputs, Request(mask) PROVE FALSE
  BY <1>2 DEF Request, BecomesOn
<1>3. CASE ClearLatch
  BY <1>3 DEF ClearLatch, BecomesOn, SlaveInv, SlaveTypeOK
<1>4. CASE SlaveQuiet \/ UNCHANGED slaveVars
  BY <1>4 DEF SlaveQuiet, slaveVars, rails, BecomesOn
<1> QED BY <1>1, <1>2, <1>3, <1>4 DEF SlaveNext

(* An output is reported as ON only after its whole settle window and      *)
(* debounce, counted from when its pin was last switched on.               *)
THEOREM SlaveSettles == SlaveSpec => SettlesFirst
<1>1. UNCHANGED slaveVars => Settles
  BY DEF slaveVars, rails, BecomesOn, Settles
<1> QED BY SlaveInvariant, SettlesInTime, <1>1, PTL DEF SlaveSpec, SettlesFirst, Settles

-----------------------------------------------------------------------------
SeqRecord ==
    [fsm : [state : SeqStates, last : SeqStates], req : BOOLEAN,
     steady : 0 .. Steady + Handover, handed : BOOLEAN, brake : BOOLEAN,
     spent : 0 .. Discharge + 1]
PreRecord ==
    [fsm : [state : PreStates, last : PreStates], phase : Nat, retry : 0 .. RetryMax,
     seed : 0 .. Phase4, fault : Faults, start : BOOLEAN, done : BOOLEAN]
PolRecord == [tripped : BOOLEAN, last : BOOLEAN]
Board == [seq : SeqRecord, pre : PreRecord, on : SUBSET Switches, pol : PolRecord]

(* The fields that an operation leaves alone.                              *)
OnlyPre(b, c) == c.seq = b.seq /\ c.pol = b.pol
OnlyChg(b, c) == OnlyPre(b, c) /\ c.on \ {"chg"} = b.on \ {"chg"}

-----------------------------------------------------------------------------
(* The parts of the E1 power board, and its record with one of them        *)
(* replaced.                                                               *)
LEMMA BoardParts ==
    ASSUME NEW b \in Board
    PROVE  /\ b.seq \in SeqRecord /\ b.pre \in PreRecord
           /\ b.on \in SUBSET Switches /\ b.pol \in PolRecord
           /\ \A p \in PreRecord : LET c == [b EXCEPT !.pre = p] IN
                 c \in Board /\ OnlyPre(b, c) /\ c.pre = p /\ c.on = b.on
           /\ \A s \in SeqRecord : LET c == [b EXCEPT !.seq = s] IN
                 c \in Board /\ c.seq = s /\ c.pre = b.pre /\ c.on = b.on /\ c.pol = b.pol
           /\ \A o \in SUBSET Switches : LET c == [b EXCEPT !.on = o] IN
                 c \in Board /\ OnlyPre(b, c) /\ c.pre = b.pre /\ c.on = o
           /\ \A f \in PolRecord : LET c == [b EXCEPT !.pol = f] IN
                 c \in Board /\ c.seq = b.seq /\ c.pre = b.pre /\ c.on = b.on /\ c.pol = f
BY DEF Board, OnlyPre

(* The record of the precharge with one field replaced.                    *)
LEMMA PreParts ==
    ASSUME NEW p \in PreRecord
    PROVE  /\ \A x \in [state : PreStates, last : PreStates] : LET q == [p EXCEPT !.fsm = x] IN
                 q \in PreRecord /\ q.fsm = x
                 /\ q.phase = p.phase /\ q.retry = p.retry /\ q.seed = p.seed /\ q.fault = p.fault
                 /\ q.start = p.start /\ q.done = p.done
           /\ \A x \in Nat : LET q == [p EXCEPT !.phase = x] IN
                 q \in PreRecord /\ q.phase = x
                 /\ q.fsm = p.fsm /\ q.retry = p.retry /\ q.seed = p.seed /\ q.fault = p.fault
                 /\ q.start = p.start /\ q.done = p.done
           /\ \A x \in 0 .. RetryMax : LET q == [p EXCEPT !.retry = x] IN
                 q \in PreRecord /\ q.retry = x
                 /\ q.fsm = p.fsm /\ q.phase = p.phase /\ q.seed = p.seed /\ q.fault = p.fault
                 /\ q.start = p.start /\ q.done = p.done
           /\ \A x \in 0 .. Phase4 : LET q == [p EXCEPT !.seed = x] IN
                 q \in PreRecord /\ q.seed = x
                 /\ q.fsm = p.fsm /\ q.phase = p.phase /\ q.retry = p.retry /\ q.fault = p.fault
                 /\ q.start = p.start /\ q.done = p.done
           /\ \A x \in Faults : LET q == [p EXCEPT !.fault = x] IN
                 q \in PreRecord /\ q.fault = x
                 /\ q.fsm = p.fsm /\ q.phase = p.phase /\ q.retry = p.retry /\ q.seed = p.seed
                 /\ q.start = p.start /\ q.done = p.done
           /\ \A x \in BOOLEAN : LET q == [p EXCEPT !.start = x] IN
                 q \in PreRecord /\ q.start = x
                 /\ q.fsm = p.fsm /\ q.phase = p.phase /\ q.retry = p.retry /\ q.seed = p.seed
                 /\ q.fault = p.fault /\ q.done = p.done
           /\ \A x \in BOOLEAN : LET q == [p EXCEPT !.done = x] IN
                 q \in PreRecord /\ q.done = x
                 /\ q.fsm = p.fsm /\ q.phase = p.phase /\ q.retry = p.retry /\ q.seed = p.seed
                 /\ q.fault = p.fault /\ q.start = p.start
BY DEF PreRecord

(* The record of the sequence with one field replaced.                     *)
LEMMA SeqParts ==
    ASSUME NEW s \in SeqRecord
    PROVE  /\ \A x \in [state : SeqStates, last : SeqStates] : LET q == [s EXCEPT !.fsm = x] IN
                 q \in SeqRecord /\ q.fsm = x
                 /\ q.req = s.req /\ q.steady = s.steady /\ q.handed = s.handed /\ q.brake = s.brake
                 /\ q.spent = s.spent
           /\ \A x \in BOOLEAN : LET q == [s EXCEPT !.req = x] IN
                 q \in SeqRecord /\ q.req = x
                 /\ q.fsm = s.fsm /\ q.steady = s.steady /\ q.handed = s.handed /\ q.brake = s.brake
                 /\ q.spent = s.spent
           /\ \A x \in 0 .. Steady + Handover : LET q == [s EXCEPT !.steady = x] IN
                 q \in SeqRecord /\ q.steady = x
                 /\ q.fsm = s.fsm /\ q.req = s.req /\ q.handed = s.handed /\ q.brake = s.brake
                 /\ q.spent = s.spent
           /\ \A x \in BOOLEAN : LET q == [s EXCEPT !.handed = x] IN
                 q \in SeqRecord /\ q.handed = x
                 /\ q.fsm = s.fsm /\ q.req = s.req /\ q.steady = s.steady /\ q.brake = s.brake
                 /\ q.spent = s.spent
           /\ \A x \in BOOLEAN : LET q == [s EXCEPT !.brake = x] IN
                 q \in SeqRecord /\ q.brake = x
                 /\ q.fsm = s.fsm /\ q.req = s.req /\ q.steady = s.steady /\ q.handed = s.handed
                 /\ q.spent = s.spent
           /\ \A x \in 0 .. Discharge + 1 : LET q == [s EXCEPT !.spent = x] IN
                 q \in SeqRecord /\ q.spent = x
                 /\ q.fsm = s.fsm /\ q.req = s.req /\ q.steady = s.steady /\ q.handed = s.handed
                 /\ q.brake = s.brake
BY DEF SeqRecord

(* Changes of state of the two machines.                                   *)
LEMMA PreToResult ==
    ASSUME NEW b \in Board, NEW s \in PreStates
    PROVE  /\ PreTo(b, s) \in Board /\ OnlyPre(b, PreTo(b, s)) /\ PreTo(b, s).on = b.on
           /\ PreTo(b, s).pre.fsm = [state |-> s, last |-> b.pre.fsm.state]
           /\ PreTo(b, s).pre.fsm.state = s /\ PreTo(b, s).pre.fsm.last = b.pre.fsm.state
           /\ PreTo(b, s).pre.phase = b.pre.phase /\ PreTo(b, s).pre.retry = b.pre.retry
           /\ PreTo(b, s).pre.seed = b.pre.seed /\ PreTo(b, s).pre.fault = b.pre.fault
           /\ PreTo(b, s).pre.start = b.pre.start /\ PreTo(b, s).pre.done = b.pre.done
<1> DEFINE p == [b.pre EXCEPT !.fsm = [state |-> s, last |-> b.pre.fsm.state]]
<1>1. PreTo(b, s) = [b EXCEPT !.pre = p]
  BY DEF PreTo, FsmGoto
<1>2. /\ p \in PreRecord /\ p.fsm = [state |-> s, last |-> b.pre.fsm.state]
      /\ p.phase = b.pre.phase /\ p.retry = b.pre.retry /\ p.seed = b.pre.seed
      /\ p.fault = b.pre.fault /\ p.start = b.pre.start /\ p.done = b.pre.done
  BY BoardParts DEF PreRecord
<1> HIDE DEF p
<1> QED BY <1>1, <1>2, BoardParts

(* The same of the sequence.                                               *)
LEMMA SeqToResult ==
    ASSUME NEW b \in Board, NEW s \in SeqStates
    PROVE  LET c == SeqTo(b, s) IN
           /\ c \in Board /\ c.pre = b.pre /\ c.on = b.on /\ c.pol = b.pol
           /\ c.seq.fsm.state = s /\ c.seq.fsm.last = b.seq.fsm.state
           /\ c.seq.req = b.seq.req /\ c.seq.steady = b.seq.steady
           /\ c.seq.handed = b.seq.handed /\ c.seq.brake = b.seq.brake
           /\ c.seq.spent = b.seq.spent
<1> DEFINE p == [b.seq EXCEPT !.fsm = [state |-> s, last |-> b.seq.fsm.state]]
<1>1. SeqTo(b, s) = [b EXCEPT !.seq = p]
  BY DEF SeqTo, FsmGoto
<1>2. /\ p \in SeqRecord /\ p.fsm = [state |-> s, last |-> b.seq.fsm.state]
      /\ p.req = b.seq.req /\ p.steady = b.seq.steady /\ p.handed = b.seq.handed
      /\ p.brake = b.seq.brake /\ p.spent = b.seq.spent
  BY BoardParts DEF SeqRecord
<1> HIDE DEF p
<1> QED BY <1>1, <1>2, BoardParts

(* pre_reset turns the charge switch off.                                  *)
LEMMA PreResetResult ==
    ASSUME NEW b \in Board
    PROVE  LET c == PreReset(b) IN
           /\ c \in Board /\ OnlyPre(b, c) /\ c.on = b.on \ {"chg"}
           /\ c.pre.fsm = [state |-> "IDLE", last |-> b.pre.fsm.state]
           /\ c.pre.retry = 0 /\ c.pre.seed = 0 /\ c.pre.fault = "NONE"
           /\ c.pre.start = FALSE /\ c.pre.done = FALSE
<1> DEFINE p1 == [b.pre EXCEPT !.start = FALSE]
           p2 == [p1 EXCEPT !.retry = 0]
           p3 == [p2 EXCEPT !.fault = "NONE"]
           p4 == [p3 EXCEPT !.done = FALSE]
           p5 == [p4 EXCEPT !.seed = 0]
           b1 == [b EXCEPT !.pre = p5]
           b2 == [b1 EXCEPT !.on = b.on \ {"chg"}]
<1>1. p1 \in PreRecord /\ p1.fsm = b.pre.fsm /\ p1.start = FALSE
  BY BoardParts, PreParts
<1>2. p2 \in PreRecord /\ p2.fsm = b.pre.fsm /\ p2.start = FALSE /\ p2.retry = 0
  <2> HIDE DEF p1
  <2> QED BY <1>1, PreParts, PrechargeAssumption
<1>3. /\ p3 \in PreRecord /\ p3.fsm = b.pre.fsm /\ p3.start = FALSE /\ p3.retry = 0
      /\ p3.fault = "NONE"
  <2> HIDE DEF p2
  <2>1. "NONE" \in Faults
    BY DEF Faults
  <2> QED BY <1>2, <2>1, PreParts
<1>4. /\ p4 \in PreRecord /\ p4.fsm = b.pre.fsm /\ p4.start = FALSE /\ p4.retry = 0
      /\ p4.fault = "NONE" /\ p4.done = FALSE
  <2> HIDE DEF p3
  <2> QED BY <1>3, PreParts
<1>5. /\ p5 \in PreRecord /\ p5.fsm = b.pre.fsm /\ p5.start = FALSE /\ p5.retry = 0
      /\ p5.fault = "NONE" /\ p5.done = FALSE /\ p5.seed = 0
  <2> HIDE DEF p4
  <2> QED BY <1>4, PreParts, PrechargeAssumption
<1>6. b1 \in Board /\ OnlyPre(b, b1) /\ b1.pre = p5 /\ b1.on = b.on
  <2> HIDE DEF p5
  <2> QED BY <1>5, BoardParts
<1>7. b2 \in Board /\ OnlyPre(b, b2) /\ b2.pre = p5 /\ b2.on = b.on \ {"chg"}
  <2> HIDE DEF b1, p5
  <2>1. b.on \ {"chg"} \in SUBSET Switches
    BY BoardParts
  <2> QED BY <1>6, <2>1, BoardParts DEF OnlyPre
<1>8. PreReset(b) = PreTo(b2, "IDLE")
  BY DEF PreReset
<1> HIDE DEF b2, p5
<1>9. "IDLE" \in PreStates
  BY DEF PreStates
<1> QED BY <1>5, <1>7, <1>8, <1>9, PreToResult DEF OnlyPre

-----------------------------------------------------------------------------
(* The soft start, between two ticks.                                      *)
Soft(p, o) ==
    /\ "chg" \in o => \/ p.fsm.state \in Ramps \cup {"STEADY"}
                      \/ p.fsm.state = "FAULT" /\ p.fsm.last # "FAULT"
    /\ p.done => p.fsm.state = "STEADY" /\ p.fsm.last = "STEADY"
    /\ p.start => p.fsm.state = "IDLE" /\ p.retry = 0 /\ p.seed = 0
    /\ p.retry = 0 /\ p.fsm.state \in {"EN_CLEAR", "PREBIAS"} => p.seed = 0
    /\ p.fault # "NONE" => p.fsm.state = "FAULT"
(* The same where the entry callback has run.                              *)
SoftIn(p, o) ==
    /\ "chg" \in o => p.fsm.state \in Ramps \cup {"STEADY"}
    /\ p.done => p.fsm.state = "STEADY"
    /\ p.start => p.fsm.state = "IDLE" /\ p.retry = 0 /\ p.seed = 0
    /\ p.retry = 0 /\ p.fsm.state \in {"EN_CLEAR", "PREBIAS"} => p.seed = 0
    /\ p.fault # "NONE" => p.fsm.state = "FAULT"
(* n starts are accounted for by the retries.                              *)
Counted(p, o, n) ==
    /\ n <= RetryMax + 1
    /\ p.start => n = 0
    /\ p.fsm.state \in {"EN_CLEAR", "PREBIAS"} \cup Ramps /\ "chg" \notin o => n <= p.retry
    /\ p.fsm.state \in Ramps \cup {"OCP_RECOVER", "STEADY"} => n <= p.retry + 1
Seeded(p, k) == k /\ p.fsm.state \in Ramps /\ p.retry = 0 => p.seed = 0
Resting(p) == p.fsm.state \in {"IDLE", "FAULT"} /\ ~p.start

(* What a handler of the soft start keeps.                                 *)
Handles(b, c) ==
    /\ c \in Board /\ OnlyPre(b, c) /\ c.on = b.on /\ Soft(c.pre, c.on)
    /\ \A n \in Nat : Counted(b.pre, b.on, n) => Counted(c.pre, c.on, n)
    /\ \A k \in BOOLEAN : Seeded(b.pre, k) =>
          Seeded(c.pre, IF b.pre.fsm.state = "PREBIAS" THEN c.pre.fsm.state = "RAMP_TON" ELSE k)
    /\ Resting(b.pre) => Resting(c.pre) /\ c.pre.fsm.state = b.pre.fsm.state
    /\ b.pre.fsm.state = "STEADY" => c.pre.fsm.state = "STEADY" /\ c.pre.done = b.pre.done

(* What a handler of the precharge leaves.                                 *)
LEMMA HandlerResult ==
    ASSUME NEW b \in Board, NEW q \in PreRecord, NEW s \in PreStates, q.fsm = b.pre.fsm
    PROVE  LET c == PreTo([b EXCEPT !.pre = q], s) IN
           /\ c \in Board /\ OnlyPre(b, c) /\ c.on = b.on
           /\ c.pre.fsm.state = s /\ c.pre.fsm.last = b.pre.fsm.state
           /\ c.pre.retry = q.retry /\ c.pre.seed = q.seed
           /\ c.pre.fault = q.fault /\ c.pre.start = q.start /\ c.pre.done = q.done
<1> DEFINE a == [b EXCEPT !.pre = q]
           c == PreTo(a, s)
<1>1. a \in Board /\ OnlyPre(b, a) /\ a.on = b.on /\ a.pre = q
  BY BoardParts
<1>2. /\ c \in Board /\ OnlyPre(a, c) /\ c.on = a.on
      /\ c.pre.fsm.state = s /\ c.pre.fsm.last = a.pre.fsm.state
      /\ c.pre.retry = a.pre.retry /\ c.pre.seed = a.pre.seed
      /\ c.pre.fault = a.pre.fault /\ c.pre.start = a.pre.start /\ c.pre.done = a.pre.done
  <2> HIDE DEF a
  <2> QED BY <1>1, PreToResult
<1>3. OnlyPre(b, c)
  BY <1>1, <1>2 DEF OnlyPre
<1> HIDE DEF c
<1>4. /\ c \in Board /\ OnlyPre(b, c) /\ c.on = b.on
      /\ c.pre.fsm.state = s /\ c.pre.fsm.last = b.pre.fsm.state
      /\ c.pre.retry = q.retry /\ c.pre.seed = q.seed
      /\ c.pre.fault = q.fault /\ c.pre.start = q.start /\ c.pre.done = q.done
  <2> HIDE DEF a
  <2> QED BY <1>1, <1>2, <1>3
<1> QED BY <1>4 DEF c

(* The seed of the duty cycle is in its range.                             *)
LEMMA SeedInRange == ASSUME NEW p \in Nat, p >= 100 PROVE Seed(p) \in 0 .. Phase4
<1> DEFINE x == (IF p > 900 THEN 900 ELSE p) - 100
<1>1. x \in 0 .. 800
  OBVIOUS
<1>2. Phase4 \in Nat
  BY PrechargeAssumption
<1> HIDE DEF x
<1>3. \A m \in Nat, k \in Nat : m <= 800 => m * k \in Nat /\ m * k <= 800 * k
  OBVIOUS
<1>4. \A y \in Nat, w \in Nat : y <= 800 * w => y \div 800 \in 0 .. w
  OBVIOUS
<1>5. (x * Phase4) \div 800 \in 0 .. Phase4
  BY <1>1, <1>2, <1>3, <1>4
<1> QED BY <1>5 DEF x, Seed

(* The handlers of the precharge keep the soft start.                      *)
LEMMA PrePhaseHandles ==
    ASSUME NEW b \in Board, SoftIn(b.pre, b.on), NEW ticks \in Nat, NEW next \in PreStates,
           \/ b.pre.fsm.state = "EN_CLEAR" /\ next = "PREBIAS"
           \/ b.pre.fsm.state = "RAMP_TON" /\ next = "RAMP_FREQ"
           \/ b.pre.fsm.state = "RAMP_FREQ" /\ next = "RAMP_DUTY"
    PROVE  Handles(b, PrePhase(b, ticks, next))
<1> DEFINE q == [b.pre EXCEPT !.phase = b.pre.phase + 1]
           a == [b EXCEPT !.pre = q]
           s == IF a.pre.phase >= ticks THEN next ELSE b.pre.fsm.state
           c == PreTo(a, s)
<1>1. PrePhase(b, ticks, next) = c
  BY DEF PrePhase
<1>2. /\ q \in PreRecord /\ q.fsm = b.pre.fsm /\ q.retry = b.pre.retry /\ q.seed = b.pre.seed
      /\ q.fault = b.pre.fault /\ q.start = b.pre.start /\ q.done = b.pre.done
  <2>1. b.pre.phase + 1 \in Nat
    BY BoardParts DEF PreRecord
  <2> QED BY <2>1, BoardParts, PreParts
<1>3. s \in {next, b.pre.fsm.state} /\ s \in PreStates
  BY BoardParts DEF PreRecord
<1> HIDE DEF q, s
<1>4. /\ c \in Board /\ OnlyPre(b, c) /\ c.on = b.on
      /\ c.pre.fsm.state = s /\ c.pre.fsm.last = b.pre.fsm.state
      /\ c.pre.retry = b.pre.retry /\ c.pre.seed = b.pre.seed
      /\ c.pre.fault = b.pre.fault /\ c.pre.start = b.pre.start /\ c.pre.done = b.pre.done
  BY <1>2, <1>3, HandlerResult
<1> HIDE DEF c
<1> QED BY <1>1, <1>3, <1>4 DEF Handles, SoftIn, Soft, Counted, Seeded, Resting, Ramps

(* The handler of IDLE.                                                    *)
LEMMA PreIdleHandles ==
    ASSUME NEW b \in Board, SoftIn(b.pre, b.on), b.pre.fsm.state = "IDLE"
    PROVE  Handles(b, PreIdle(b))
<1> DEFINE q1 == [b.pre EXCEPT !.start = FALSE]
           q2 == [q1 EXCEPT !.retry = 0]
           q3 == [q2 EXCEPT !.fault = "NONE"]
           q == [q3 EXCEPT !.done = FALSE]
           a == [b EXCEPT !.pre = q]
           c == PreTo(a, "EN_CLEAR")
           d == PreTo(b, "IDLE")
<1>1. (b.pre.start => PreIdle(b) = c) /\ (~b.pre.start => PreIdle(b) = d)
  BY DEF PreIdle
<1>2. q1 \in PreRecord /\ q1.fsm = b.pre.fsm /\ q1.start = FALSE /\ q1.seed = b.pre.seed
  BY BoardParts, PreParts
<1>3. /\ q2 \in PreRecord /\ q2.fsm = b.pre.fsm /\ q2.start = FALSE /\ q2.seed = b.pre.seed
      /\ q2.retry = 0
  <2> HIDE DEF q1
  <2> QED BY <1>2, PreParts, PrechargeAssumption
<1>4. /\ q3 \in PreRecord /\ q3.fsm = b.pre.fsm /\ q3.start = FALSE /\ q3.seed = b.pre.seed
      /\ q3.retry = 0 /\ q3.fault = "NONE"
  <2> HIDE DEF q2
  <2>1. "NONE" \in Faults
    BY DEF Faults
  <2> QED BY <1>3, <2>1, PreParts
<1>5. /\ q \in PreRecord /\ q.fsm = b.pre.fsm /\ q.start = FALSE /\ q.seed = b.pre.seed
      /\ q.retry = 0 /\ q.fault = "NONE" /\ q.done = FALSE
  <2> HIDE DEF q3
  <2> QED BY <1>4, PreParts
<1>6. "EN_CLEAR" \in PreStates /\ "IDLE" \in PreStates
  BY DEF PreStates
<1>7. CASE b.pre.start
  <2> HIDE DEF q
  <2>1. /\ c \in Board /\ OnlyPre(b, c) /\ c.on = b.on
        /\ c.pre.fsm.state = "EN_CLEAR" /\ c.pre.fsm.last = "IDLE"
        /\ c.pre.retry = 0 /\ c.pre.seed = b.pre.seed
        /\ c.pre.fault = "NONE" /\ c.pre.start = FALSE /\ c.pre.done = FALSE
    BY <1>5, <1>6, HandlerResult
  <2>2. PreIdle(b) = c
    BY <1>1, <1>7
  <2> HIDE DEF c
  <2> QED BY <1>7, <2>1, <2>2 DEF Handles, SoftIn, Soft, Counted, Seeded, Resting, Ramps
<1>8. CASE ~b.pre.start
  <2>1. /\ d \in Board /\ OnlyPre(b, d) /\ d.on = b.on
        /\ d.pre.fsm.state = "IDLE" /\ d.pre.fsm.last = "IDLE"
        /\ d.pre.retry = b.pre.retry /\ d.pre.seed = b.pre.seed
        /\ d.pre.fault = b.pre.fault /\ d.pre.start = b.pre.start /\ d.pre.done = b.pre.done
    BY <1>6, PreToResult
  <2>2. PreIdle(b) = d
    BY <1>1, <1>8
  <2> HIDE DEF d
  <2> QED BY <1>8, <2>1, <2>2 DEF Handles, SoftIn, Soft, Counted, Seeded, Resting, Ramps
<1> QED BY <1>7, <1>8

(* The handler of PREBIAS.                                                 *)
LEMMA PreBiasHandles ==
    ASSUME NEW b \in Board, NEW in \in BoardInputs, SoftIn(b.pre, b.on),
           b.pre.fsm.state = "PREBIAS"
    PROVE  Handles(b, PreBias(b, in))
<1> DEFINE p == Permille(in)
           q == [b.pre EXCEPT !.seed = Seed(p)]
           c == PreTo([b EXCEPT !.pre = q], "RAMP_DUTY")
<1>1. p \in Nat
  BY DEF Permille, BoardInputs
<1>2. PreBias(b, in) = IF p < 100 THEN PreTo(b, "RAMP_TON")
                       ELSE IF p >= 950 THEN PreTo(b, "STEADY") ELSE c
  BY DEF PreBias
<1> HIDE DEF p
<1>3. {"RAMP_TON", "STEADY", "RAMP_DUTY"} \subseteq PreStates
  BY DEF PreStates, Ramps
<1>4. b.pre.retry \in Nat
  BY BoardParts, PrechargeAssumption DEF PreRecord
<1>5. ASSUME NEW s \in {"RAMP_TON", "STEADY"} PROVE Handles(b, PreTo(b, s))
  <2> DEFINE d == PreTo(b, s)
  <2>1. s \in PreStates
    BY <1>3
  <2>2. /\ d \in Board /\ OnlyPre(b, d) /\ d.on = b.on
        /\ d.pre.fsm.state = s /\ d.pre.fsm.last = b.pre.fsm.state
        /\ d.pre.retry = b.pre.retry /\ d.pre.seed = b.pre.seed
        /\ d.pre.fault = b.pre.fault /\ d.pre.start = b.pre.start /\ d.pre.done = b.pre.done
    BY <2>1, PreToResult
  <2> HIDE DEF d
  <2>3. Soft(d.pre, d.on) /\ \A n \in Nat : Counted(b.pre, b.on, n) => Counted(d.pre, d.on, n)
    BY <1>4, <2>2 DEF SoftIn, Soft, Counted, Ramps
  <2>4. ASSUME NEW k \in BOOLEAN, Seeded(b.pre, k)
        PROVE  Seeded(d.pre, d.pre.fsm.state = "RAMP_TON")
    BY <2>2 DEF SoftIn, Seeded, Ramps
  <2>5. Handles(b, d)
    BY <2>2, <2>3, <2>4 DEF Handles, Resting
  <2> QED BY <2>5 DEF d
<1>6. CASE p >= 100
  <2>1. Seed(p) \in 0 .. Phase4
    BY <1>1, <1>6, SeedInRange
  <2>2. /\ q \in PreRecord /\ q.fsm = b.pre.fsm /\ q.retry = b.pre.retry
        /\ q.fault = b.pre.fault /\ q.start = b.pre.start /\ q.done = b.pre.done
    BY <2>1, BoardParts, PreParts
  <2> HIDE DEF q
  <2>3. /\ c \in Board /\ OnlyPre(b, c) /\ c.on = b.on
        /\ c.pre.fsm.state = "RAMP_DUTY" /\ c.pre.fsm.last = "PREBIAS"
        /\ c.pre.retry = b.pre.retry
        /\ c.pre.fault = b.pre.fault /\ c.pre.start = b.pre.start /\ c.pre.done = b.pre.done
    BY <1>3, <2>2, HandlerResult
  <2>4. Handles(b, c)
    <3> HIDE DEF c
    <3>1. Soft(c.pre, c.on) /\ \A n \in Nat : Counted(b.pre, b.on, n) => Counted(c.pre, c.on, n)
      BY <1>4, <2>3 DEF SoftIn, Soft, Counted, Ramps
    <3>2. Seeded(c.pre, c.pre.fsm.state = "RAMP_TON")
      BY <2>3 DEF Seeded
    <3> QED BY <2>3, <3>1, <3>2 DEF Handles, Resting
  <2> QED BY <1>2, <1>5, <1>6, <2>4
<1>7. CASE ~(p >= 100)
  BY <1>1, <1>2, <1>5, <1>7
<1> QED BY <1>6, <1>7

(* The handler of RAMP_DUTY.                                               *)
LEMMA RampDutyHandles ==
    ASSUME NEW b \in Board, NEW in \in BoardInputs, SoftIn(b.pre, b.on),
           b.pre.fsm.state = "RAMP_DUTY"
    PROVE  Handles(b, RampDuty(b, in))
<1> DEFINE q == [b.pre EXCEPT !.phase = b.pre.phase + 1]
           f == [q EXCEPT !.fault = "NO_LOAD"]
           a == [b EXCEPT !.pre = q]
           g == [b EXCEPT !.pre = f]
           s == IF a.pre.phase >= Phase4 THEN "STEADY" ELSE "RAMP_DUTY"
           c == PreTo(a, s)
           d == PreTo(g, "FAULT")
<1>1. \/ RampDuty(b, in) = c
      \/ RampDuty(b, in) = PreTo([a EXCEPT !.pre.fault = "NO_LOAD"], "FAULT")
  BY DEF RampDuty
<1>2. /\ q \in PreRecord /\ q.fsm = b.pre.fsm /\ q.retry = b.pre.retry /\ q.seed = b.pre.seed
      /\ q.fault = b.pre.fault /\ q.start = b.pre.start /\ q.done = b.pre.done
  <2>1. b.pre.phase + 1 \in Nat
    BY BoardParts DEF PreRecord
  <2> QED BY <2>1, BoardParts, PreParts
<1>3. /\ f \in PreRecord /\ f.fsm = b.pre.fsm /\ f.retry = b.pre.retry /\ f.seed = b.pre.seed
      /\ f.fault = "NO_LOAD" /\ f.start = b.pre.start /\ f.done = b.pre.done
  <2>1. "NO_LOAD" \in Faults
    BY DEF Faults
  <2> HIDE DEF q
  <2> QED BY <1>2, <2>1, PreParts
<1>4. {"STEADY", "RAMP_DUTY", "FAULT"} \subseteq PreStates /\ s \in {"STEADY", "RAMP_DUTY"}
  BY DEF PreStates, Ramps
<1>5. [a EXCEPT !.pre.fault = "NO_LOAD"] = g
  <2> HIDE DEF q
  <2>1. a.pre = q
    BY <1>2, BoardParts
  <2>2. [a EXCEPT !.pre.fault = "NO_LOAD"] = [a EXCEPT !.pre = f]
    BY <2>1
  <2> HIDE DEF f
  <2>3. [a EXCEPT !.pre = f] = g
    BY BoardParts DEF Board
  <2> QED BY <2>2, <2>3
<1> HIDE DEF q, f, s
<1>6. /\ c \in Board /\ OnlyPre(b, c) /\ c.on = b.on
      /\ c.pre.fsm.state = s /\ c.pre.fsm.last = "RAMP_DUTY"
      /\ c.pre.retry = b.pre.retry /\ c.pre.seed = b.pre.seed
      /\ c.pre.fault = b.pre.fault /\ c.pre.start = b.pre.start /\ c.pre.done = b.pre.done
  BY <1>2, <1>4, HandlerResult
<1>7. /\ d \in Board /\ OnlyPre(b, d) /\ d.on = b.on
      /\ d.pre.fsm.state = "FAULT" /\ d.pre.fsm.last = "RAMP_DUTY"
      /\ d.pre.retry = b.pre.retry /\ d.pre.seed = b.pre.seed
      /\ d.pre.fault = "NO_LOAD" /\ d.pre.start = b.pre.start /\ d.pre.done = b.pre.done
  BY <1>3, <1>4, HandlerResult
<1>8. Handles(b, c)
  <2> HIDE DEF c
  <2> QED BY <1>4, <1>6 DEF Handles, SoftIn, Soft, Counted, Seeded, Resting, Ramps
<1>9. Handles(b, d)
  <2> HIDE DEF d
  <2> QED BY <1>7 DEF Handles, SoftIn, Soft, Counted, Seeded, Resting, Ramps
<1> QED BY <1>1, <1>5, <1>8, <1>9

(* The handler of OCP_RECOVER.                                             *)
LEMMA OcpRecoverHandles ==
    ASSUME NEW b \in Board, SoftIn(b.pre, b.on), b.pre.fsm.state = "OCP_RECOVER"
    PROVE  Handles(b, OcpRecover(b))
<1> DEFINE q == [b.pre EXCEPT !.phase = b.pre.phase + 1]
           r == [q EXCEPT !.retry = b.pre.retry + 1]
           f == [q EXCEPT !.fault = "SHORT_CIRCUIT"]
           a == [b EXCEPT !.pre = q]
           c == PreTo(a, "OCP_RECOVER")
           d == PreTo([b EXCEPT !.pre = r], "EN_CLEAR")
           e == PreTo([b EXCEPT !.pre = f], "FAULT")
<1>1. /\ q \in PreRecord /\ q.fsm = b.pre.fsm /\ q.retry = b.pre.retry /\ q.seed = b.pre.seed
      /\ q.fault = b.pre.fault /\ q.start = b.pre.start /\ q.done = b.pre.done
  <2>1. b.pre.phase + 1 \in Nat
    BY BoardParts DEF PreRecord
  <2> QED BY <2>1, BoardParts, PreParts
<1>2. a.pre = q
  <2> HIDE DEF q
  <2> QED BY <1>1, BoardParts
<1>3. /\ Retried(a) = [b EXCEPT !.pre = r]
      /\ [a EXCEPT !.pre.fault = "SHORT_CIRCUIT"] = [b EXCEPT !.pre = f]
  <2>1. /\ Retried(a) = [a EXCEPT !.pre = r]
        /\ [a EXCEPT !.pre.fault = "SHORT_CIRCUIT"] = [a EXCEPT !.pre = f]
    <3> HIDE DEF a, q
    <3> QED BY <1>1, <1>2 DEF Retried
  <2> HIDE DEF r, f, q
  <2>2. \A x : [a EXCEPT !.pre = x] = [b EXCEPT !.pre = x]
    BY BoardParts DEF Board
  <2> QED BY <2>1, <2>2
<1>4. \/ OcpRecover(b) = c
      \/ RetryLeft(b) /\ OcpRecover(b) = PreTo(Retried(a), "EN_CLEAR")
      \/ OcpRecover(b) = PreTo([a EXCEPT !.pre.fault = "SHORT_CIRCUIT"], "FAULT")
  BY DEF OcpRecover
<1>5. RetryLeft(b) =>
      /\ r \in PreRecord /\ r.fsm = b.pre.fsm /\ r.retry = b.pre.retry + 1
      /\ r.seed = b.pre.seed
      /\ r.fault = b.pre.fault /\ r.start = b.pre.start /\ r.done = b.pre.done
  <2>1. RetryLeft(b) => b.pre.retry + 1 \in 0 .. RetryMax
    BY BoardParts, PrechargeAssumption DEF RetryLeft, PreRecord
  <2> HIDE DEF q
  <2> QED BY <1>1, <2>1, PreParts
<1>6. /\ f \in PreRecord /\ f.fsm = b.pre.fsm /\ f.retry = b.pre.retry /\ f.seed = b.pre.seed
      /\ f.fault = "SHORT_CIRCUIT" /\ f.start = b.pre.start /\ f.done = b.pre.done
  <2>1. "SHORT_CIRCUIT" \in Faults
    BY DEF Faults
  <2> HIDE DEF q
  <2> QED BY <1>1, <2>1, PreParts
<1>7. {"OCP_RECOVER", "EN_CLEAR", "FAULT"} \subseteq PreStates /\ b.pre.retry \in 0 .. RetryMax
  BY BoardParts DEF PreStates, PreRecord
<1> HIDE DEF r, f, q
<1>8. Handles(b, c)
  <2>1. /\ c \in Board /\ OnlyPre(b, c) /\ c.on = b.on
        /\ c.pre.fsm.state = "OCP_RECOVER" /\ c.pre.fsm.last = "OCP_RECOVER"
        /\ c.pre.retry = b.pre.retry /\ c.pre.seed = b.pre.seed
        /\ c.pre.fault = b.pre.fault /\ c.pre.start = b.pre.start /\ c.pre.done = b.pre.done
    BY <1>1, <1>7, HandlerResult
  <2> HIDE DEF c
  <2> QED BY <2>1 DEF Handles, SoftIn, Soft, Counted, Seeded, Resting, Ramps
<1>9. RetryLeft(b) => Handles(b, d)
  <2>1. RetryLeft(b) =>
        /\ d \in Board /\ OnlyPre(b, d) /\ d.on = b.on
        /\ d.pre.fsm.state = "EN_CLEAR" /\ d.pre.fsm.last = "OCP_RECOVER"
        /\ d.pre.retry = b.pre.retry + 1 /\ d.pre.seed = b.pre.seed
        /\ d.pre.fault = b.pre.fault /\ d.pre.start = b.pre.start /\ d.pre.done = b.pre.done
    BY <1>5, <1>7, HandlerResult
  <2> HIDE DEF d
  <2> QED BY <1>7, <2>1 DEF Handles, SoftIn, Soft, Counted, Seeded, Resting, Ramps
<1>10. Handles(b, e)
  <2>1. /\ e \in Board /\ OnlyPre(b, e) /\ e.on = b.on
        /\ e.pre.fsm.state = "FAULT" /\ e.pre.fsm.last = "OCP_RECOVER"
        /\ e.pre.retry = b.pre.retry /\ e.pre.seed = b.pre.seed
        /\ e.pre.fault = "SHORT_CIRCUIT" /\ e.pre.start = b.pre.start
        /\ e.pre.done = b.pre.done
    BY <1>6, <1>7, HandlerResult
  <2> HIDE DEF e
  <2> QED BY <2>1 DEF Handles, SoftIn, Soft, Counted, Seeded, Resting, Ramps
<1> QED BY <1>3, <1>4, <1>8, <1>9, <1>10

-----------------------------------------------------------------------------
(* The starts so far, after a step that leaves the switches o.             *)
Started(o0, o, n) == IF "chg" \in o \ o0 THEN UpTo(n, RetryMax + 2) ELSE n

(* Entering a state of the precharge.                                      *)
LEMMA PreEnteredResult ==
    ASSUME NEW b \in Board
    PROVE  LET c == PreEntered(b)
               s == b.pre.fsm.state IN
           /\ c \in Board /\ OnlyPre(b, c)
           /\ c.pre.fsm = b.pre.fsm /\ c.pre.retry = b.pre.retry /\ c.pre.seed = b.pre.seed
           /\ c.pre.fault = b.pre.fault /\ c.pre.start = b.pre.start
           /\ c.pre.done = (b.pre.done \/ s = "STEADY")
           /\ s \in {"RAMP_TON", "RAMP_DUTY"} => c.on = b.on \cup {"chg"}
           /\ s \in {"RAMP_FREQ", "STEADY"} => c.on = b.on
           /\ s \notin Ramps \cup {"STEADY"} => c.on = b.on \ {"chg"}
<1> DEFINE s == b.pre.fsm.state
           n == IF s = "RAMP_DUTY" THEN b.pre.seed ELSE 0
           k == b.pre.done \/ s = "STEADY"
           o == CASE s \in {"RAMP_TON", "RAMP_DUTY"} -> b.on \cup {"chg"}
                  [] s \in {"RAMP_FREQ", "STEADY"}   -> b.on
                  [] OTHER                           -> b.on \ {"chg"}
           p == [b.pre EXCEPT !.phase = n]
           q == [p EXCEPT !.done = k]
           a == [b EXCEPT !.pre = q]
           c == [a EXCEPT !.on = o]
<1>1. n \in Nat /\ k \in BOOLEAN
  BY BoardParts, PrechargeAssumption DEF PreRecord
<1>2. /\ s \in {"RAMP_TON", "RAMP_DUTY"} => o = b.on \cup {"chg"}
      /\ s \in {"RAMP_FREQ", "STEADY"} => o = b.on
      /\ s \notin Ramps \cup {"STEADY"} => o = b.on \ {"chg"}
  BY DEF Ramps
<1>3. o \in SUBSET Switches
  <2> HIDE DEF s
  <2>1. \/ o = b.on \cup {"chg"}
        \/ o = b.on
        \/ o = b.on \ {"chg"}
    OBVIOUS
  <2> HIDE DEF o
  <2> QED BY <2>1, BoardParts DEF Switches
<1>4. /\ p \in PreRecord /\ p.fsm = b.pre.fsm /\ p.retry = b.pre.retry /\ p.seed = b.pre.seed
      /\ p.fault = b.pre.fault /\ p.start = b.pre.start
  <2> HIDE DEF n
  <2> QED BY <1>1, BoardParts, PreParts
<1>5. /\ q \in PreRecord /\ q.fsm = b.pre.fsm /\ q.retry = b.pre.retry /\ q.seed = b.pre.seed
      /\ q.fault = b.pre.fault /\ q.start = b.pre.start /\ q.done = k
  <2> HIDE DEF p, k
  <2> QED BY <1>1, <1>4, PreParts
<1>6. a \in Board /\ OnlyPre(b, a) /\ a.pre = q /\ a.on = b.on
  <2> HIDE DEF q
  <2> QED BY <1>5, BoardParts
<1>7. c \in Board /\ OnlyPre(b, c) /\ c.pre = q /\ c.on = o
  <2> HIDE DEF a, q, o
  <2> QED BY <1>3, <1>6, BoardParts DEF OnlyPre
<1>8. PreEntered(b) = c
  BY DEF PreEntered
<1> HIDE DEF c, q, o
<1> QED BY <1>2, <1>5, <1>7, <1>8

(* What precharge_step has done when it calls the handler of the state.    *)
Enters(b0, b, in) ==
    /\ b \in Board /\ OnlyChg(b0, b) /\ SoftIn(b.pre, b.on)
    /\ \A n \in Nat : Counted(b0.pre, b0.on, n) => Counted(b.pre, b.on, Started(b0.on, b.on, n))
    /\ \A k \in BOOLEAN : Seeded(b0.pre, k) => Seeded(b.pre, k)
    /\ b.pre.fsm.state = "PREBIAS" <=> b0.pre.fsm.state = "PREBIAS"
    /\ Resting(b0.pre) => Resting(b.pre) /\ b.pre.fsm.state = b0.pre.fsm.state
    /\ b0.pre.done => b.pre.fsm.state = "STEADY" /\ b.pre.done
    /\ in.ocp /\ "chg" \in b.on => b.pre.fsm.state = "STEADY"

(* The over-current check and the entry keep the soft start.               *)
LEMMA EntersKeeps ==
    ASSUME NEW b0 \in Board, NEW in \in BoardInputs, Soft(b0.pre, b0.on)
    PROVE  LET b1 == IF OcpWatched(b0.pre.fsm.state) /\ in.ocp
                     THEN PreTo(b0, "OCP_RECOVER") ELSE b0
           IN  Enters(b0, IF FsmEntering(b1.pre.fsm) THEN PreEntered(b1) ELSE b1, in)
<1> DEFINE ocp == OcpWatched(b0.pre.fsm.state) /\ in.ocp
           b1 == IF ocp THEN PreTo(b0, "OCP_RECOVER") ELSE b0
           b == IF FsmEntering(b1.pre.fsm) THEN PreEntered(b1) ELSE b1
<1> SUFFICES Enters(b0, b, in)
  OBVIOUS
<1>0. b0.pre.retry \in Nat /\ b0.pre.retry <= RetryMax /\ RetryMax \in Nat
  BY BoardParts, PrechargeAssumption DEF PreRecord
<1>1. CASE ocp
  <2> DEFINE a == PreTo(b0, "OCP_RECOVER")
  <2>1. b0.pre.fsm.state \in {"EN_CLEAR"} \cup Ramps
    BY <1>1 DEF OcpWatched
  <2>2. "OCP_RECOVER" \in PreStates
    BY DEF PreStates
  <2>3. /\ a \in Board /\ OnlyPre(b0, a) /\ a.on = b0.on
        /\ a.pre.fsm.state = "OCP_RECOVER" /\ a.pre.fsm.last = b0.pre.fsm.state
        /\ a.pre.retry = b0.pre.retry /\ a.pre.seed = b0.pre.seed
        /\ a.pre.fault = b0.pre.fault /\ a.pre.start = b0.pre.start /\ a.pre.done = b0.pre.done
    BY <2>2, PreToResult
  <2>4. b1 = a
    BY <1>1
  <2>5. b = PreEntered(a)
    <3> HIDE DEF a, b1
    <3> QED BY <2>1, <2>3, <2>4 DEF FsmEntering, Ramps
  <2> HIDE DEF a, b
  <2>6. /\ b \in Board /\ OnlyPre(b0, b) /\ b.on = b0.on \ {"chg"}
        /\ b.pre.fsm.state = "OCP_RECOVER" /\ b.pre.retry = b0.pre.retry
        /\ b.pre.seed = b0.pre.seed /\ b.pre.fault = b0.pre.fault
        /\ b.pre.start = b0.pre.start /\ b.pre.done = b0.pre.done
    <3>1. "OCP_RECOVER" \notin Ramps \cup {"STEADY"}
      BY DEF Ramps
    <3>2. b0.pre.done \in BOOLEAN /\ a.pre.done \in BOOLEAN
      BY <2>3, BoardParts DEF PreRecord
    <3> QED BY <2>3, <2>5, <3>1, <3>2, PreEnteredResult DEF OnlyPre
  <2>7. OnlyChg(b0, b) /\ SoftIn(b.pre, b.on)
    BY <2>1, <2>6 DEF OnlyChg, OnlyPre, Soft, SoftIn, Ramps
  <2>8. \A n \in Nat : Counted(b0.pre, b0.on, n) => Counted(b.pre, b.on, Started(b0.on, b.on, n))
    BY <1>0, <2>1, <2>6 DEF Soft, Counted, Started, Ramps
  <2>9. /\ \A k \in BOOLEAN : Seeded(b.pre, k)
        /\ b0.pre.fsm.state # "PREBIAS" /\ ~Resting(b0.pre) /\ ~b0.pre.done
    BY <2>1, <2>6 DEF Seeded, Resting, Soft, Ramps
  <2> QED BY <2>6, <2>7, <2>8, <2>9 DEF Enters
<1>2. CASE ~ocp /\ ~FsmEntering(b0.pre.fsm)
  <2>1. b = b0
    BY <1>2
  <2> HIDE DEF b
  <2>2. OnlyChg(b0, b) /\ SoftIn(b.pre, b.on)
    BY <1>2, <2>1 DEF OnlyChg, OnlyPre, Soft, SoftIn, FsmEntering
  <2>3. in.ocp /\ "chg" \in b.on => b.pre.fsm.state = "STEADY"
    BY <1>2, <2>1, <2>2 DEF SoftIn, OcpWatched
  <2>4. \A n \in Nat : Started(b0.on, b.on, n) = n
    BY <2>1 DEF Started
  <2> QED BY <2>1, <2>2, <2>3, <2>4 DEF Enters, Soft
<1>3. CASE ~ocp /\ FsmEntering(b0.pre.fsm)
  <2>1. b = PreEntered(b0)
    BY <1>3
  <2> HIDE DEF b
  <2> DEFINE s == b0.pre.fsm.state
  <2>2. /\ b \in Board /\ OnlyPre(b0, b)
        /\ b.pre.fsm = b0.pre.fsm /\ b.pre.retry = b0.pre.retry /\ b.pre.seed = b0.pre.seed
        /\ b.pre.fault = b0.pre.fault /\ b.pre.start = b0.pre.start
        /\ b.pre.done = (b0.pre.done \/ s = "STEADY")
    BY <2>1, PreEnteredResult
  <2>3. /\ s \in {"RAMP_TON", "RAMP_DUTY"} => b.on = b0.on \cup {"chg"}
        /\ s \in {"RAMP_FREQ", "STEADY"} => b.on = b0.on
        /\ s \notin Ramps \cup {"STEADY"} => b.on = b0.on \ {"chg"}
    BY <2>1, PreEnteredResult
  <2>4. OnlyChg(b0, b) /\ SoftIn(b.pre, b.on)
    BY <2>2, <2>3 DEF OnlyChg, OnlyPre, Soft, SoftIn, Ramps
  <2>5. in.ocp /\ "chg" \in b.on => b.pre.fsm.state = "STEADY"
    BY <1>3, <2>2, <2>4 DEF SoftIn, OcpWatched
  <2>6. \A n \in Nat : Counted(b0.pre, b0.on, n) => Counted(b.pre, b.on, Started(b0.on, b.on, n))
    <3> TAKE n \in Nat
    <3> SUFFICES ASSUME Counted(b0.pre, b0.on, n)
                 PROVE  Counted(b.pre, b.on, Started(b0.on, b.on, n))
      OBVIOUS
    <3>1. CASE s \in {"RAMP_TON", "RAMP_DUTY"} /\ "chg" \notin b0.on
      <4>1. Started(b0.on, b.on, n) = n + 1 /\ n <= b0.pre.retry
        BY <1>0, <2>3, <3>1 DEF Started, UpTo, Counted, Ramps
      <4> QED BY <1>0, <2>2, <2>3, <3>1, <4>1 DEF Counted, Soft, Ramps
    <3>2. CASE ~(s \in {"RAMP_TON", "RAMP_DUTY"} /\ "chg" \notin b0.on)
      <4>1. "chg" \notin b.on \ b0.on
        BY <2>3, <3>2 DEF Ramps
      <4>2. Started(b0.on, b.on, n) = n
        BY <4>1 DEF Started
      <4> QED BY <1>0, <2>2, <2>3, <3>2, <4>2 DEF Counted, Soft, Ramps
    <3> QED BY <3>1, <3>2
  <2>7. \A k \in BOOLEAN : Seeded(b0.pre, k) => Seeded(b.pre, k)
    BY <2>2 DEF Seeded
  <2>8. b0.pre.done => b.pre.fsm.state = "STEADY" /\ b.pre.done
    BY <2>2 DEF Soft
  <2> QED BY <2>2, <2>4, <2>5, <2>6, <2>7, <2>8 DEF Enters, Resting
<1> QED BY <1>1, <1>2, <1>3

(* What a step of the soft start does to the board.                        *)
Charges(b, c, in) ==
    /\ c \in Board /\ OnlyChg(b, c) /\ Soft(c.pre, c.on)
    /\ \A n \in Nat : Counted(b.pre, b.on, n) => Counted(c.pre, c.on, Started(b.on, c.on, n))
    /\ \A k \in BOOLEAN : Seeded(b.pre, k) =>
          Seeded(c.pre, IF b.pre.fsm.state = "PREBIAS" THEN c.pre.fsm.state = "RAMP_TON" ELSE k)
    /\ Resting(b.pre) => Resting(c.pre) /\ c.pre.fsm.state = b.pre.fsm.state
    /\ b.pre.done => c.pre.done
    /\ in.ocp /\ "chg" \in c.on => c.pre.fsm.state = "STEADY"

(* Entry and handler together are a step of the precharge.                 *)
LEMMA HandledCharges ==
    ASSUME NEW b0 \in Board, NEW b, NEW c, NEW in, Enters(b0, b, in), Handles(b, c)
    PROVE  Charges(b0, c, in)
<1>1. c \in Board /\ OnlyChg(b0, c) /\ Soft(c.pre, c.on) /\ c.on = b.on
  BY DEF Enters, Handles, OnlyChg, OnlyPre
<1>2. ASSUME NEW n \in Nat, Counted(b0.pre, b0.on, n)
      PROVE  Counted(c.pre, c.on, Started(b0.on, c.on, n))
  <2>1. Started(b0.on, b.on, n) \in Nat
    BY PrechargeAssumption DEF Started, UpTo
  <2> QED BY <1>1, <1>2, <2>1 DEF Enters, Handles
<1>3. ASSUME NEW k \in BOOLEAN, Seeded(b0.pre, k)
      PROVE  Seeded(c.pre, IF b0.pre.fsm.state = "PREBIAS" THEN c.pre.fsm.state = "RAMP_TON" ELSE k)
  BY <1>3 DEF Enters, Handles
<1>4. /\ Resting(b0.pre) => Resting(c.pre) /\ c.pre.fsm.state = b0.pre.fsm.state
      /\ b0.pre.done => c.pre.done
      /\ in.ocp /\ "chg" \in c.on => c.pre.fsm.state = "STEADY"
  BY <1>1 DEF Enters, Handles
<1> QED BY <1>1, <1>2, <1>3, <1>4 DEF Charges

(* The states that stay.                                                   *)
LEMMA StaysHandles ==
    ASSUME NEW b \in Board, SoftIn(b.pre, b.on), b.pre.fsm.state \in {"STEADY", "FAULT"}
    PROVE  Handles(b, PreTo(b, b.pre.fsm.state))
<1> DEFINE s == b.pre.fsm.state
           c == PreTo(b, s)
<1>1. s \in PreStates
  BY DEF PreStates
<1>2. /\ c \in Board /\ OnlyPre(b, c) /\ c.on = b.on
      /\ c.pre.fsm.state = s /\ c.pre.fsm.last = s
      /\ c.pre.retry = b.pre.retry /\ c.pre.seed = b.pre.seed
      /\ c.pre.fault = b.pre.fault /\ c.pre.start = b.pre.start /\ c.pre.done = b.pre.done
  BY <1>1, PreToResult
<1> HIDE DEF c
<1>3. Soft(c.pre, c.on)
  BY <1>2 DEF Soft, SoftIn, Ramps
<1>4. Handles(b, c)
  BY <1>2, <1>3 DEF Handles, Counted, Seeded, Resting, Ramps
<1> QED BY <1>4 DEF c

(* The whole step of the precharge.                                        *)
LEMMA PrechargeStepCharges ==
    ASSUME NEW b0 \in Board, NEW in \in BoardInputs, Soft(b0.pre, b0.on)
    PROVE  Charges(b0, PrechargeStep(b0, in), in)
<1> DEFINE b1 == IF OcpWatched(b0.pre.fsm.state) /\ in.ocp THEN PreTo(b0, "OCP_RECOVER") ELSE b0
           b == IF FsmEntering(b1.pre.fsm) THEN PreEntered(b1) ELSE b1
           s == b.pre.fsm.state
           c == PrechargeStep(b0, in)
<1>1. Enters(b0, b, in)
  BY EntersKeeps
<1>2. c = CASE s = "IDLE"        -> PreIdle(b)
            [] s = "EN_CLEAR"    -> PrePhase(b, EnClear, "PREBIAS")
            [] s = "PREBIAS"     -> PreBias(b, in)
            [] s = "RAMP_TON"    -> PrePhase(b, Phase2, "RAMP_FREQ")
            [] s = "RAMP_FREQ"   -> PrePhase(b, Phase3, "RAMP_DUTY")
            [] s = "RAMP_DUTY"   -> RampDuty(b, in)
            [] s = "OCP_RECOVER" -> OcpRecover(b)
            [] OTHER             -> PreTo(b, s)
  BY DEF PrechargeStep
<1> HIDE DEF b, c
<1>3. b \in Board /\ SoftIn(b.pre, b.on) /\ s \in PreStates
  BY <1>1, BoardParts DEF Enters, PreRecord
<1>4. Handles(b, c)
  <2>1. CASE s = "IDLE"
    BY <1>2, <1>3, <2>1, PreIdleHandles
  <2>2. CASE s = "EN_CLEAR"
    <3>1. EnClear \in Nat /\ "PREBIAS" \in PreStates
      BY PrechargeAssumption DEF PreStates
    <3> QED BY <1>2, <1>3, <2>2, <3>1, PrePhaseHandles
  <2>3. CASE s = "PREBIAS"
    BY <1>2, <1>3, <2>3, PreBiasHandles
  <2>4. CASE s = "RAMP_TON"
    <3>1. Phase2 \in Nat /\ "RAMP_FREQ" \in PreStates
      BY PrechargeAssumption DEF PreStates, Ramps
    <3> QED BY <1>2, <1>3, <2>4, <3>1, PrePhaseHandles
  <2>5. CASE s = "RAMP_FREQ"
    <3>1. Phase3 \in Nat /\ "RAMP_DUTY" \in PreStates
      BY PrechargeAssumption DEF PreStates, Ramps
    <3> QED BY <1>2, <1>3, <2>5, <3>1, PrePhaseHandles
  <2>6. CASE s = "RAMP_DUTY"
    BY <1>2, <1>3, <2>6, RampDutyHandles
  <2>7. CASE s = "OCP_RECOVER"
    BY <1>2, <1>3, <2>7, OcpRecoverHandles
  <2>8. CASE s \in {"STEADY", "FAULT"}
    BY <1>2, <1>3, <2>8, StaysHandles
  <2> QED BY <1>3, <2>1, <2>2, <2>3, <2>4, <2>5, <2>6, <2>7, <2>8 DEF PreStates, Ramps
<1> QED BY <1>1, <1>4, HandledCharges DEF c

-----------------------------------------------------------------------------
(* The power-up sequence.                                                  *)

(* What a place of the sequence says of the soft start and the switches.   *)
Places(b) ==
    LET s == b.seq.fsm.state IN
    /\ s \in {"IDLE", "AUX"} => Resting(b.pre)
    /\ s = "PRECHARGE" /\ b.seq.fsm.last # s => Resting(b.pre)
    /\ s = "MOTOR" /\ (b.seq.fsm.last # s \/ ~b.seq.handed) => b.pre.done
    /\ s = "MOTOR" /\ b.seq.fsm.last = s /\ b.seq.handed => Resting(b.pre)
    /\ s = "DONE" => b.seq.handed /\ Resting(b.pre)
    /\ "motor" \in b.on => s \in {"MOTOR", "DONE"}
    /\ ~b.seq.req => s = "IDLE"
    /\ b.pol.tripped \/ b.pol.last => ~b.seq.req
Brakes(b) ==
    "brake" \in b.on =>
        /\ b.on = {"brake"} /\ b.seq.brake /\ b.pre.fsm.state = "IDLE"
        /\ \/ b.seq.fsm.state = "IDLE"
           \/ b.seq.fsm.state = "AUX" /\ b.seq.fsm.last # "AUX" /\ b.seq.spent > 0
(* The same where the entry callback has run.                              *)
PlacesIn(b) ==
    LET s == b.seq.fsm.state IN
    /\ s \in {"IDLE", "AUX"} => Resting(b.pre)
    /\ s = "MOTOR" => IF b.seq.handed THEN Resting(b.pre) ELSE b.pre.done
    /\ s = "DONE" => b.seq.handed /\ Resting(b.pre)
    /\ "motor" \in b.on => s \in {"MOTOR", "DONE"}
    /\ ~b.seq.req => s = "IDLE"
    /\ b.pol.tripped \/ b.pol.last => ~b.seq.req
BrakesIn(b) ==
    "brake" \in b.on =>
        /\ b.on = {"brake"} /\ b.seq.brake /\ b.pre.fsm.state = "IDLE"
        /\ b.seq.fsm.state = "IDLE"
SafeIn(b) == b \in Board /\ Soft(b.pre, b.on) /\ PlacesIn(b) /\ BrakesIn(b)
Safe(b) == b \in Board /\ Soft(b.pre, b.on) /\ Places(b) /\ Brakes(b)

(* The soft start goes on, or is reset.                                    *)
Reset(p, o) ==
    /\ p.fsm.state = "IDLE" /\ p.retry = 0 /\ p.seed = 0 /\ p.fault = "NONE"
    /\ p.done = FALSE /\ "chg" \notin o
PreKept(b, c) == c.pre = b.pre /\ ("chg" \in c.on <=> "chg" \in b.on)
PreStopped(b, c) == Reset(c.pre, c.on) /\ c.pre.start = FALSE
PreBegun(b, c) == Reset(c.pre, c.on) /\ c.pre.start = TRUE

(* The record of the sequence with one field replaced.                     *)
LEMMA SteadyResult ==
    ASSUME NEW b \in Board, NEW n \in 0 .. Steady + Handover
    PROVE  LET c == [b EXCEPT !.seq.steady = n] IN
           /\ c \in Board /\ c.pre = b.pre /\ c.on = b.on /\ c.pol = b.pol
           /\ c.seq.fsm = b.seq.fsm /\ c.seq.req = b.seq.req /\ c.seq.steady = n
           /\ c.seq.handed = b.seq.handed /\ c.seq.brake = b.seq.brake
           /\ c.seq.spent = b.seq.spent
<1> DEFINE s == [b.seq EXCEPT !.steady = n]
           c == [b EXCEPT !.seq = s]
<1>1. [b EXCEPT !.seq.steady = n] = c
  OBVIOUS
<1>2. /\ s \in SeqRecord /\ s.fsm = b.seq.fsm /\ s.req = b.seq.req /\ s.steady = n
      /\ s.handed = b.seq.handed /\ s.brake = b.seq.brake /\ s.spent = b.seq.spent
  BY BoardParts, SeqParts
<1> HIDE DEF s
<1>3. c \in Board /\ c.seq = s /\ c.pre = b.pre /\ c.on = b.on /\ c.pol = b.pol
  BY <1>2, BoardParts
<1> HIDE DEF c
<1> QED BY <1>1, <1>2, <1>3

(* The hand-over.                                                          *)
LEMMA HandedResult ==
    ASSUME NEW b \in Board, NEW k \in BOOLEAN
    PROVE  LET c == [b EXCEPT !.seq.handed = k] IN
           /\ c \in Board /\ c.pre = b.pre /\ c.on = b.on /\ c.pol = b.pol
           /\ c.seq.fsm = b.seq.fsm /\ c.seq.req = b.seq.req /\ c.seq.steady = b.seq.steady
           /\ c.seq.handed = k /\ c.seq.brake = b.seq.brake /\ c.seq.spent = b.seq.spent
<1> DEFINE s == [b.seq EXCEPT !.handed = k]
           c == [b EXCEPT !.seq = s]
<1>1. [b EXCEPT !.seq.handed = k] = c
  OBVIOUS
<1>2. /\ s \in SeqRecord /\ s.fsm = b.seq.fsm /\ s.req = b.seq.req /\ s.steady = b.seq.steady
      /\ s.handed = k /\ s.brake = b.seq.brake /\ s.spent = b.seq.spent
  BY BoardParts, SeqParts
<1> HIDE DEF s
<1>3. c \in Board /\ c.seq = s /\ c.pre = b.pre /\ c.on = b.on /\ c.pol = b.pol
  BY <1>2, BoardParts
<1> HIDE DEF c
<1> QED BY <1>1, <1>2, <1>3

(* The request.                                                            *)
LEMMA ReqResult ==
    ASSUME NEW b \in Board, NEW k \in BOOLEAN
    PROVE  LET c == [b EXCEPT !.seq.req = k] IN
           /\ c \in Board /\ c.pre = b.pre /\ c.on = b.on /\ c.pol = b.pol
           /\ c.seq.fsm = b.seq.fsm /\ c.seq.req = k /\ c.seq.steady = b.seq.steady
           /\ c.seq.handed = b.seq.handed /\ c.seq.brake = b.seq.brake
           /\ c.seq.spent = b.seq.spent
<1> DEFINE s == [b.seq EXCEPT !.req = k]
           c == [b EXCEPT !.seq = s]
<1>1. [b EXCEPT !.seq.req = k] = c
  OBVIOUS
<1>2. /\ s \in SeqRecord /\ s.fsm = b.seq.fsm /\ s.req = k /\ s.steady = b.seq.steady
      /\ s.handed = b.seq.handed /\ s.brake = b.seq.brake /\ s.spent = b.seq.spent
  BY BoardParts, SeqParts
<1> HIDE DEF s
<1>3. c \in Board /\ c.seq = s /\ c.pre = b.pre /\ c.on = b.on /\ c.pol = b.pol
  BY <1>2, BoardParts
<1> HIDE DEF c
<1> QED BY <1>1, <1>2, <1>3

(* pre_begin.                                                              *)
LEMMA PreBeginResult ==
    ASSUME NEW b \in Board
    PROVE  LET c == PreBegin(b) IN
           /\ c \in Board /\ OnlyPre(b, c) /\ c.on = b.on \ {"chg"}
           /\ c.pre.fsm.state = "IDLE"
           /\ c.pre.retry = 0 /\ c.pre.seed = 0 /\ c.pre.fault = "NONE"
           /\ c.pre.start = TRUE /\ c.pre.done = FALSE
<1> DEFINE r == PreReset(b)
           p == [r.pre EXCEPT !.start = TRUE]
           q == [p EXCEPT !.done = FALSE]
           c == [r EXCEPT !.pre = q]
<1>1. /\ r \in Board /\ OnlyPre(b, r) /\ r.on = b.on \ {"chg"}
      /\ r.pre.fsm = [state |-> "IDLE", last |-> b.pre.fsm.state]
      /\ r.pre.retry = 0 /\ r.pre.seed = 0 /\ r.pre.fault = "NONE"
  BY PreResetResult
<1>2. r.pre.fsm.state = "IDLE"
  BY <1>1
<1>3. PreBegin(b) = [r EXCEPT !.pre.start = TRUE, !.pre.done = FALSE]
  BY DEF PreBegin
<1> HIDE DEF r
<1>4. /\ p \in PreRecord /\ p.fsm = r.pre.fsm /\ p.retry = 0 /\ p.seed = 0
      /\ p.fault = "NONE" /\ p.start = TRUE
  <2>1. r.pre \in PreRecord
    BY <1>1, BoardParts
  <2> QED BY <1>1, <2>1, PreParts
<1>5. /\ q \in PreRecord /\ q.fsm = r.pre.fsm /\ q.retry = 0 /\ q.seed = 0
      /\ q.fault = "NONE" /\ q.start = TRUE /\ q.done = FALSE
  <2> HIDE DEF p
  <2> QED BY <1>4, PreParts
<1>6. [r EXCEPT !.pre.start = TRUE, !.pre.done = FALSE] = c
  BY <1>1 DEF Board
<1> HIDE DEF q
<1>7. c \in Board /\ OnlyPre(r, c) /\ c.pre = q /\ c.on = r.on
  BY <1>1, <1>5, BoardParts
<1> HIDE DEF c
<1> QED BY <1>1, <1>2, <1>3, <1>5, <1>6, <1>7 DEF OnlyPre

(* Entering a state of the sequence.                                       *)
LEMMA SeqEnteredResult ==
    ASSUME NEW b0 \in Board
    PROVE  LET c == SeqEntered(b0)
               s == b0.seq.fsm.state IN
           /\ c \in Board /\ c.pol = b0.pol
           /\ c.seq.fsm = b0.seq.fsm /\ c.seq.req = b0.seq.req
           /\ c.seq.brake = b0.seq.brake /\ c.seq.spent = b0.seq.spent
           /\ s # "MOTOR" => c.seq.handed = b0.seq.handed
           /\ s = "MOTOR" => c.seq.handed = FALSE
           /\ s = "AUX" => c.on = b0.on \ {"brake"} /\ c.pre = b0.pre
           /\ s = "PRECHARGE" => c.on = b0.on \ {"chg"} /\ PreBegun(b0, c)
           /\ s = "MOTOR" => c.on = b0.on \cup {"motor"} /\ c.pre = b0.pre
           /\ s \in {"IDLE", "DONE"} => c.on = b0.on /\ c.pre = b0.pre
<1> DEFINE b == [b0 EXCEPT !.seq.steady = 0]
           s == b0.seq.fsm.state
           c == SeqEntered(b0)
           h == [b EXCEPT !.seq.handed = FALSE]
<1>1. /\ b \in Board /\ b.pre = b0.pre /\ b.on = b0.on /\ b.pol = b0.pol
      /\ b.seq.fsm = b0.seq.fsm /\ b.seq.req = b0.seq.req
      /\ b.seq.handed = b0.seq.handed /\ b.seq.brake = b0.seq.brake
      /\ b.seq.spent = b0.seq.spent
  BY SteadyResult, PrechargeAssumption
<1>2. c = CASE b.seq.fsm.state = "AUX"       -> [b EXCEPT !.on = b.on \ {"brake"}]
            [] b.seq.fsm.state = "PRECHARGE" -> PreBegin(b)
            [] b.seq.fsm.state = "MOTOR"     ->
                  [b EXCEPT !.seq.handed = FALSE, !.on = b.on \cup {"motor"}]
            [] OTHER                         -> b
  BY DEF SeqEntered
<1> SUFFICES
      /\ c \in Board /\ c.pol = b0.pol
      /\ c.seq.fsm = b0.seq.fsm /\ c.seq.req = b0.seq.req
      /\ c.seq.brake = b0.seq.brake /\ c.seq.spent = b0.seq.spent
      /\ s # "MOTOR" => c.seq.handed = b0.seq.handed
      /\ s = "MOTOR" => c.seq.handed = FALSE
      /\ s = "AUX" => c.on = b0.on \ {"brake"} /\ c.pre = b0.pre
      /\ s = "PRECHARGE" => c.on = b0.on \ {"chg"} /\ PreBegun(b0, c)
      /\ s = "MOTOR" => c.on = b0.on \cup {"motor"} /\ c.pre = b0.pre
      /\ s \in {"IDLE", "DONE"} => c.on = b0.on /\ c.pre = b0.pre
  OBVIOUS
<1> HIDE DEF b, c
<1>3. s \in SeqStates
  BY BoardParts DEF SeqRecord
<1>4. CASE s = "AUX"
  <2> DEFINE o == b.on \ {"brake"}
  <2>1. c = [b EXCEPT !.on = o]
    BY <1>1, <1>2, <1>4
  <2>2. o \in SUBSET Switches
    BY <1>1, BoardParts
  <2> HIDE DEF o
  <2>3. c \in Board /\ OnlyPre(b, c) /\ c.pre = b.pre /\ c.on = o
    BY <1>1, <2>1, <2>2, BoardParts
  <2> QED BY <1>1, <1>4, <2>3 DEF OnlyPre, o
<1>5. CASE s = "PRECHARGE"
  <2>1. c = PreBegin(b)
    BY <1>1, <1>2, <1>5
  <2>2. /\ c \in Board /\ OnlyPre(b, c) /\ c.on = b.on \ {"chg"}
        /\ c.pre.fsm.state = "IDLE"
        /\ c.pre.retry = 0 /\ c.pre.seed = 0 /\ c.pre.fault = "NONE"
        /\ c.pre.start = TRUE /\ c.pre.done = FALSE
    BY <1>1, <2>1, PreBeginResult
  <2>3. PreBegun(b0, c)
    BY <2>2 DEF PreBegun, Reset
  <2> QED BY <1>1, <1>5, <2>2, <2>3 DEF OnlyPre
<1>6. CASE s = "MOTOR"
  <2> DEFINE o == b.on \cup {"motor"}
  <2>1. c = [b EXCEPT !.seq.handed = FALSE, !.on = o]
    BY <1>1, <1>2, <1>6
  <2>2. o \in SUBSET Switches
    BY <1>1, BoardParts DEF Switches
  <2> HIDE DEF o
  <2>3. c = [h EXCEPT !.on = o]
    BY <2>1
  <2>4. /\ h \in Board /\ h.seq.handed = FALSE /\ h.pre = b.pre /\ h.on = b.on /\ h.pol = b.pol
        /\ h.seq.fsm = b.seq.fsm /\ h.seq.req = b.seq.req
        /\ h.seq.brake = b.seq.brake /\ h.seq.spent = b.seq.spent
    BY <1>1, HandedResult
  <2> HIDE DEF h
  <2>5. c \in Board /\ OnlyPre(h, c) /\ c.pre = h.pre /\ c.on = o
    BY <2>2, <2>3, <2>4, BoardParts
  <2> QED BY <1>1, <1>6, <2>4, <2>5 DEF OnlyPre, o
<1>7. CASE s \in {"IDLE", "DONE"}
  <2>1. c = b
    BY <1>1, <1>2, <1>7
  <2> QED BY <1>1, <1>7, <2>1
<1> QED BY <1>3, <1>4, <1>5, <1>6, <1>7 DEF SeqStates

(* A precharge that has been reset is soft.                                *)
LEMMA ResetSoft ==
    ASSUME NEW p, NEW o, Reset(p, o)
    PROVE  Soft(p, o)
BY DEF Reset, Soft

(* The discharge: it goes on or is put off, it counts, or it ends.         *)
SpendsNothing(b, c) ==
    /\ c.seq.spent = b.seq.spent /\ c.seq.brake = b.seq.brake
    /\ "brake" \in c.on => "brake" \in b.on
    /\ "brake" \in b.on /\ "brake" \notin c.on => b.seq.fsm.state = "AUX"
SpendsOne(b, c) ==
    /\ b.seq.fsm.state = "IDLE" /\ b.seq.brake /\ c.seq.brake
    /\ c.seq.spent = b.seq.spent + 1 /\ ("brake" \in c.on <=> "brake" \in b.on)
SpendingEnds(b, c, in) ==
    /\ b.seq.fsm.state = "IDLE" /\ ~c.seq.brake
    /\ c.seq.spent = 0 /\ "brake" \notin c.on
    /\ in.bus < DischargedMv \/ b.seq.spent > Discharge
Spends(b, c, in) == SpendsNothing(b, c) \/ SpendsOne(b, c) \/ SpendingEnds(b, c, in)

(* What the entry callback of the sequence does.                           *)
SeqEnters(b0, b) ==
    /\ SafeIn(b) /\ b.pol = b0.pol /\ b.seq.fsm = b0.seq.fsm
    /\ \/ PreKept(b0, b)
       \/ PreBegun(b0, b) /\ b0.seq.fsm.state = "PRECHARGE"
             /\ b0.seq.fsm.last # "PRECHARGE"
    /\ SpendsNothing(b0, b)
    /\ b0.seq.fsm.state # "AUX" => ("brake" \in b.on <=> "brake" \in b0.on)

(* Entering keeps the board safe.                                          *)
LEMMA SeqEntersKeeps ==
    ASSUME NEW b0 \in Board, Safe(b0)
    PROVE  SeqEnters(b0, IF FsmEntering(b0.seq.fsm) THEN SeqEntered(b0) ELSE b0)
<1> DEFINE s == b0.seq.fsm.state
<1>1. CASE ~FsmEntering(b0.seq.fsm)
  <2>1. PlacesIn(b0) /\ BrakesIn(b0)
    BY <1>1 DEF Safe, Places, PlacesIn, Brakes, BrakesIn, FsmEntering
  <2> QED BY <1>1, <2>1 DEF SeqEnters, SafeIn, Safe, PreKept, SpendsNothing
<1>2. CASE FsmEntering(b0.seq.fsm)
  <2> DEFINE b == SeqEntered(b0)
  <2>1. /\ b \in Board /\ b.pol = b0.pol
        /\ b.seq.fsm = b0.seq.fsm /\ b.seq.req = b0.seq.req
        /\ b.seq.brake = b0.seq.brake /\ b.seq.spent = b0.seq.spent
        /\ s # "MOTOR" => b.seq.handed = b0.seq.handed
        /\ s = "MOTOR" => b.seq.handed = FALSE
        /\ s = "AUX" => b.on = b0.on \ {"brake"} /\ b.pre = b0.pre
        /\ s = "PRECHARGE" => b.on = b0.on \ {"chg"} /\ PreBegun(b0, b)
        /\ s = "MOTOR" => b.on = b0.on \cup {"motor"} /\ b.pre = b0.pre
        /\ s \in {"IDLE", "DONE"} => b.on = b0.on /\ b.pre = b0.pre
    BY SeqEnteredResult
  <2> SUFFICES SeqEnters(b0, b)
    BY <1>2
  <2> HIDE DEF b
  <2>2. s \in SeqStates
    BY BoardParts DEF SeqRecord
  <2>3. /\ "chg" \in b.on => "chg" \in b0.on
        /\ s # "PRECHARGE" => PreKept(b0, b)
        /\ "brake" \in b.on => "brake" \in b0.on /\ s # "AUX"
        /\ "motor" \in b.on => "motor" \in b0.on \/ s = "MOTOR"
        /\ s # "AUX" => ("brake" \in b.on <=> "brake" \in b0.on)
    BY <2>1, <2>2 DEF PreKept, SeqStates
  <2>4. Soft(b.pre, b.on)
    <3>1. CASE s = "PRECHARGE"
      BY <2>1, <3>1, ResetSoft DEF PreBegun
    <3>2. CASE s # "PRECHARGE"
      BY <2>3, <3>2 DEF PreKept, Soft, Safe
    <3> QED BY <3>1, <3>2
  <2>5. PlacesIn(b)
    BY <1>2, <2>1, <2>2, <2>3 DEF Safe, Places, PlacesIn, FsmEntering, PreKept, SeqStates
  <2>6. BrakesIn(b)
    <3> SUFFICES ASSUME "brake" \in b.on
                 PROVE  /\ b.on = {"brake"} /\ b.seq.brake /\ b.pre.fsm.state = "IDLE"
                        /\ b.seq.fsm.state = "IDLE"
      BY DEF BrakesIn
    <3>1. /\ b0.on = {"brake"} /\ b0.seq.brake /\ b0.pre.fsm.state = "IDLE" /\ s = "IDLE"
      BY <2>3 DEF Safe, Brakes
    <3> QED BY <2>1, <3>1
  <2>7. SpendsNothing(b0, b)
    BY <2>1, <2>3 DEF SpendsNothing
  <2> QED BY <1>2, <2>1, <2>3, <2>4, <2>5, <2>6, <2>7 DEF SeqEnters, SafeIn, FsmEntering
<1> QED BY <1>1, <1>2

(* What a handler of the sequence keeps.                                   *)
SeqHandles(b, c, in) ==
    /\ Safe(c) /\ c.pol = b.pol /\ (PreKept(b, c) \/ PreStopped(b, c)) /\ Spends(b, c, in)
    /\ b.seq.fsm.state # "IDLE" =>
          /\ SpendsNothing(b, c) /\ ("brake" \in c.on <=> "brake" \in b.on)
    /\ b.seq.fsm.state = "PRECHARGE" => PreKept(b, c)

(* A handler that stays, or goes on, and leaves the switches alone.        *)
LEMMA SeqGoesOn ==
    ASSUME NEW b, SafeIn(b), NEW s \in SeqStates, NEW in,
           b.seq.fsm.state # "IDLE", b.seq.req,
           s \in {"IDLE", "AUX"} => Resting(b.pre) /\ "motor" \notin b.on,
           s = "PRECHARGE" => "motor" \notin b.on /\
              (b.seq.fsm.state # "PRECHARGE" => Resting(b.pre)),
           s = "MOTOR" /\ b.seq.fsm.state # "MOTOR" => b.pre.done,
           s = "DONE" => b.seq.handed /\ Resting(b.pre)
    PROVE  SeqHandles(b, SeqTo(b, s), in)
<1> DEFINE c == SeqTo(b, s)
<1>1. /\ c \in Board /\ c.pre = b.pre /\ c.on = b.on /\ c.pol = b.pol
      /\ c.seq.fsm.state = s /\ c.seq.fsm.last = b.seq.fsm.state
      /\ c.seq.req = b.seq.req /\ c.seq.handed = b.seq.handed
      /\ c.seq.brake = b.seq.brake /\ c.seq.spent = b.seq.spent
  BY SeqToResult DEF SafeIn
<1> HIDE DEF c
<1>2. Soft(c.pre, c.on) /\ PreKept(b, c) /\ SpendsNothing(b, c) /\ "brake" \notin b.on
  BY <1>1 DEF SafeIn, PreKept, SpendsNothing, BrakesIn
<1>3. Places(c)
  BY <1>1 DEF SafeIn, PlacesIn, Places, SeqStates
<1>4. Brakes(c)
  BY <1>1, <1>2 DEF Brakes
<1>5. SeqHandles(b, c, in)
  BY <1>1, <1>2, <1>3, <1>4 DEF SeqHandles, Safe, Spends
<1> QED BY <1>5 DEF c

(* The brake.                                                              *)
LEMMA BrakingResult ==
    ASSUME NEW b \in Board, NEW in \in BoardInputs
    PROVE  LET c == Braking(b, in) IN
           /\ c \in Board /\ c.pre = b.pre /\ c.pol = b.pol
           /\ c.seq.fsm = b.seq.fsm /\ c.seq.req = b.seq.req /\ c.seq.handed = b.seq.handed
           /\ \/ c.on = b.on /\ ~b.seq.brake /\ ~c.seq.brake /\ c.seq.spent = b.seq.spent
              \/ c.on = b.on /\ b.seq.brake /\ c.seq.brake /\ c.seq.spent = b.seq.spent + 1
              \/ /\ c.on = b.on \ {"brake"} /\ ~c.seq.brake /\ c.seq.spent = 0
                 /\ in.bus < DischargedMv \/ b.seq.spent > Discharge
<1> DEFINE s1 == [b.seq EXCEPT !.brake = FALSE]
           s2 == [s1 EXCEPT !.spent = 0]
           s3 == [b.seq EXCEPT !.spent = b.seq.spent + 1]
           o == b.on \ {"brake"}
           a == [b EXCEPT !.seq = s2]
           d == [a EXCEPT !.on = o]
           e == [b EXCEPT !.seq = s3]
           c == Braking(b, in)
           full == in.bus < DischargedMv \/ Exhausted(b)
<1>0. b.seq \in SeqRecord /\ b.seq.spent \in 0 .. Discharge + 1 /\ Discharge \in Nat
  BY BoardParts, PrechargeAssumption DEF SeqRecord
<1>1. /\ ~b.seq.brake => c = b
      /\ b.seq.brake /\ full => c = BrakeOff(b)
      /\ b.seq.brake /\ ~full => c = e
  BY DEF Braking
<1>2. BrakeOff(b) = d
  BY DEF BrakeOff
<1>3. /\ s1 \in SeqRecord /\ s1.fsm = b.seq.fsm /\ s1.req = b.seq.req
      /\ s1.handed = b.seq.handed /\ s1.brake = FALSE
  BY <1>0, SeqParts
<1>4. /\ s2 \in SeqRecord /\ s2.fsm = b.seq.fsm /\ s2.req = b.seq.req
      /\ s2.handed = b.seq.handed /\ s2.brake = FALSE /\ s2.spent = 0
  <2> HIDE DEF s1
  <2> QED BY <1>0, <1>3, SeqParts
<1>5. /\ a \in Board /\ a.seq = s2 /\ a.pre = b.pre /\ a.on = b.on /\ a.pol = b.pol
  <2> HIDE DEF s2
  <2> QED BY <1>4, BoardParts
<1>6. /\ d \in Board /\ d.seq = s2 /\ d.pre = b.pre /\ d.on = o /\ d.pol = b.pol
  <2>1. o \in SUBSET Switches
    BY BoardParts
  <2> HIDE DEF a, s2, o
  <2> QED BY <1>5, <2>1, BoardParts DEF OnlyPre
<1>7. ~full =>
      /\ s3 \in SeqRecord /\ s3.fsm = b.seq.fsm /\ s3.req = b.seq.req
      /\ s3.handed = b.seq.handed /\ s3.brake = b.seq.brake /\ s3.spent = b.seq.spent + 1
  <2>1. ~full => b.seq.spent + 1 \in 0 .. Discharge + 1
    BY <1>0 DEF Exhausted
  <2> QED BY <1>0, <2>1, SeqParts
<1>8. ~full =>
      /\ e \in Board /\ e.seq = s3 /\ e.pre = b.pre /\ e.on = b.on /\ e.pol = b.pol
  <2> HIDE DEF s3
  <2> QED BY <1>7, BoardParts
<1>9. full => in.bus < DischargedMv \/ b.seq.spent > Discharge
  BY DEF Exhausted
<1> HIDE DEF s1, s2, s3, a, d, e, full
<1> SUFFICES
      /\ c \in Board /\ c.pre = b.pre /\ c.pol = b.pol
      /\ c.seq.fsm = b.seq.fsm /\ c.seq.req = b.seq.req /\ c.seq.handed = b.seq.handed
      /\ \/ c.on = b.on /\ ~b.seq.brake /\ ~c.seq.brake /\ c.seq.spent = b.seq.spent
         \/ c.on = b.on /\ b.seq.brake /\ c.seq.brake /\ c.seq.spent = b.seq.spent + 1
         \/ /\ c.on = b.on \ {"brake"} /\ ~c.seq.brake /\ c.seq.spent = 0
            /\ in.bus < DischargedMv \/ b.seq.spent > Discharge
  OBVIOUS
<1> HIDE DEF c
<1>10. CASE ~b.seq.brake
  BY <1>1, <1>10
<1>11. CASE b.seq.brake /\ full
  BY <1>1, <1>2, <1>4, <1>6, <1>9, <1>11
<1>12. CASE b.seq.brake /\ ~full
  BY <1>1, <1>7, <1>8, <1>12
<1> QED BY <1>10, <1>11, <1>12

(* The handlers of the sequence keep the board safe.                       *)
LEMMA SeqIdleHandles ==
    ASSUME NEW b, SafeIn(b), NEW in \in BoardInputs, b.seq.fsm.state = "IDLE"
    PROVE  SeqHandles(b, SeqIdle(b, in), in)
<1> DEFINE a == Braking(b, in)
           s == IF b.seq.req THEN "AUX" ELSE "IDLE"
           c == SeqTo(a, s)
<1>1. b \in Board /\ b.seq \in SeqRecord /\ b.seq.spent \in Nat
  BY BoardParts, PrechargeAssumption DEF SafeIn, SeqRecord
<1>2. /\ a \in Board /\ a.pre = b.pre /\ a.pol = b.pol
      /\ a.seq.fsm = b.seq.fsm /\ a.seq.req = b.seq.req /\ a.seq.handed = b.seq.handed
      /\ \/ a.on = b.on /\ ~b.seq.brake /\ ~a.seq.brake /\ a.seq.spent = b.seq.spent
         \/ a.on = b.on /\ b.seq.brake /\ a.seq.brake /\ a.seq.spent = b.seq.spent + 1
         \/ /\ a.on = b.on \ {"brake"} /\ ~a.seq.brake /\ a.seq.spent = 0
            /\ in.bus < DischargedMv \/ b.seq.spent > Discharge
  BY <1>1, BrakingResult
<1> HIDE DEF a
<1>3. /\ s \in SeqStates /\ b.seq.req \in BOOLEAN
      /\ (b.seq.req => s = "AUX") /\ (~b.seq.req => s = "IDLE")
  BY <1>1 DEF SeqStates, SeqRecord
<1> HIDE DEF s
<1>4. /\ c \in Board /\ c.pre = a.pre /\ c.on = a.on /\ c.pol = a.pol
      /\ c.seq.fsm.state = s /\ c.seq.fsm.last = "IDLE"
      /\ c.seq.req = a.seq.req /\ c.seq.handed = a.seq.handed
      /\ c.seq.brake = a.seq.brake /\ c.seq.spent = a.seq.spent
  BY <1>2, <1>3, SeqToResult
<1>5. SeqIdle(b, in) = c
  BY DEF SeqIdle, s, a
<1> HIDE DEF c
<1>6. PreKept(b, c) /\ Soft(c.pre, c.on)
  BY <1>2, <1>4 DEF PreKept, SafeIn, Soft
<1>7. Places(c)
  BY <1>2, <1>3, <1>4 DEF SafeIn, PlacesIn, Places
<1>8. Brakes(c)
  <2> SUFFICES ASSUME "brake" \in c.on
               PROVE  /\ c.on = {"brake"} /\ c.seq.brake /\ c.pre.fsm.state = "IDLE"
                      /\ c.seq.fsm.state \in {"IDLE", "AUX"} /\ c.seq.spent > 0
    BY <1>4 DEF Brakes
  <2>1. /\ b.on = {"brake"} /\ b.seq.brake /\ b.pre.fsm.state = "IDLE"
        /\ c.on = b.on
    BY <1>2, <1>4 DEF SafeIn, BrakesIn
  <2>2. a.seq.brake /\ a.seq.spent = b.seq.spent + 1
    BY <1>2, <1>4, <2>1
  <2>3. c.seq.spent > 0
    BY <1>1, <1>4, <2>2
  <2> QED BY <1>2, <1>3, <1>4, <2>1, <2>2, <2>3
<1>9. Spends(b, c, in)
  <2>1. b.seq.brake \in BOOLEAN /\ a.seq.brake \in BOOLEAN
    BY <1>1, <1>2, BoardParts DEF SeqRecord
  <2> QED BY <1>2, <1>4, <2>1 DEF Spends, SpendsNothing, SpendsOne, SpendingEnds
<1> QED BY <1>2, <1>4, <1>5, <1>6, <1>7, <1>8, <1>9 DEF SeqHandles, Safe

(* The handler of PRECHARGE.                                               *)
LEMMA SeqPrechargeHandles ==
    ASSUME NEW b, SafeIn(b), NEW in, b.seq.fsm.state = "PRECHARGE"
    PROVE  SeqHandles(b, SeqPrecharge(b), in)
<1>1. b \in Board /\ b.seq.req \in BOOLEAN /\ b.seq.req /\ "motor" \notin b.on
  BY BoardParts DEF SafeIn, PlacesIn, SeqRecord
<1>2. CASE b.pre.fault # "NONE"
  <2> DEFINE a == [b EXCEPT !.seq.req = FALSE]
             c == SeqTo(a, "IDLE")
  <2>1. /\ a \in Board /\ a.pre = b.pre /\ a.on = b.on /\ a.pol = b.pol
        /\ a.seq.fsm = b.seq.fsm /\ a.seq.req = FALSE
        /\ a.seq.brake = b.seq.brake /\ a.seq.spent = b.seq.spent
    BY <1>1, ReqResult
  <2>2. "IDLE" \in SeqStates
    BY DEF SeqStates
  <2> HIDE DEF a
  <2>3. /\ c \in Board /\ c.pre = a.pre /\ c.on = a.on /\ c.pol = a.pol
        /\ c.seq.fsm.state = "IDLE"
        /\ c.seq.req = a.seq.req /\ c.seq.brake = a.seq.brake /\ c.seq.spent = a.seq.spent
    BY <2>1, <2>2, SeqToResult
  <2>4. SeqPrecharge(b) = c
    BY <1>2 DEF SeqPrecharge, a
  <2> HIDE DEF c
  <2>5. Resting(b.pre)
    BY <1>2 DEF SafeIn, Soft, Resting
  <2>6. Safe(c)
    BY <1>1, <2>1, <2>3, <2>5 DEF SafeIn, Safe, Places, Brakes, BrakesIn
  <2>7. PreKept(b, c) /\ SpendsNothing(b, c) /\ c.pol = b.pol /\ c.on = b.on
    BY <2>1, <2>3 DEF SpendsNothing, PreKept
  <2> QED BY <2>4, <2>6, <2>7 DEF SeqHandles, Spends
<1>3. CASE b.pre.fault = "NONE"
  <2> DEFINE s == IF b.pre.done THEN "MOTOR" ELSE "PRECHARGE"
  <2>1. SeqPrecharge(b) = SeqTo(b, s)
    BY <1>3 DEF SeqPrecharge
  <2>2. s \in SeqStates /\ s \notin {"IDLE", "AUX", "DONE"} /\ (s = "MOTOR" => b.pre.done)
    BY DEF SeqStates
  <2> HIDE DEF s
  <2> QED BY <1>1, <2>1, <2>2, SeqGoesOn
<1> QED BY <1>2, <1>3

(* The handler of MOTOR.                                                   *)
LEMMA SeqMotorHandles ==
    ASSUME NEW b, SafeIn(b), NEW in, b.seq.fsm.state = "MOTOR"
    PROVE  SeqHandles(b, SeqMotor(b, in), in)
<1> DEFINE now == ~b.seq.handed /\ HandsOver(b, in)
           r == PreReset(b)
           a == [r EXCEPT !.seq.handed = TRUE]
           c0 == IF now THEN a ELSE b
           s == IF c0.seq.handed /\ b.seq.steady >= Steady THEN "DONE" ELSE "MOTOR"
           c == SeqTo(c0, s)
<1>1. SeqMotor(b, in) = c
  BY DEF SeqMotor
<1>2. /\ b \in Board /\ b.seq.req \in BOOLEAN /\ b.seq.req /\ b.seq.handed \in BOOLEAN
      /\ "brake" \notin b.on /\ ~(b.pol.tripped \/ b.pol.last)
      /\ b.seq.handed => Resting(b.pre)
      /\ ~b.seq.handed => b.pre.done
  BY BoardParts DEF SafeIn, PlacesIn, BrakesIn, SeqRecord
<1>3. s \in {"DONE", "MOTOR"} /\ s \in SeqStates /\ (s = "DONE" => c0.seq.handed)
  BY DEF SeqStates
<1>4. CASE now
  <2>1. /\ r \in Board /\ OnlyPre(b, r) /\ r.on = b.on \ {"chg"}
        /\ r.pre.fsm = [state |-> "IDLE", last |-> b.pre.fsm.state]
        /\ r.pre.retry = 0 /\ r.pre.seed = 0 /\ r.pre.fault = "NONE"
        /\ r.pre.start = FALSE /\ r.pre.done = FALSE
    BY <1>2, PreResetResult
  <2>2. r.pre.fsm.state = "IDLE"
    BY <2>1
  <2> HIDE DEF r
  <2>3. /\ a \in Board /\ a.pre = r.pre /\ a.on = r.on /\ a.pol = r.pol
        /\ a.seq.fsm = r.seq.fsm /\ a.seq.req = r.seq.req
        /\ a.seq.handed = TRUE /\ a.seq.brake = r.seq.brake /\ a.seq.spent = r.seq.spent
    BY <2>1, HandedResult
  <2>4. c0 = a
    BY <1>4
  <2> HIDE DEF a, c0, s
  <2>5. /\ c \in Board /\ c.pre = a.pre /\ c.on = a.on /\ c.pol = a.pol
        /\ c.seq.fsm.state = s
        /\ c.seq.req = a.seq.req /\ c.seq.handed = TRUE
        /\ c.seq.brake = a.seq.brake /\ c.seq.spent = a.seq.spent
    BY <1>3, <2>3, <2>4, SeqToResult
  <2> HIDE DEF c
  <2>6. PreStopped(b, c) /\ Soft(c.pre, c.on) /\ Resting(c.pre)
    BY <2>1, <2>2, <2>3, <2>5, ResetSoft DEF PreStopped, Reset, Resting
  <2>7. c.on = b.on \ {"chg"} /\ c.pol = b.pol /\ c.seq.req = b.seq.req
        /\ c.seq.brake = b.seq.brake /\ c.seq.spent = b.seq.spent
    BY <2>1, <2>3, <2>5 DEF OnlyPre
  <2>8. Places(c)
    <3>1. c.seq.fsm.state = "MOTOR" => c.seq.fsm.last = "MOTOR"
      BY <1>3, <2>1, <2>3, <2>4, SeqToResult DEF OnlyPre, c
    <3> QED BY <1>2, <1>3, <2>5, <2>6, <2>7, <3>1 DEF Places
  <2>9. Brakes(c)
    BY <1>2, <2>7 DEF Brakes
  <2> QED BY <1>1, <1>2, <2>5, <2>6, <2>7, <2>8, <2>9
          DEF SeqHandles, Safe, Spends, SpendsNothing
<1>5. CASE ~now
  <2>1. c0 = b
    BY <1>5
  <2> HIDE DEF c0, s
  <2>2. s = "DONE" => b.seq.handed /\ Resting(b.pre)
    BY <1>2, <1>3, <2>1
  <2> QED BY <1>1, <1>2, <1>3, <2>1, <2>2, SeqGoesOn
<1> QED BY <1>4, <1>5

(* What the step of the sequence does to the board.                        *)
Sequences(b, c, in) ==
    /\ Safe(c) /\ c.pol = b.pol
    /\ \/ PreKept(b, c)
       \/ PreStopped(b, c)
       \/ PreBegun(b, c) /\ b.seq.fsm.state = "PRECHARGE" /\ b.seq.fsm.last # "PRECHARGE"
    /\ Spends(b, c, in)

(* The whole step of the sequence.                                         *)
LEMMA SeqStepSequences ==
    ASSUME NEW b0, Safe(b0), NEW in \in BoardInputs
    PROVE  Sequences(b0, SeqStep(b0, in), in)
<1> DEFINE n == UpTo(b0.seq.steady, Steady + Handover)
           b1 == [b0 EXCEPT !.seq.steady = n]
           b == IF FsmEntering(b1.seq.fsm) THEN SeqEntered(b1) ELSE b1
           s == b.seq.fsm.state
           t == IF b.seq.steady >= Steady THEN "PRECHARGE" ELSE "AUX"
           c == SeqStep(b0, in)
<1>1. n \in 0 .. Steady + Handover
  BY BoardParts, PrechargeAssumption DEF Safe, SeqRecord, UpTo
<1>2. c = CASE s = "IDLE"      -> SeqIdle(b, in)
            [] s = "AUX"       -> SeqTo(b, t)
            [] s = "PRECHARGE" -> SeqPrecharge(b)
            [] s = "MOTOR"     -> SeqMotor(b, in)
            [] s = "DONE"      -> SeqTo(b, "DONE")
  BY DEF SeqStep
<1>3. /\ b1 \in Board /\ b1.pre = b0.pre /\ b1.on = b0.on /\ b1.pol = b0.pol
      /\ b1.seq.fsm = b0.seq.fsm /\ b1.seq.req = b0.seq.req
      /\ b1.seq.handed = b0.seq.handed /\ b1.seq.brake = b0.seq.brake
      /\ b1.seq.spent = b0.seq.spent
  <2> HIDE DEF n
  <2> QED BY <1>1, SteadyResult DEF Safe
<1> HIDE DEF c, n, b1
<1>4. Safe(b1)
  BY <1>3 DEF Safe, Places, Brakes
<1>5. SeqEnters(b1, b)
  BY <1>3, <1>4, SeqEntersKeeps
<1> HIDE DEF b, t
<1>6. SafeIn(b) /\ s = b0.seq.fsm.state /\ s \in SeqStates
  BY <1>3, <1>5, BoardParts DEF SeqEnters, SafeIn, SeqRecord
<1>7. SeqHandles(b, c, in)
  <2>1. CASE s = "IDLE"
    BY <1>2, <1>6, <2>1, SeqIdleHandles
  <2>2. CASE s = "AUX"
    <3>1. b.seq.req /\ Resting(b.pre) /\ "motor" \notin b.on
      BY <1>6, <2>2, BoardParts DEF SafeIn, PlacesIn, SeqRecord
    <3>2. t \in {"AUX", "PRECHARGE"} /\ t \in SeqStates
      BY DEF t, SeqStates
    <3>3. c = SeqTo(b, t)
      BY <1>2, <2>2
    <3> QED BY <1>6, <2>2, <3>1, <3>2, <3>3, SeqGoesOn
  <2>3. CASE s = "PRECHARGE"
    BY <1>2, <1>6, <2>3, SeqPrechargeHandles
  <2>4. CASE s = "MOTOR"
    BY <1>2, <1>6, <2>4, SeqMotorHandles
  <2>5. CASE s = "DONE"
    <3>1. b.seq.req /\ b.seq.handed /\ Resting(b.pre)
      BY <1>6, <2>5, BoardParts DEF SafeIn, PlacesIn, SeqRecord
    <3>2. c = SeqTo(b, "DONE")
      BY <1>2, <2>5
    <3>3. "DONE" \in SeqStates
      BY DEF SeqStates
    <3> QED BY <1>6, <2>5, <3>1, <3>2, <3>3, SeqGoesOn
  <2> QED BY <1>6, <2>1, <2>2, <2>3, <2>4, <2>5 DEF SeqStates
<1>8. Spends(b0, c, in)
  <2>1. CASE s = "IDLE"
    BY <1>3, <1>5, <1>6, <1>7, <2>1
       DEF SeqEnters, SeqHandles, Spends, SpendsNothing, SpendsOne, SpendingEnds
  <2>2. CASE s # "IDLE"
    BY <1>3, <1>5, <1>6, <1>7, <2>2 DEF SeqEnters, SeqHandles, Spends, SpendsNothing
  <2> QED BY <2>1, <2>2
<1>9. \/ PreKept(b0, c)
      \/ PreStopped(b0, c)
      \/ PreBegun(b0, c) /\ s = "PRECHARGE" /\ b0.seq.fsm.last # "PRECHARGE"
  <2>1. CASE PreKept(b1, b)
    BY <1>3, <1>7, <2>1 DEF SeqHandles, PreKept, PreStopped
  <2>2. CASE PreBegun(b1, b) /\ s = "PRECHARGE" /\ b0.seq.fsm.last # "PRECHARGE"
    BY <1>3, <1>7, <2>2 DEF SeqHandles, PreKept, PreBegun, Reset
  <2> QED BY <1>3, <1>5, <1>6, <2>1, <2>2 DEF SeqEnters
<1>10. Safe(c) /\ c.pol = b0.pol
  BY <1>3, <1>5, <1>7 DEF SeqEnters, SeqHandles
<1> QED BY <1>6, <1>8, <1>9, <1>10 DEF Sequences, c

(* The step of the soft start does not disturb the sequence.               *)
LEMMA ChargedIsSafe ==
    ASSUME NEW b, Safe(b), NEW c, NEW in, Charges(b, c, in)
    PROVE  Safe(c)
<1>1. /\ c \in Board /\ c.seq = b.seq /\ c.pol = b.pol /\ c.on \ {"chg"} = b.on \ {"chg"}
      /\ Soft(c.pre, c.on)
      /\ Resting(b.pre) => Resting(c.pre) /\ c.pre.fsm.state = b.pre.fsm.state
      /\ b.pre.done => c.pre.done
  BY DEF Charges, OnlyChg, OnlyPre
<1>2. /\ "motor" \in c.on <=> "motor" \in b.on
      /\ "brake" \in c.on <=> "brake" \in b.on
  BY <1>1
<1>3. Places(c)
  BY <1>1, <1>2 DEF Safe, Places
<1>4. Brakes(c)
  <2> SUFFICES ASSUME "brake" \in c.on
               PROVE  /\ c.on = {"brake"} /\ c.seq.brake /\ c.pre.fsm.state = "IDLE"
                      /\ \/ c.seq.fsm.state = "IDLE"
                         \/ /\ c.seq.fsm.state = "AUX" /\ c.seq.fsm.last # "AUX"
                            /\ c.seq.spent > 0
    BY DEF Brakes
  <2>1. /\ b.on = {"brake"} /\ b.seq.brake /\ b.pre.fsm.state = "IDLE"
        /\ b.seq.fsm.state \in {"IDLE", "AUX"}
        /\ \/ c.seq.fsm.state = "IDLE"
           \/ /\ c.seq.fsm.state = "AUX" /\ c.seq.fsm.last # "AUX"
              /\ c.seq.spent > 0
    BY <1>1, <1>2 DEF Safe, Brakes
  <2>2. c.pre.fsm.state = "IDLE"
    BY <1>1, <2>1 DEF Safe, Places
  <2>3. "chg" \notin c.on
    BY <1>1, <2>2 DEF Soft, Ramps
  <2>4. c.on = {"brake"}
    BY <1>1, <2>1, <2>3
  <2> QED BY <1>1, <2>1, <2>2, <2>4
<1> QED BY <1>1, <1>3, <1>4 DEF Safe

-----------------------------------------------------------------------------
(* The fault policy.                                                       *)

(* The record of the policy with one field replaced.                       *)
LEMMA PolParts ==
    ASSUME NEW b \in Board, NEW x \in BOOLEAN
    PROVE  /\ LET c == [b EXCEPT !.pol.tripped = x] IN
              /\ c \in Board /\ c.seq = b.seq /\ c.pre = b.pre /\ c.on = b.on
              /\ c.pol.tripped = x /\ c.pol.last = b.pol.last
           /\ LET c == [b EXCEPT !.pol.last = x] IN
              /\ c \in Board /\ c.seq = b.seq /\ c.pre = b.pre /\ c.on = b.on
              /\ c.pol.tripped = b.pol.tripped /\ c.pol.last = x
BY DEF Board, PolRecord

(* The emergency stop turns everything off but the brake.                  *)
LEMMA EmergencyOffResult ==
    ASSUME NEW b \in Board, b.seq.req
    PROVE  LET c == EmergencyOff(b) IN
           /\ c \in Board /\ c.pol = b.pol /\ c.on = {"brake"}
           /\ ~c.seq.req /\ c.seq.fsm.state = "IDLE" /\ c.seq.brake
           /\ c.seq.spent = b.seq.spent /\ PreStopped(b, c)
<1> DEFINE s1 == [b.seq EXCEPT !.req = FALSE]
           s2 == [s1 EXCEPT !.steady = 0]
           s3 == [s2 EXCEPT !.brake = TRUE]
           o == (b.on \ {"motor"}) \cup {"brake"}
           a == [b EXCEPT !.seq = s3]
           d == [a EXCEPT !.on = o]
           e == SeqTo(d, "IDLE")
           c == PreReset(e)
<1>1. EmergencyOff(b) = c
  BY DEF EmergencyOff
<1>2. /\ s1 \in SeqRecord /\ s1.req = FALSE /\ s1.spent = b.seq.spent
  <2>1. b.seq \in SeqRecord
    BY BoardParts
  <2> QED BY <2>1, SeqParts
<1>3. /\ s2 \in SeqRecord /\ s2.req = FALSE /\ s2.spent = b.seq.spent
  <2>1. 0 \in 0 .. Steady + Handover
    BY PrechargeAssumption
  <2> HIDE DEF s1
  <2> QED BY <1>2, <2>1, SeqParts
<1>4. /\ s3 \in SeqRecord /\ s3.req = FALSE /\ s3.spent = b.seq.spent /\ s3.brake = TRUE
  <2> HIDE DEF s2
  <2> QED BY <1>3, SeqParts
<1>5. a \in Board /\ a.seq = s3 /\ a.pre = b.pre /\ a.pol = b.pol /\ a.on = b.on
  <2> HIDE DEF s3
  <2> QED BY <1>4, BoardParts
<1>6. d \in Board /\ d.seq = s3 /\ d.pre = b.pre /\ d.pol = b.pol /\ d.on = o
  <2>1. o \in SUBSET Switches
    BY BoardParts DEF Switches
  <2> HIDE DEF a, s3, o
  <2> QED BY <1>5, <2>1, BoardParts DEF OnlyPre
<1> HIDE DEF d, s3, o
<1>7. /\ e \in Board /\ e.pre = b.pre /\ e.pol = b.pol /\ e.on = o
      /\ e.seq.fsm.state = "IDLE" /\ ~e.seq.req /\ e.seq.brake /\ e.seq.spent = b.seq.spent
  <2>1. "IDLE" \in SeqStates
    BY DEF SeqStates
  <2> QED BY <1>4, <1>6, <2>1, SeqToResult
<1> HIDE DEF e
<1>8. /\ c \in Board /\ OnlyPre(e, c) /\ c.on = e.on \ {"chg"}
      /\ c.pre.fsm = [state |-> "IDLE", last |-> e.pre.fsm.state]
      /\ c.pre.retry = 0 /\ c.pre.seed = 0 /\ c.pre.fault = "NONE"
      /\ c.pre.start = FALSE /\ c.pre.done = FALSE
  BY <1>7, PreResetResult
<1>9. c.pre.fsm.state = "IDLE"
  BY <1>8
<1> HIDE DEF c
<1>10. c.on = {"brake"}
  BY <1>7, <1>8, BoardParts DEF o, Switches
<1>11. PreStopped(b, c)
  BY <1>8, <1>9 DEF PreStopped, Reset
<1> QED BY <1>1, <1>7, <1>8, <1>10, <1>11 DEF OnlyPre

(* What a pass of the policy does to the board: power off at once, with    *)
(* the brake on, or nothing but a request.                                 *)
Polices(b, c) ==
    /\ Safe(c) /\ (PreKept(b, c) \/ PreStopped(b, c))
    /\ c.seq.spent = b.seq.spent /\ ("brake" \in b.on => "brake" \in c.on)
    /\ "brake" \notin c.on => c.seq.brake = b.seq.brake

(* The policy trips.                                                       *)
LEMMA TrippingPolices ==
    ASSUME NEW b, Safe(b), NEW in \in BoardInputs
    PROVE  /\ Polices(b, Tripping(b, in)) /\ (in.estop => ~Tripping(b, in).seq.req)
           /\ Tripping(b, in).pol.last = b.pol.last
           /\ b.pol.tripped => Tripping(b, in).pol.tripped
<1> DEFINE a == [b EXCEPT !.pol.tripped = TRUE]
           c == Tripping(b, in)
           trip == in.estop \/ PowerFault(b, in)
<1>1. (trip => c = EmergencyOff(a)) /\ (~trip => c = b)
  BY DEF Tripping
<1>2. /\ b \in Board /\ a \in Board /\ a.seq = b.seq /\ a.pre = b.pre /\ a.on = b.on
      /\ a.pol.tripped = TRUE /\ a.pol.last = b.pol.last
      /\ b.pol.last \in BOOLEAN
  <2>1. b \in Board /\ b.pol.last \in BOOLEAN
    BY BoardParts DEF Safe, PolRecord
  <2> QED BY <2>1, PolParts
<1>3. in.estop => trip
  OBVIOUS
<1> HIDE DEF a, c, trip
<1>5. CASE ~trip
  <2>1. c = b
    BY <1>1, <1>5
  <2>2. Polices(b, b)
    BY DEF Polices, PreKept
  <2> QED BY <1>3, <1>5, <2>1, <2>2 DEF c
<1>6. CASE trip /\ b.seq.req
  <2>1. c = EmergencyOff(a)
    BY <1>1, <1>6
  <2>2. /\ c \in Board /\ c.pol = a.pol /\ c.on = {"brake"}
        /\ ~c.seq.req /\ c.seq.fsm.state = "IDLE" /\ c.seq.brake
        /\ c.seq.spent = a.seq.spent /\ PreStopped(a, c)
    BY <1>2, <1>6, <2>1, EmergencyOffResult
  <2>3. PreStopped(b, c) /\ Soft(c.pre, c.on) /\ Resting(c.pre) /\ c.pre.fsm.state = "IDLE"
    BY <2>2, ResetSoft DEF PreStopped, Reset, Resting
  <2>4. Safe(c)
    BY <2>2, <2>3 DEF Safe, Places, Brakes
  <2>5. Polices(b, c)
    BY <1>2, <2>2, <2>3, <2>4 DEF Polices
  <2> QED BY <1>2, <2>2, <2>5 DEF c
<1>7. CASE trip /\ ~b.seq.req
  <2>1. EmergencyOff(a) = a
    BY <1>2, <1>7 DEF EmergencyOff
  <2>2. c = a
    BY <1>1, <1>7, <2>1
  <2>3. Safe(a)
    BY <1>2, <1>7 DEF Safe, Places, Brakes
  <2>4. Polices(b, a)
    BY <1>2, <2>3 DEF Polices, PreKept
  <2> QED BY <1>2, <1>7, <2>2, <2>4 DEF c
<1> QED BY <1>5, <1>6, <1>7

(* The policy is acknowledged.                                             *)
LEMMA AcknowledgedPolices ==
    ASSUME NEW b, Safe(b), NEW in \in BoardInputs, in.estop => ~b.seq.req
    PROVE  /\ Polices(b, Acknowledged(b, in))
           /\ b.pol.tripped /\ ~b.pol.last /\ ~in.estop =>
                 Acknowledged(b, in).pol.tripped /\ ~Acknowledged(b, in).pol.last
<1> DEFINE p1 == [b.pol EXCEPT !.last = FALSE]
           p == [p1 EXCEPT !.tripped = FALSE]
           s == [b.seq EXCEPT !.req = TRUE]
           d == [b EXCEPT !.pol = p]
           e == [d EXCEPT !.seq = s]
           a == [b EXCEPT !.pol.last = in.estop]
           c == Acknowledged(b, in)
<1>1. (Released(b, in) => c = e) /\ (~Released(b, in) => c = a)
  BY DEF Acknowledged
<1>2. b \in Board /\ b.pol \in PolRecord /\ b.seq \in SeqRecord /\ in.estop \in BOOLEAN
  BY BoardParts DEF Safe, BoardInputs
<1>3. CASE Released(b, in)
  <2>1. p \in PolRecord /\ p.tripped = FALSE /\ p.last = FALSE
    BY <1>2 DEF PolRecord
  <2>2. d \in Board /\ d.seq = b.seq /\ d.pre = b.pre /\ d.on = b.on /\ d.pol = p
    <3> HIDE DEF p
    <3> QED BY <1>2, <2>1, BoardParts
  <2>3. /\ s \in SeqRecord /\ s.req = TRUE /\ s.fsm = b.seq.fsm /\ s.handed = b.seq.handed
        /\ s.brake = b.seq.brake /\ s.spent = b.seq.spent
    BY <1>2, SeqParts
  <2> HIDE DEF d, s
  <2>4. e \in Board /\ e.seq = s /\ e.pre = b.pre /\ e.on = b.on /\ e.pol = p
    BY <2>2, <2>3, BoardParts
  <2> HIDE DEF e, p
  <2>5. Safe(e)
    BY <2>1, <2>3, <2>4 DEF Safe, Places, Brakes
  <2>6. b.pol.last
    BY <1>3 DEF Released
  <2>7. Polices(b, e)
    BY <2>3, <2>4, <2>5, <2>6 DEF Polices, PreKept
  <2>8. c = e
    BY <1>1, <1>3
  <2> QED BY <2>6, <2>7, <2>8 DEF c
<1>4. CASE ~Released(b, in)
  <2>1. /\ a \in Board /\ a.seq = b.seq /\ a.pre = b.pre /\ a.on = b.on
        /\ a.pol.tripped = b.pol.tripped /\ a.pol.last = in.estop
    <3> DEFINE x == in.estop
    <3>1. x \in BOOLEAN
      BY <1>2
    <3>2. a = [b EXCEPT !.pol.last = x]
      BY Zenon
    <3> HIDE DEF a, x
    <3>3. b \in Board
      BY <1>2
    <3>4. /\ a \in Board /\ a.seq = b.seq /\ a.pre = b.pre /\ a.on = b.on
          /\ a.pol.tripped = b.pol.tripped /\ a.pol.last = x
      BY <3>1, <3>2, <3>3 DEF Board, PolRecord
    <3> QED BY <3>4 DEF x
  <2> HIDE DEF a
  <2>2. Safe(a)
    BY <2>1 DEF Safe, Places, Brakes
  <2>3. b.pol.tripped => ~b.seq.req
    BY DEF Safe, Places
  <2>4. c = a
    BY <1>1, <1>4
  <2>5. Polices(b, a)
    BY <2>1, <2>2, <2>3 DEF Polices, PreKept
  <2> QED BY <2>1, <2>4, <2>5 DEF c
<1> QED BY <1>3, <1>4

(* A whole pass of the policy.                                             *)
LEMMA PolicyPassPolices ==
    ASSUME NEW b, Safe(b), NEW in \in BoardInputs
    PROVE  /\ Polices(b, PolicyPass(b, in))
           /\ b.pol.tripped /\ ~b.pol.last =>
                 PolicyPass(b, in).pol.tripped /\ ~PolicyPass(b, in).pol.last
<1> DEFINE a == Tripping(b, in)
           c == Acknowledged(a, in)
<1>1. CASE b.pol.tripped /\ in.estop
  <2>1. PolicyPass(b, in) = b
    BY <1>1 DEF PolicyPass
  <2> QED BY <2>1 DEF Polices, PreKept
<1>2. CASE ~(b.pol.tripped /\ in.estop)
  <2>1. PolicyPass(b, in) = c
    BY <1>2 DEF PolicyPass
  <2>2. Polices(b, a) /\ (in.estop => ~a.seq.req) /\ a.pol.last = b.pol.last
    BY TrippingPolices
  <2>3. b.pol.tripped => a.pol.tripped
    BY TrippingPolices
  <2> HIDE DEF a
  <2>4. /\ Polices(a, c)
        /\ a.pol.tripped /\ ~a.pol.last /\ ~in.estop => c.pol.tripped /\ ~c.pol.last
    BY <2>2, AcknowledgedPolices DEF Polices
  <2> HIDE DEF c
  <2>5. PreKept(b, c) \/ PreStopped(b, c)
    BY <2>2, <2>4 DEF Polices, PreKept, PreStopped, Reset
  <2> QED BY <1>2, <2>1, <2>2, <2>4, <2>5, <2>3 DEF Polices
<1> QED BY <1>1, <1>2

-----------------------------------------------------------------------------
(* The tick.                                                               *)

HistoryTypeOK ==
    /\ starts \in 0 .. RetryMax + 2 /\ braked \in 0 .. Discharge + 2
    /\ cold \in BOOLEAN /\ resumed \in BOOLEAN /\ asked \in BOOLEAN /\ serene \in BOOLEAN
    /\ seen \in [ocp : BOOLEAN, low : BOOLEAN]
(* The count of the discharge against the ticks of the brake.              *)
BrakeAccounted ==
    /\ "brake" \notin on => (seq.brake => seq.spent > 0) /\ (seq.spent > 0 => resumed)
    /\ "brake" \in on /\ ~resumed => seq.spent <= braked

PrechargeInv ==
    /\ Safe(Whole) /\ HistoryTypeOK
    /\ Counted(pre, on, starts) /\ Seeded(pre, cold) /\ OcpStopsConverter
    /\ BrakeAccounted

(* A tick of the board as a chain of three records.                        *)
LEMMA WholeParts ==
    Whole.seq = seq /\ Whole.pre = pre /\ Whole.on = on /\ Whole.pol = pol
BY DEF Whole

(* The chain.                                                              *)
LEMMA PrechargeTickParts ==
    ASSUME PrechargeInv, NEW in \in Samples, PowerTick(in)
    PROVE  \E a, c, b :
              /\ Charges(Whole, a, in) /\ Sequences(a, c, in) /\ Polices(c, b)
              /\ Whole' = b /\ seq' = b.seq /\ pre' = b.pre /\ on' = b.on /\ pol' = b.pol
              /\ c.pol.tripped /\ ~c.pol.last => b.pol.tripped /\ ~b.pol.last
<1>1. in \in BoardInputs
  BY PrechargeAssumption
<1>2. PICK a, c, b :
         /\ a = PrechargeStep(Whole, in) /\ c = SeqStep(a, in) /\ b = PolicyPass(c, in)
         /\ seq' = b.seq /\ pre' = b.pre /\ on' = b.on /\ pol' = b.pol
  BY DEF PowerTick
<1>3. Charges(Whole, a, in)
  BY <1>1, <1>2, PrechargeStepCharges DEF PrechargeInv, Safe
<1>4. Sequences(a, c, in)
  BY <1>1, <1>2, <1>3, ChargedIsSafe, SeqStepSequences DEF PrechargeInv
<1>5. Polices(c, b) /\ (c.pol.tripped /\ ~c.pol.last => b.pol.tripped /\ ~b.pol.last)
  BY <1>1, <1>2, <1>4, PolicyPassPolices DEF Sequences
<1>6. Whole' = b
  <2>1. Whole' = [seq |-> seq', pre |-> pre', on |-> on', pol |-> pol']
    BY DEF Whole
  <2>2. b \in Board
    BY <1>5 DEF Polices, Safe
  <2> QED BY <1>2, <2>1, <2>2 DEF Board
<1> QED BY <1>2, <1>3, <1>4, <1>5, <1>6

(* Each of the three keeps the board safe, so the tick does.               *)
LEMMA TickKeepsInv ==
    ASSUME PrechargeInv, NEW in \in Samples, PowerTick(in)
    PROVE  PrechargeInv'
<1>1. in \in BoardInputs
  BY PrechargeAssumption
<1>2. PICK a, c, b :
         /\ Charges(Whole, a, in) /\ Sequences(a, c, in) /\ Polices(c, b)
         /\ Whole' = b /\ seq' = b.seq /\ pre' = b.pre /\ on' = b.on /\ pol' = b.pol
  BY PrechargeTickParts
<1>3. Safe(Whole)'
  <2>1. Safe(b)
    BY <1>2 DEF Polices
  <2>2. Safe(Whole)' <=> Safe(Whole')
    BY DEF Safe, Soft, Places, Brakes, Resting
  <2> QED BY <1>2, <2>1, <2>2
<1>4. HistoryTypeOK'
  <2>1. in.ocp \in BOOLEAN /\ (in.bus < DischargedMv) \in BOOLEAN
    BY <1>1 DEF BoardInputs
  <2>2. seen' \in [ocp : BOOLEAN, low : BOOLEAN] /\ serene' \in BOOLEAN
    BY <2>1 DEF PowerTick, PrechargeInv, HistoryTypeOK
  <2>3. starts' \in 0 .. RetryMax + 2 /\ braked' \in 0 .. Discharge + 2
    BY PrechargeAssumption DEF PowerTick, PrechargeInv, HistoryTypeOK, UpTo
  <2>4. seq' \in SeqRecord
    BY <1>2, BoardParts DEF Polices, Safe
  <2>5. cold' \in BOOLEAN
    BY DEF PowerTick, PrechargeInv, HistoryTypeOK
  <2>6. resumed' \in BOOLEAN /\ asked' \in BOOLEAN
    BY <2>4 DEF PowerTick, PrechargeInv, HistoryTypeOK, SeqRecord
  <2> QED BY <2>2, <2>3, <2>5, <2>6 DEF HistoryTypeOK
<1>5. a.seq = seq /\ a.pol = pol /\ a.on \ {"chg"} = on \ {"chg"}
  BY <1>2, WholeParts DEF Charges, OnlyChg, OnlyPre
<1>6. \/ PreKept(a, b)
      \/ Reset(pre', on') /\ pre'.start = FALSE
      \/ Reset(pre', on') /\ FsmEntering(seq.fsm) /\ seq.fsm.state = "PRECHARGE"
  BY <1>2, <1>5 DEF Sequences, Polices, PreKept, PreStopped, PreBegun, Reset, FsmEntering
<1>7. Counted(pre', on', starts')
  <2>1. starts \in Nat /\ RetryMax \in Nat /\ pre'.retry \in Nat
    <3>1. pre' \in PreRecord
      BY <1>2, BoardParts DEF Polices, Safe
    <3> QED BY <3>1, PrechargeAssumption DEF PrechargeInv, HistoryTypeOK, PreRecord
  <2>2. Counted(a.pre, a.on, Started(on, a.on, starts))
    BY <1>2, <2>1, WholeParts DEF Charges, PrechargeInv
  <2>3. CASE FsmEntering(seq.fsm) /\ seq.fsm.state = "PRECHARGE"
    <3>1. starts' = 0
      BY <2>3 DEF PowerTick
    <3> QED BY <2>1, <3>1 DEF Counted
  <2>4. CASE ~(FsmEntering(seq.fsm) /\ seq.fsm.state = "PRECHARGE")
    <3>1. starts' = Started(on, on', starts)
      BY <2>4 DEF PowerTick, Started
    <3>2. CASE PreKept(a, b)
      BY <1>2, <2>2, <3>1, <3>2 DEF PreKept, Counted, Started
    <3>3. CASE Reset(pre', on') /\ pre'.start = FALSE
      <4>1. starts' = starts
        BY <3>1, <3>3 DEF Reset, Started
      <4> QED BY <3>3, <4>1 DEF PrechargeInv, Counted, Reset, Ramps
    <3> QED BY <1>6, <2>4, <3>2, <3>3
  <2> QED BY <2>3, <2>4
<1>8. Seeded(pre', cold')
  <2>1. cold' = IF pre.fsm.state = "PREBIAS" THEN pre'.fsm.state = "RAMP_TON" ELSE cold
    BY DEF PowerTick
  <2>2. CASE PreKept(a, b)
    BY <1>2, <2>1, <2>2, WholeParts DEF PreKept, Charges, PrechargeInv, HistoryTypeOK
  <2>3. CASE Reset(pre', on')
    BY <2>3 DEF Reset, Seeded, Ramps
  <2> QED BY <1>6, <2>2, <2>3
<1>9. OcpStopsConverter'
  <2> SUFFICES ASSUME in.ocp, "chg" \in on'
               PROVE  pre'.fsm.state = "STEADY"
    BY <1>1 DEF PowerTick, OcpStopsConverter
  <2>1. PreKept(a, b)
    BY <1>6 DEF Reset
  <2> QED BY <1>2, <2>1 DEF PreKept, Charges
<1>10. BrakeAccounted'
  <2>1. /\ seq.spent \in 0 .. Discharge + 1 /\ seq'.spent \in 0 .. Discharge + 1
        /\ seq.brake \in BOOLEAN /\ seq'.brake \in BOOLEAN
        /\ c.seq.brake \in BOOLEAN /\ c.seq.spent \in 0 .. Discharge + 1
    <3>1. seq \in SeqRecord /\ seq' \in SeqRecord /\ c.seq \in SeqRecord
      BY <1>2, BoardParts, WholeParts DEF Polices, Sequences, Safe, PrechargeInv
    <3> QED BY <3>1 DEF SeqRecord
  <2>2. Discharge \in Nat /\ braked \in 0 .. Discharge + 2 /\ resumed \in BOOLEAN
    BY PrechargeAssumption DEF PrechargeInv, HistoryTypeOK
  <2>3. /\ braked' = IF "brake" \in on /\ "brake" \in on'
                     THEN UpTo(braked, Discharge + 2) ELSE 0
        /\ resumed' = (seq'.spent > 0 /\ (resumed \/ ("brake" \in on /\ "brake" \notin on')))
    BY DEF PowerTick
  <2>4. /\ seq'.spent = c.seq.spent /\ ("brake" \in c.on => "brake" \in on')
        /\ "brake" \notin on' => seq'.brake = c.seq.brake
        /\ "brake" \in a.on <=> "brake" \in on
    BY <1>2, <1>5 DEF Polices
  <2>5. SpendsNothing(a, c) \/ SpendsOne(a, c) \/ SpendingEnds(a, c, in)
    BY <1>2 DEF Sequences, Spends
  <2>6. "brake" \in on /\ seq.fsm.state = "AUX" => seq.spent > 0
    BY WholeParts DEF PrechargeInv, Safe, Brakes
  <2>7. BrakeAccounted
    BY DEF PrechargeInv
  <2>8. CASE SpendsNothing(a, c)
    <3>1. /\ c.seq.spent = seq.spent /\ c.seq.brake = seq.brake
          /\ "brake" \in c.on => "brake" \in on
          /\ "brake" \in on /\ "brake" \notin c.on => seq.fsm.state = "AUX"
      BY <1>5, <2>4, <2>8 DEF SpendsNothing
    <3>2. CASE "brake" \notin on'
      BY <2>1, <2>3, <2>4, <2>6, <2>7, <3>1, <3>2 DEF BrakeAccounted
    <3>3. CASE "brake" \in on'
      BY <2>1, <2>2, <2>3, <2>4, <2>7, <3>1, <3>3 DEF BrakeAccounted, UpTo
    <3> QED BY <3>2, <3>3
  <2>9. CASE SpendsOne(a, c)
    <3>1. /\ seq.brake /\ c.seq.brake /\ c.seq.spent = seq.spent + 1
          /\ "brake" \in c.on <=> "brake" \in on
      BY <1>5, <2>4, <2>9 DEF SpendsOne
    <3>2. CASE "brake" \notin on'
      <4>1. "brake" \notin on
        BY <2>4, <3>1, <3>2
      <4>2. resumed /\ seq.spent > 0 /\ seq'.spent > 0
        BY <2>1, <2>4, <2>7, <3>1, <4>1 DEF BrakeAccounted
      <4>3. resumed'
        BY <2>3, <4>2
      <4> QED BY <3>2, <4>2, <4>3 DEF BrakeAccounted
    <3>3. CASE "brake" \in on' /\ "brake" \in on
      BY <2>1, <2>2, <2>3, <2>4, <2>7, <3>1, <3>3 DEF BrakeAccounted, UpTo
    <3>4. CASE "brake" \in on' /\ "brake" \notin on
      <4>1. resumed /\ seq'.spent > 0
        BY <2>1, <2>4, <2>7, <3>1, <3>4 DEF BrakeAccounted
      <4>2. resumed'
        BY <2>3, <4>1
      <4> QED BY <3>4, <4>2 DEF BrakeAccounted
    <3> QED BY <3>2, <3>3, <3>4
  <2>10. CASE SpendingEnds(a, c, in)
    <3>1. c.seq.spent = 0 /\ ~c.seq.brake
      BY <2>10 DEF SpendingEnds
    <3> QED BY <2>1, <2>2, <2>3, <2>4, <3>1 DEF BrakeAccounted, UpTo
  <2> QED BY <2>5, <2>8, <2>9, <2>10
<1>11. Counted(pre, on, starts)' /\ Seeded(pre, cold)'
  BY <1>7, <1>8 DEF Counted, Seeded
<1> QED BY <1>3, <1>4, <1>9, <1>10, <1>11 DEF PrechargeInv

(* The invariant of the E1 power board.                                    *)
LEMMA PrechargeInvInit == PrechargeInit => PrechargeInv
<1> SUFFICES ASSUME PrechargeInit PROVE PrechargeInv
  OBVIOUS
<1> USE DEF PrechargeInit
<1>1. /\ seq \in SeqRecord /\ seq.fsm = [state |-> "IDLE", last |-> "IDLE"]
      /\ seq.brake = FALSE /\ seq.spent = 0
  BY PrechargeAssumption DEF SeqRecord, FsmAt, SeqStates
<1>2. /\ pre \in PreRecord /\ pre.fsm = [state |-> "IDLE", last |-> "IDLE"]
      /\ pre.retry = 0 /\ pre.seed = 0 /\ pre.fault = "NONE"
      /\ pre.start = FALSE /\ pre.done = FALSE
  BY PrechargeAssumption DEF PreRecord, FsmAt, PreStates, Faults
<1>3. Whole \in Board
  <2>1. on = {} /\ pol \in PolRecord
    BY DEF PolRecord
  <2> QED BY <1>1, <1>2, <2>1 DEF Whole, Board
<1>4. HistoryTypeOK
  <2>1. seq.req \in BOOLEAN
    BY <1>1 DEF SeqRecord
  <2>2. asked \in BOOLEAN
    <3>1. asked = seq.req
      BY Zenon
    <3> QED BY <2>1, <3>1, Zenon
  <2>3. starts \in 0 .. RetryMax + 2 /\ braked \in 0 .. Discharge + 2
    BY PrechargeAssumption
  <2>4. seen \in [ocp : BOOLEAN, low : BOOLEAN]
    OBVIOUS
  <2> QED BY <2>2, <2>3, <2>4 DEF HistoryTypeOK
<1>5. Soft(pre, on) /\ Resting(pre)
  BY <1>2 DEF Soft, Resting
<1>6. Safe(Whole)
  BY <1>1, <1>3, <1>5, WholeParts DEF Safe, Places, Brakes
<1>7. Counted(pre, on, starts) /\ Seeded(pre, cold) /\ OcpStopsConverter
  BY <1>2, PrechargeAssumption DEF Counted, Seeded, Ramps, OcpStopsConverter
<1> QED BY <1>1, <1>4, <1>6, <1>7 DEF PrechargeInv, BrakeAccounted

(* Every step keeps the invariant.                                         *)
LEMMA PrechargeInvStep == PrechargeInv /\ [PrechargeNext]_prechargeVars => PrechargeInv'
<1> SUFFICES ASSUME PrechargeInv, [PrechargeNext]_prechargeVars PROVE PrechargeInv'
  OBVIOUS
<1>1. ASSUME NEW in \in Samples, PowerTick(in) PROVE PrechargeInv'
  BY <1>1, TickKeepsInv
<1>2. CASE Serene \/ UNCHANGED prechargeVars
  <2>1. /\ UNCHANGED <<seq, pre, on, pol, starts, cold, braked, resumed, seen, asked>>
        /\ serene' \in BOOLEAN
    BY <1>2 DEF Serene, prechargeVars, board, PrechargeInv, HistoryTypeOK
  <2> QED BY <2>1 DEF PrechargeInv, HistoryTypeOK, Safe, Soft, Places, Brakes, Resting, Whole,
                      Counted, Seeded, OcpStopsConverter, BrakeAccounted
<1> QED BY <1>1, <1>2 DEF PrechargeNext

(* The invariant of the E1 power board, for any thresholds and times.      *)
THEOREM PrechargeInvariant == PrechargeSpec => []PrechargeInv
BY PrechargeInvInit, PrechargeInvStep, PTL DEF PrechargeSpec

(* What the invariant says.                                                *)
LEMMA InvTypes == PrechargeInv => PrechargeTypeOK
<1> SUFFICES ASSUME PrechargeInv PROVE PrechargeTypeOK
  OBVIOUS
<1>1. seq \in SeqRecord /\ pre \in PreRecord /\ on \in SUBSET Switches /\ pol \in PolRecord
  BY BoardParts, WholeParts DEF PrechargeInv, Safe
<1>2. /\ seq.fsm \in [state : SeqStates, last : SeqStates]
      /\ {seq.req, seq.handed, seq.brake} \subseteq BOOLEAN
      /\ seq.steady \in 0 .. Steady + Handover /\ seq.spent \in 0 .. Discharge + 1
  BY <1>1 DEF SeqRecord
<1>3. /\ pre.fsm \in [state : PreStates, last : PreStates]
      /\ pre.phase \in Nat /\ pre.retry \in 0 .. RetryMax /\ pre.seed \in 0 .. Phase4
      /\ pre.fault \in Faults /\ {pre.start, pre.done} \subseteq BOOLEAN
  BY <1>1 DEF PreRecord
<1>4. on \subseteq Switches /\ {pol.tripped, pol.last} \subseteq BOOLEAN
  BY <1>1 DEF PolRecord
<1>5. /\ starts \in 0 .. RetryMax + 2 /\ braked \in 0 .. Discharge + 2
      /\ {cold, resumed, seen.ocp, seen.low, asked, serene} \subseteq BOOLEAN
  BY DEF PrechargeInv, HistoryTypeOK
<1> QED BY <1>2, <1>3, <1>4, <1>5 DEF PrechargeTypeOK

(* Of trips.                                                               *)
LEMMA InvTripped == PrechargeInv => TrippedIsOff
<1> SUFFICES ASSUME PrechargeInv PROVE TrippedIsOff
  OBVIOUS
<1>1. Soft(pre, on) /\ Places(Whole) /\ Brakes(Whole)
  BY WholeParts DEF PrechargeInv, Safe
<1>2. pol.tripped \/ pol.last => ~seq.req /\ seq.fsm.state = "IDLE" /\ "motor" \notin on /\ Resting(pre)
  BY <1>1, WholeParts DEF Places
<1>3. Resting(pre) /\ "chg" \in on => pre.fsm.state = "FAULT"
  BY <1>1 DEF Soft, Resting, Ramps
<1>4. "brake" \in on => on = {"brake"}
  BY <1>1, WholeParts DEF Brakes
<1> QED BY <1>2, <1>3, <1>4 DEF TrippedIsOff

(* Of the soft start.                                                      *)
LEMMA InvSoftStart == PrechargeInv => SoftStartIsSafe
<1> SUFFICES ASSUME PrechargeInv PROVE SoftStartIsSafe
  OBVIOUS
<1>1. Soft(pre, on) /\ Places(Whole) /\ pre.retry \in Nat /\ pre.seed \in Nat
      /\ starts \in Nat /\ RetryMax \in Nat
  BY BoardParts, WholeParts, PrechargeAssumption DEF PrechargeInv, Safe, PreRecord, HistoryTypeOK
<1>2. MotorTakesOver
  BY <1>1, WholeParts DEF Soft, Places, MotorTakesOver
<1>3. StartsBounded
  BY <1>1 DEF PrechargeInv, Counted, StartsBounded
<1>4. OnlyRetriesAreSeeded
  BY <1>1 DEF PrechargeInv, Seeded, OnlyRetriesAreSeeded, ColdStartsAtZero
<1> QED BY <1>2, <1>3, <1>4 DEF SoftStartIsSafe, PrechargeInv

(* Every variable of the E1 power board stays in its type.                 *)
THEOREM PrechargeTypesCorrect == PrechargeSpec => []PrechargeTypeOK
BY PrechargeInvariant, InvTypes, PTL

(* After a trip nothing is requested, MOTOR and the converter are off, and *)
(* the brake never works against a supply that is on (app_fault_policy.c). *)
THEOREM TripsTurnOff == PrechargeSpec => []TrippedIsOff
BY PrechargeInvariant, InvTripped, PTL

(* MOTOR takes over only from a charged supply, starts are bounded, an     *)
(* over-current stops the converter, and only retries are seeded           *)
(* (srv_pwr_ctrl.c), for any thresholds and times.                         *)
THEOREM SoftStartSafe == PrechargeSpec => []SoftStartIsSafe
BY PrechargeInvariant, InvSoftStart, PTL

(* A trip that no button caused is never acknowledged                      *)
(* (app_fault_policy.c).                                                   *)
THEOREM FaultTripsStay == PrechargeSpec => FaultTripIsFinal
<1>1. PrechargeInv /\ [PrechargeNext]_prechargeVars =>
         [pol.tripped /\ ~pol.last => pol'.tripped /\ ~pol'.last]_prechargeVars
  <2> SUFFICES ASSUME PrechargeInv, PrechargeNext, pol.tripped /\ ~pol.last
               PROVE  pol'.tripped /\ ~pol'.last
    BY DEF PrechargeNext
  <2>1. ASSUME NEW in \in Samples, PowerTick(in) PROVE pol'.tripped /\ ~pol'.last
    <3>1. PICK a, c, b :
             /\ Charges(Whole, a, in) /\ Sequences(a, c, in)
             /\ pol' = b.pol
             /\ c.pol.tripped /\ ~c.pol.last => b.pol.tripped /\ ~b.pol.last
      BY <2>1, PrechargeTickParts
    <3>2. c.pol = pol
      BY <3>1, WholeParts DEF Charges, OnlyChg, OnlyPre, Sequences
    <3> QED BY <3>1, <3>2
  <2>2. CASE Serene
    BY <2>2 DEF Serene, board
  <2> QED BY <2>1, <2>2 DEF PrechargeNext
<1> QED BY <1>1, PrechargeInvariant, PTL DEF PrechargeSpec, FaultTripIsFinal

(* A discharge ends early only when the supply is down, or when an earlier *)
(* one was ended by the next power-up.                                     *)
LEMMA DischargeKept ==
    PrechargeInv /\ [PrechargeNext]_prechargeVars =>
        [DischargeEndsEarly /\ ~resumed => seen'.low]_prechargeVars
<1> SUFFICES ASSUME PrechargeInv, PrechargeNext, DischargeEndsEarly, ~resumed
             PROVE  seen'.low
  OBVIOUS
<1>1. PICK in \in Samples : PowerTick(in)
  BY DEF PrechargeNext, Serene, board, DischargeEndsEarly
<1>2. PICK a, c, b :
         /\ Charges(Whole, a, in) /\ Sequences(a, c, in) /\ Polices(c, b)
         /\ seq' = b.seq /\ on' = b.on
  BY <1>1, PrechargeTickParts
<1>3. a.seq = seq /\ ("brake" \in a.on <=> "brake" \in on) /\ "brake" \notin c.on
  BY <1>2, WholeParts DEF Charges, OnlyChg, OnlyPre, Polices, DischargeEndsEarly
<1>4. SpendsNothing(a, c) \/ SpendsOne(a, c) \/ SpendingEnds(a, c, in)
  BY <1>2 DEF Sequences, Spends
<1>5. in.bus < DischargedMv \/ seq.spent > Discharge
  BY <1>3, <1>4 DEF SpendsNothing, SpendsOne, SpendingEnds, DischargeEndsEarly
<1>6. seq.spent <= braked /\ braked < Discharge + 1
  BY DEF PrechargeInv, BrakeAccounted, DischargeEndsEarly
<1>7. seq.spent \in Nat /\ braked \in Nat /\ Discharge \in Nat
  BY BoardParts, WholeParts, PrechargeAssumption
     DEF PrechargeInv, Safe, SeqRecord, HistoryTypeOK
<1>8. in.bus < DischargedMv
  BY <1>5, <1>6, <1>7
<1> QED BY <1>1, <1>8 DEF PowerTick

(* The brake is on for its whole time before a power-up goes on, unless    *)
(* the supply is discharged or an earlier discharge was left unfinished.   *)
THEOREM DischargesAreFull == PrechargeSpec => DischargeIsFull
BY DischargeKept, PrechargeInvariant, PTL DEF PrechargeSpec, DischargeIsFull

-----------------------------------------------------------------------------
(* The boards side by side: a step of one leaves the others alone.         *)
BoardsInv == MasterInv /\ SlaveInv /\ PrechargeInv /\ CommandInv

(* A step of the boards is a step or a stutter of each of them.            *)
LEMMA BoardsStep ==
    [BoardsNext]_boardVars =>
        /\ [MasterNext]_masterVars /\ [SlaveNext]_slaveVars
        /\ [PrechargeNext]_prechargeVars /\ [CommandNext]_commandVars
<1>1. CASE CtuMaster /\ MasterNext
  BY <1>1 DEF CtuMaster
<1>2. CASE CtuSlave /\ SlaveNext
  BY <1>2 DEF CtuSlave
<1>3. CASE E1Master /\ PrechargeNext
  BY <1>3 DEF E1Master
<1>4. CASE Polled /\ CommandNext
  BY <1>4 DEF Polled
<1>5. CASE UNCHANGED boardVars
  BY <1>5 DEF boardVars
<1> QED BY <1>1, <1>2, <1>3, <1>4, <1>5 DEF BoardsNext

(* Whatever one board does, the inductive invariants of all four hold.     *)
THEOREM BoardsInvariant == BoardsSpec => []BoardsInv
<1>1. BoardsInit => BoardsInv
  BY MasterInitInv, SlaveInitInv, PrechargeInvInit, CommandInitInv DEF BoardsInit, BoardsInv
<1>2. BoardsInv /\ [BoardsNext]_boardVars => BoardsInv'
  <2> SUFFICES ASSUME BoardsInv, [BoardsNext]_boardVars PROVE BoardsInv'
    OBVIOUS
  <2>1. /\ [MasterNext]_masterVars /\ [SlaveNext]_slaveVars
        /\ [PrechargeNext]_prechargeVars /\ [CommandNext]_commandVars
    BY BoardsStep
  <2>2. MasterInv' /\ SlaveInv'
    BY <2>1, MasterNextInv, SlaveNextInv DEF BoardsInv
  <2>3. PrechargeInv' /\ CommandInv'
    BY <2>1, PrechargeInvStep, CommandNextInv DEF BoardsInv
  <2> QED BY <2>2, <2>3 DEF BoardsInv
<1> QED BY <1>1, <1>2, PTL DEF BoardsSpec

(* All four keep to the types of their state: no counter of the code       *)
(* passes its limit, no byte and no answer is of a request that was not    *)
(* sent.                                                                   *)
THEOREM BoardsTypes == BoardsSpec => []BoardsTypeOK
<1>1. BoardsInv => BoardsTypeOK
  BY InvMasterTypes, InvTypes, InvCommandTypes DEF BoardsInv, SlaveInv, BoardsTypeOK
<1> QED BY <1>1, BoardsInvariant, PTL

(* The E1 master connects its motor supply only when it is charged, spends *)
(* no more starts of the converter than it may, and is off after a trip.   *)
THEOREM SupplySafe == BoardsSpec => []SupplyIsSafe
<1>1. BoardsInv => SupplyIsSafe
  BY InvTripped, InvSoftStart DEF BoardsInv, SupplyIsSafe
<1> QED BY <1>1, BoardsInvariant, PTL

(* MOTOR's settling on the CTU master, that of every output of the slave   *)
(* and the discharge of the E1 master are never cut short, but for the     *)
(* cases that are named.                                                   *)
THEOREM WindowsHold == BoardsSpec => WindowsKept
<1>1. BoardsInv /\ [BoardsNext]_boardVars =>
        /\ [LossTrip /\ ran < Grace + LossTicks => missed]_masterVars
        /\ [Settles]_slaveVars
        /\ [DischargeEndsEarly /\ ~resumed => seen'.low]_prechargeVars
  <2> SUFFICES ASSUME BoardsInv, [BoardsNext]_boardVars
               PROVE  /\ [LossTrip /\ ran < Grace + LossTicks => missed]_masterVars
                      /\ [Settles]_slaveVars
                      /\ [DischargeEndsEarly /\ ~resumed => seen'.low]_prechargeVars
    OBVIOUS
  <2>1. /\ [MasterNext]_masterVars /\ [SlaveNext]_slaveVars
        /\ [PrechargeNext]_prechargeVars
    BY BoardsStep
  <2>2. LossTrip /\ ran < Grace + LossTicks => missed
    BY <2>1, MasterNextInv DEF BoardsInv
  <2>3. Settles
    BY <2>1, SettlesInTime DEF BoardsInv
  <2>4. [DischargeEndsEarly /\ ~resumed => seen'.low]_prechargeVars
    BY <2>1, DischargeKept DEF BoardsInv
  <2> QED BY <2>2, <2>3, <2>4
<1> QED BY <1>1, BoardsInvariant, PTL
        DEF BoardsSpec, WindowsKept, GraceLostByRestart, SettlesFirst, DischargeIsFull, Settles
=============================================================================
