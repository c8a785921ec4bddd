--------------------------- MODULE MCPowerBoards ---------------------------
(* The three power boards and the command service of the CTU boards for    *)
(* TLC.  They have nothing in common: each behaviour is that of one of     *)
(* them, the other three stand still.                                      *)
EXTENDS CtuMasterPower, CtuSlavePower, MasterPrecharge, CtuCommands

VARIABLE which

SlaveTimeout == [r \in Outputs |-> 2]

(* Input and charge of the motor supply: nothing charged, the two sides of *)
(* the limits, half charged, charged, and no input.                        *)
Supplies == {<<48000, 500>>, <<48000, 3000>>, <<48000, 24000>>, <<48000, 48000>>, <<0, 24000>>}
Signals == {{}, {"ocp"}, {"estop"}, {"trouble"}}
PowerSamples ==
    {[vin |-> v[1], bus |-> v[2], ocp |-> "ocp" \in s, estop |-> "estop" \in s,
      trouble |-> "trouble" \in s] : v \in Supplies, s \in Signals}

(* The bytes of a request: z gives a frame of twelve bytes as its length,  *)
(* longer than a request and shorter than two.  The line may lose z, the   *)
(* middle, the end, or all of a request.                                   *)
ByteValues == <<7, 1, 1, 2, 4, 3>>
CutRequests ==
    {<<2, 3, 4, 5, 6>>, <<1, 2, 4, 5, 6>>, <<1, 5, 6>>, <<1, 6>>, <<1, 2, 6>>,
     <<1, 2>>, <<1, 2, 3>>, <<>>}

boardVars == <<which, masterVars, slaveVars, prechargeVars, commandVars>>

BoardsInit ==
    /\ which \in {"ctuMaster", "ctuSlave", "e1Master", "commands"}
    /\ MasterInit /\ SlaveInit /\ PrechargeInit /\ CommandInit

CtuMaster == which = "ctuMaster" /\ UNCHANGED <<which, slaveVars, prechargeVars, commandVars>>
CtuSlave == which = "ctuSlave" /\ UNCHANGED <<which, masterVars, prechargeVars, commandVars>>
E1Master == which = "e1Master" /\ UNCHANGED <<which, masterVars, slaveVars, commandVars>>
Polled == which = "commands" /\ UNCHANGED <<which, masterVars, slaveVars, prechargeVars>>

BoardsNext ==
    \/ CtuMaster /\ MasterNext
    \/ CtuSlave /\ SlaveNext
    \/ E1Master /\ PrechargeNext
    \/ Polled /\ CommandNext

BoardsSpec ==
    /\ BoardsInit /\ [][BoardsNext]_boardVars
    /\ WF_boardVars(CtuMaster /\ \E in \in MasterInputs : MasterTick(in))
    /\ WF_boardVars(CtuSlave /\ \E in \in SlaveInputs : SlaveTick(in))
    /\ WF_boardVars(E1Master /\ \E in \in Samples : PowerTick(in))

-----------------------------------------------------------------------------
(* The type invariants of the three boards and of the command service.     *)
BoardsTypeOK == MasterTypeOK /\ SlaveTypeOK /\ PrechargeTypeOK /\ CommandTypeOK

(* The E1 master charges its motor supply as it should and is off after a  *)
(* trip.                                                                   *)
SupplyIsSafe == TrippedIsOff /\ SoftStartIsSafe

(* A window of time is never cut short but for the cases that are named:   *)
(* MOTOR's settling on the CTU master, that of every output of the slave,  *)
(* the discharge of the E1 master.                                         *)
WindowsKept == GraceLostByRestart /\ SettlesFirst /\ DischargeIsFull

(* Left alone with good supplies, every board powers up.                   *)
BoardsPowerUp == CalmStartsMotor /\ QuietBringsUp /\ SerenePowersUp
=============================================================================
