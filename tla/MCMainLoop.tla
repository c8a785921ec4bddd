----------------------------- MODULE MCMainLoop -----------------------------
(* What the main loop of the boards runs on, for TLC: the software timers, *)
(* the two directions of the serial line, the log in flash and, on the F4  *)
(* of the E1 power board, the parameters in flash.  Each behaviour is that *)
(* of one of them, the others stand still.                                 *)
EXTENDS SwTimer, Rs485Send, UartReceive, LogFlash

VARIABLE part

(* ring_storage over drv_stm32f4_flash, whose operations fail up to twice. *)
VARIABLES flash, step, unit, latest, latestVer, sector, offset, kv, ret, wipePos, flashErrors, sound
Parameters == INSTANCE RingStorage WITH
    pc <- step, active <- sector, faults <- flashErrors,
    NSectors <- 2, NSlots <- 2, Sampled <- {1},
    Values <- {"v1", "v2"}, NoValue <- "none", NoFrame <- <<>>,
    Reprogram <- TRUE, AllowWipe <- FALSE, MaxVersion <- 4, MaxFaults <- 2
areaVars ==
    <<flash, step, unit, latest, latestVer, sector, offset, kv, ret, wipePos, flashErrors, sound>>

(* One timer of each priority, one of which ends after two callbacks.      *)
TimerPriority == [high |-> "HIGH", fast |-> "NORMAL", slow |-> "LOW"]
TimerNames == DOMAIN TimerPriority
TimerPeriod == [high |-> 1, fast |-> 2, slow |-> 2]
TimerRepeat == [high |-> 2, fast |-> 0, slow |-> 0]

loopVars == <<part, timerVars, sendVars, receiveVars, logVars, areaVars>>

LoopInit ==
    /\ part \in {"timers", "send", "receive", "log", "parameters"}
    /\ TimerInit /\ SendInit /\ ReceiveInit /\ LogInit
    /\ Parameters!Init

InTimers ==
    part = "timers" /\ UNCHANGED <<part, sendVars, receiveVars, logVars, areaVars>>
InSend ==
    part = "send" /\ UNCHANGED <<part, timerVars, receiveVars, logVars, areaVars>>
InReceive ==
    part = "receive" /\ UNCHANGED <<part, timerVars, sendVars, logVars, areaVars>>
InLog ==
    part = "log" /\ UNCHANGED <<part, timerVars, sendVars, receiveVars, areaVars>>
InParameters ==
    part = "parameters" /\ UNCHANGED <<part, timerVars, sendVars, receiveVars, logVars>>

LoopNext ==
    \/ InTimers /\ TimerNext
    \/ InSend /\ SendNext
    \/ InReceive /\ ReceiveNext
    \/ InLog /\ LogNext
    \/ InParameters /\ Parameters!Next

(* The fairness of the specifications, actions of different parts    *)
(* taken together: only those of one part are ever enabled.                *)
LoopSpec ==
    /\ LoopInit /\ [][LoopNext]_loopVars
    /\ WF_loopVars(\/ InTimers /\ Boot
                   \/ InSend /\ MainLoop
                   \/ InReceive /\ Reading
                   \/ InLog /\ LogLoop)
    /\ WF_loopVars(\/ InTimers /\ Loop
                   \/ InSend /\ Complete
                   \/ InReceive /\ MoveIn
                   \/ InLog /\ Elapse)
    /\ WF_loopVars((InTimers /\ Clock) \/ (InReceive /\ LineIdle))

-----------------------------------------------------------------------------
(* The type invariants of the four parts.                                 *)
LoopTypeOK == TimerTypeOK /\ SendTypeOK /\ ReceiveTypeOK /\ LogTypeOK

(* What was stored stays: lines the log has accepted (srv_log_flash), and  *)
(* parameters whose save has returned OK, whatever power failures and      *)
(* flashErrors of the F4's flash driver came in between (ring_storage_init).    *)
StoredKept ==
    IF part = "parameters" THEN Parameters!SavedIsRecovered ELSE LogKept

(* Each part goes on for ever: timers fire, frames leave and free the bus, *)
(* bytes are parsed, the log reaches the flash.                            *)
LoopGoesOn ==
    FiresForever /\ BusIsReleased /\ QueueIsSent /\ AllIsParsed /\ LogDrains
=============================================================================
