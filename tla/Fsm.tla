-------------------------------- MODULE Fsm --------------------------------
(***************************************************************************)
(* The state machine framework of the power boards (fsm.c).  Every machine *)
(* that is modelled fills its matrix with fsm_always_true, so no           *)
(* transition is ever refused.                                             *)
(*                                                                         *)
(* A transition takes effect in two halves: the handler's result becomes   *)
(* the current state at once, and what entering it does (the exit and      *)
(* entry callbacks) waits for the next fsm_step.  In between, whoever asks *)
(* for the state is told the new one.                                      *)
(***************************************************************************)

(* fsm_init: no entry is due.                                              *)
FsmAt(s) == [state |-> s, last |-> s]

(* fsm_goto, and the end of fsm_step with the handler's result.            *)
FsmGoto(f, s) == [state |-> s, last |-> f.state]

(* The callbacks are due.  A second fsm_goto to the same state before the  *)
(* next step loses them.                                                   *)
FsmEntering(f) == f.last # f.state
=============================================================================
