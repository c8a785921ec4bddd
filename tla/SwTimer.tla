------------------------------ MODULE SwTimer ------------------------------
(***************************************************************************)
(* The software timers that run every task of the boards (sw_timer.c).     *)
(* One list of armed timers is kept in the order of their target times.    *)
(* The main loop calls sw_timer_tick with the clock, which takes the due   *)
(* timers off the list's head: HIGH timers are called back at once, NORMAL *)
(* and LOW ones are queued.  Then it calls sw_timer_task, which calls back *)
(* one queued timer, NORMAL first.                                         *)
(*                                                                         *)
(* The clock has Ticks values and wraps (2^32 ms in the code).  The list   *)
(* is ordered by the unsigned values, a timer is due by the sign of the    *)
(* difference.                                                             *)
(*                                                                         *)
(* A callback may stop any timer and start any other one; that none        *)
(* restarts its own timer (sw_timer_tick and sw_timer_task would insert it *)
(* a second time) is a condition on the callers that all tasks meet.       *)
(***************************************************************************)
EXTENDS Naturals, SequencesExt

CONSTANTS
    Timers,
    Priority,    \* of each timer: "HIGH", "NORMAL" or "LOW"
    Period,      \* the delay each is started with
    Repeat,      \* its repeat_count: 0 is forever
    Ticks,       \* values of the clock
    MaxLag       \* ticks that an iteration of the main loop may take

ASSUME TimerAssumption ==
    /\ Priority \in [Timers -> {"HIGH", "NORMAL", "LOW"}]
    /\ Period \in [Timers -> Nat \ {0}] /\ Repeat \in [Timers -> Nat]
    /\ Ticks \in Nat \ {0} /\ MaxLag \in Nat \ {0}
    /\ \A t \in Timers : 2 * (Period[t] + MaxLag) < Ticks

VARIABLES
    now,      \* millis()
    tick,     \* g_tick
    pc,       \* "boot", "idle", in the loop of sw_timer_tick ("drain"), before "task"
    lists,    \* the lists: active, normal and low
    target, left, active,   \* target_time, repeat_count, active
    fired,    \* callbacks of a timer since it was started (counted for Repeat # 0)
    plain,    \* from now on no callback stops or starts a timer
    alive     \* timers without end that were active then

timers == <<lists, target, left, active, fired>>
timerVars == <<now, tick, pc, timers, plain, alive>>

Plus(a, b) == (a + b) % Ticks
(* (int32_t)(a - b) > 0                                                    *)
After(a, b) == LET d == (a + Ticks - b) % Ticks IN d # 0 /\ 2 * d < Ticks

(* g_active_list, g_normal_queue and g_low_queue.                          *)
Queues == {"active", "normal", "low"}

(* The parts of one step, as a record.                                     *)
Whole == [lists |-> lists, target |-> target, left |-> left, active |-> active,
          fired |-> fired]

-----------------------------------------------------------------------------
(* Variant: the newest timer goes first.                                   *)
InsertFirst(s, t) == [s EXCEPT !.lists.active = <<t>> \o @]
(* active_list_insert.                                                     *)
Insert(s, t) ==
    LET l == s.lists.active
        later == {i \in 1 .. Len(l) : s.target[l[i]] > s.target[t]}
        at == IF later = {} THEN Len(l) + 1 ELSE CHOOSE i \in later : \A j \in later : i <= j
    IN  [s EXCEPT !.lists.active = InsertAt(l, at, t)]

(* clist_del_init of the node of t.                                        *)
Without(l, t) ==
    LET at == {i \in 1 .. Len(l) : l[i] = t}
    IN  IF at = {} THEN l ELSE RemoveAt(l, CHOOSE i \in at : TRUE)

(* Variant: a queued timer is forgotten.                                   *)
StopArmed(s, t) ==
    IF s.active[t]
    THEN [s EXCEPT !.active[t] = FALSE, !.lists.active = Without(@, t)]
    ELSE s
(* sw_timer_stop.                                                          *)
Stop(s, t) ==
    IF s.active[t]
    THEN [s EXCEPT !.active[t] = FALSE, !.lists = [q \in Queues |-> Without(@[q], t)]]
    ELSE s

(* sw_timer_start.                                                         *)
Start(s0, t) ==
    LET s == Stop(s0, t)
    IN  Insert([s EXCEPT !.target[t] = Plus(tick, Period[t]), !.left[t] = Repeat[t],
                         !.active[t] = TRUE, !.fired[t] = 0], t)

(* Variant: the repetitions are not counted down.                          *)
RearmForever(s, t) ==
    LET next == Plus(s.target[t], Period[t])
    IN  [s EXCEPT !.target[t] = IF After(next, tick) THEN next ELSE Plus(tick, Period[t])]
(* timer_rearm.                                                            *)
Rearm(s, t) ==
    LET next == Plus(s.target[t], Period[t])
    IN  [s EXCEPT !.left[t] = IF @ > 1 THEN @ - 1 ELSE @,
                  !.target[t] = IF After(next, tick) THEN next ELSE Plus(tick, Period[t])]

(* What a callback of t does to the timers.                                *)
Effects(t) ==
    {[op |-> "none", who |-> t]} \cup [op : {"stop"}, who : Timers]
        \cup [op : {"start"}, who : Timers \ {t}]
Effect(s, e) ==
    CASE e.op = "none"  -> s
      [] e.op = "stop"  -> Stop(s, e.who)
      [] e.op = "start" -> Start(s, e.who)

(* Variants: the last repetition is not the last; every timer ends.        *)
GoesOnAlways(n) == n >= 0
GoesOnCounted(n) == n > 1
(* repeat_count: 0 is forever.                                             *)
GoesOn(n) == n = 0 \/ n > 1

(* The callback of t and what follows it, in both places.                  *)
CalledBack(s0, t, e) ==
    LET s == Effect([s0 EXCEPT !.fired[t] = IF Repeat[t] = 0 THEN @ ELSE @ + 1], e)
    IN  IF s.active[t] /\ GoesOn(s.left[t])
        THEN Insert(Rearm(s, t), t)
        ELSE [s EXCEPT !.active[t] = FALSE]

Become(s) ==
    /\ lists' = s.lists /\ target' = s.target /\ left' = s.left
    /\ active' = s.active /\ fired' = s.fired

-----------------------------------------------------------------------------
TimerInit ==
    /\ now = 0 /\ tick = 0 /\ pc = "boot" /\ plain = FALSE /\ alive = {}
    /\ lists = [q \in Queues |-> <<>>]
    /\ target = [t \in Timers |-> 0] /\ left = [t \in Timers |-> 0]
    /\ active = [t \in Timers |-> FALSE] /\ fired = [t \in Timers |-> 0]

(* The tasks start their timers, in any order, before the main loop.       *)
TaskInit(t) ==
    /\ pc = "boot" /\ ~active[t]
    /\ \E s \in {Start(Whole, t)} : Become(s)
    /\ pc' = IF active' = [u \in Timers |-> TRUE] THEN "idle" ELSE "boot"
    /\ UNCHANGED <<now, tick, plain, alive>>

(* sw_timer_tick(millis()).                                                *)
TickCall ==
    /\ pc = "idle"
    /\ pc' = "drain" /\ tick' = now
    /\ UNCHANGED <<now, timers, plain, alive>>

Due(t) == ~After(target[t], tick)

(* One turn of its loop.                                                   *)
Drain ==
    /\ pc = "drain"
    /\ LET l == lists.active IN
       IF l = <<>> \/ ~Due(Head(l))
       THEN pc' = "task" /\ UNCHANGED timers
       ELSE LET t == Head(l)
                off == [Whole EXCEPT !.lists.active = Tail(l)]
            IN  /\ UNCHANGED pc
                /\ CASE Priority[t] = "HIGH" ->
                            \E e \in Effects(t) : \E s \in {CalledBack(off, t, e)} :
                                (plain => e.op = "none") /\ Become(s)
                     [] Priority[t] = "NORMAL" ->
                            Become([off EXCEPT !.lists.normal = Append(@, t)])
                     [] Priority[t] = "LOW" ->
                            Become([off EXCEPT !.lists.low = Append(@, t)])
    /\ UNCHANGED <<now, tick, plain, alive>>

(* sw_timer_task.                                                          *)
Task ==
    /\ pc = "task" /\ pc' = "idle"
    /\ LET q == IF lists.normal # <<>> THEN "normal" ELSE "low" IN
       IF lists[q] = <<>> THEN UNCHANGED timers
       ELSE LET t == Head(lists[q])
                off == [Whole EXCEPT !.lists[q] = Tail(@)]
            IN  \E e \in Effects(t) : \E s \in {CalledBack(off, t, e)} :
                    (plain => e.op = "none") /\ Become(s)
    /\ UNCHANGED <<now, tick, plain, alive>>

(* External: time passes.  An iteration of the main loop takes MaxLag      *)
(* ticks at most.                                                          *)
Clock ==
    /\ pc # "boot" /\ (now + Ticks - tick) % Ticks < MaxLag
    /\ now' = Plus(now, 1)
    /\ UNCHANGED <<tick, pc, timers, plain, alive>>

(* External: the callbacks leave the timers alone from now on.             *)
Plain ==
    /\ pc # "boot" /\ ~plain /\ plain' = TRUE
    /\ alive' = {t \in Timers : active[t] /\ Repeat[t] = 0}
    /\ UNCHANGED <<now, tick, pc, timers>>

Boot == \E t \in Timers : TaskInit(t)
Loop == TickCall \/ Drain \/ Task
TimerNext == Boot \/ Loop \/ Clock \/ Plain
(* The main loop runs and so does the clock.                               *)
TimerFairness ==
    WF_timerVars(Boot) /\ WF_timerVars(Loop) /\ WF_timerVars(Clock)
TimerSpec == TimerInit /\ [][TimerNext]_timerVars /\ TimerFairness

-----------------------------------------------------------------------------
(* Type invariant of the timers.                                           *)
TimerTypeOK ==
    /\ {now, tick} \subseteq 0 .. Ticks - 1 /\ pc \in {"boot", "idle", "drain", "task"}
    /\ \A q \in Queues : lists[q] \in Seq(Timers)
    /\ target \in [Timers -> 0 .. Ticks - 1] /\ active \in [Timers -> BOOLEAN]
    /\ \A t \in Timers : {left[t], fired[t]} \subseteq 0 .. Repeat[t]
    /\ plain \in BOOLEAN /\ alive \subseteq Timers

In(q, t) == {i \in 1 .. Len(lists[q]) : lists[q][i] = t}

(* A timer is in exactly one list, once, while it is active, and in none   *)
(* after it was stopped or has fired its last: whatever the callbacks stop *)
(* and start, including the timer being called back and timers that are    *)
(* queued, no timer is lost and none comes back.                           *)
InOneList ==
    \A t \in Timers :
        Cardinality(In("active", t)) + Cardinality(In("normal", t))
            + Cardinality(In("low", t)) = IF active[t] THEN 1 ELSE 0

(* A timer with a repeat count fires that often, if nobody stops it.       *)
CountIsKept ==
    \A t \in Timers : Repeat[t] # 0 =>
        fired[t] <= Repeat[t] /\ (active[t] => fired[t] + left[t] = Repeat[t])

(* When the head of the list is not due, nobody in it is (sw_timer.c:94).  *)
HeadTellsAll == pc = "task" => \A t \in ToSet(lists.active) : ~Due(t)
(* What the code keeps of it: a due timer stays behind only while the list *)
(* holds a target on the other side of the wrap of the clock, where the    *)
(* unsigned order and the sign of the difference disagree.                 *)
HiddenOnlyAtWrap ==
    HeadTellsAll \/ \E u \in ToSet(lists.active) :
                        After(target[u], tick) # (target[u] > tick)

(* No timer is lost, doubled or passed over: all of the above.             *)
TimersKept == InOneList /\ CountIsKept /\ HiddenOnlyAtWrap

(* Every timer without end fires again and again, across the wrap of the   *)
(* clock: its target keeps moving round the clock.                         *)
Forward(t) == t \in alive => 2 * target[t] < Ticks
Backward(t) == t \in alive => 2 * target[t] >= Ticks
FiresForever == \A t \in Timers : []<>Forward(t) /\ []<>Backward(t)
=============================================================================
