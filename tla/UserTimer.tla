----------------------------- MODULE UserTimer -----------------------------
(***************************************************************************)
(* User timers (src/luaw_timer.c, lib/luaw_timer.lua): start, wait, stop   *)
(* and delete by Lua threads, the timeout callback of libuv, and the       *)
(* garbage collector.  stop and delete resume the waiting thread nested in *)
(* the call, before the call is through with the timer.                    *)
(***************************************************************************)
EXTENDS Threads

CONSTANT Timers   \* luaw_timer_t allocations; each is calloc-ed at most once

ASSUME TimerAssumption == NoTid \notin Tids /\ Nothing \notin Timers

VARIABLES
  timer,      \* Timers -> luaw_timer_t
  held,       \* Timers -> the threads that can reach the Lua userdata
  scheduler,  \* the application has defined the global `scheduler'
  reentered   \* history: a timer was used while a stop of it was under way

vars == <<timer, wait, registry, current, stack, held, scheduler, reentered>>

\* uv is the state of the timer handle: "active" while it ticks, "closing"
\* after uv_close, "closed" once free_user_timer ran.
luaw_timer_t ==
  [ mem       : {"none", "live", "freed"},
    lua_ref   : BOOLEAN,
    ref_count : Int,
    state     : {"INIT", "TICKING", "ELAPSED"},
    lua_tid   : OptTid,
    uv        : {"idle", "active", "closing", "closed"} ]

Unallocated ==
  [ mem |-> "none", lua_ref |-> FALSE, ref_count |-> 0,
    state |-> "INIT", lua_tid |-> NoTid, uv |-> "closed" ]

\* Mutation: the handle's reference is not counted.
new_timer_1_ref ==
  [ mem |-> "live", lua_ref |-> TRUE, ref_count |-> 1,
    state |-> "INIT", lua_tid |-> NoTid, uv |-> "idle" ]

\* One reference for the Lua userdata and one for the uv handle.
new_timer ==
  [ mem |-> "live", lua_ref |-> TRUE, ref_count |-> 2,
    state |-> "INIT", lua_tid |-> NoTid, uv |-> "idle" ]

clear_user_timer(r) == [r EXCEPT !.state = "INIT", !.lua_tid = NoTid]

uv_timer_stop(r) == [r EXCEPT !.uv = IF @ = "active" THEN "idle" ELSE @]

\* Mutation: the object is freed one reference too late.
GC_REF_late(r) ==
  [r EXCEPT !.ref_count = @ - 1,
            !.mem = IF r.ref_count - 1 < 0 THEN "freed" ELSE @]

GC_REF(r) ==
  [r EXCEPT !.ref_count = @ - 1,
            !.mem = IF r.ref_count - 1 <= 0 THEN "freed" ELSE @]

delink(r) == [r EXCEPT !.lua_ref = FALSE, !.ref_count = @ - 1, !.lua_tid = NoTid]

close_if_active(r) ==
  [r EXCEPT !.uv = IF @ \in {"closing", "closed"} THEN @ ELSE "closing"]

Doing == {"free", "running", "timer", "event"}
Frame == ({"thread"} \X Tids) \cup ({"close_timer", "stop"} \X Timers)

Idle == stack = <<>>

-----------------------------------------------------------------------------
(* libuv callbacks *)

\* Mutation: the waiting thread is only noted as elapsed, not resumed.
on_user_timer_timeout_unwaited(x) ==
  /\ Idle /\ timer[x].uv = "active"
  /\ timer' = [timer EXCEPT ![x].uv = "idle", ![x].state = "ELAPSED"]
  /\ UNCHANGED <<wait, registry, current, stack, held, scheduler, reentered>>

\* The one-shot timer fires: libuv has stopped it before the callback.
on_user_timer_timeout(x) ==
  /\ Idle /\ timer[x].uv = "active"
  /\ LET r == [timer[x] EXCEPT !.uv = "idle"]
     IN  IF r.lua_tid = NoTid
         THEN /\ timer' = [timer EXCEPT ![x] = [r EXCEPT !.state = "ELAPSED"]]
              /\ UNCHANGED <<wait, registry, current, stack>>
         ELSE /\ timer' = [timer EXCEPT ![x] = clear_user_timer(r)]
              /\ resume_lua_thread(r.lua_tid, <<>>)
  /\ UNCHANGED <<held, scheduler, reentered>>

\* The close callback.
free_user_timer(x) ==
  /\ Idle /\ timer[x].uv = "closing"
  /\ timer' = [timer EXCEPT ![x] = GC_REF([@ EXCEPT !.uv = "closed"])]
  /\ UNCHANGED <<wait, registry, current, stack, held, scheduler, reentered>>

\* A request arrives and its thread starts.
start_thread(t) ==
  /\ Idle
  /\ wait[t][1] = "free" /\ t \notin registry
  /\ registry' = registry \cup {t}
  /\ Run(t, <<>>)
  /\ UNCHANGED <<timer, held, scheduler, reentered>>

\* Any other event a thread waits for.
on_event(t) ==
  /\ Idle /\ wait[t][1] = "event"
  /\ resume_lua_thread(t, <<>>)
  /\ UNCHANGED <<timer, held, scheduler, reentered>>

-----------------------------------------------------------------------------
(* Calls of a running thread *)

\* Thread t calls a method of timer x.  On a deleted timer it gets an error,
\* which changes nothing.
Uses(t, x) ==
  /\ Executes(t) /\ t \in held[x] /\ timer[x].lua_ref
  /\ reentered' = (reentered \/ InSeq(<<"stop", x>>, stack))

new_user_timer(t, x) ==
  /\ Executes(t)
  /\ timer[x].mem = "none"
  /\ timer' = [timer EXCEPT ![x] = new_timer]
  /\ held' = [held EXCEPT ![x] = {t}]
  /\ UNCHANGED <<wait, registry, current, stack, scheduler, reentered>>

\* timer:start with a positive timeout; on any timer that is not INIT it
\* returns an error.  uv_timer_start cannot fail on a handle that is open.
start_user_timer(t, x) ==
  /\ Uses(t, x)
  /\ timer[x].state = "INIT"
  /\ timer' = [timer EXCEPT ![x].state = "TICKING", ![x].uv = "active"]
  /\ UNCHANGED <<wait, registry, current, stack, held, scheduler>>

\* timer:wait on a timer that has elapsed returns at once.
wait_elapsed(t, x) ==
  /\ Uses(t, x) /\ scheduler
  /\ timer[x].state = "ELAPSED"
  /\ timer' = [timer EXCEPT ![x] = clear_user_timer(@)]
  /\ UNCHANGED <<wait, registry, current, stack, held, scheduler>>

\* Mutation: a second thread may wait on the timer.
wait_user_timer_shared(t, x) ==
  /\ Uses(t, x) /\ scheduler
  /\ timer[x].state = "TICKING"
  /\ current # NoTid
  /\ timer' = [timer EXCEPT ![x].lua_tid = current]
  /\ Yield(t, "timer", x)
  /\ UNCHANGED <<registry, held, scheduler>>

\* timer:wait on a ticking timer that no other thread waits on.  Otherwise,
\* and without a current tid, wait returns an error.
wait_user_timer(t, x) ==
  /\ Uses(t, x) /\ scheduler
  /\ timer[x].state = "TICKING"
  /\ timer[x].lua_tid = NoTid
  /\ current # NoTid
  /\ timer' = [timer EXCEPT ![x].lua_tid = current]
  /\ Yield(t, "timer", x)
  /\ UNCHANGED <<registry, held, scheduler>>

\* The thread's function returns or raises.
finish(t) ==
  /\ Executes(t)
  /\ Yield(t, "free", Nothing)
  /\ registry' = registry \ {t}
  /\ held' = [x \in Timers |-> held[x] \ {t}]
  /\ UNCHANGED <<timer, scheduler, reentered>>

\* luaw_timer.lua indexes the global `scheduler', which nothing in Luaw
\* defines: until the application does, wait raises an error.
wait_raises(t, x) == ~scheduler /\ t \in held[x] /\ finish(t)

\* The application assigns the global, e.g. scheduler = require(...).
define_scheduler(t) ==
  /\ Executes(t) /\ ~scheduler
  /\ scheduler' = TRUE
  /\ UNCHANGED <<timer, wait, registry, current, stack, held, reentered>>

\* timer:stop up to the return of the thread it resumes.  A timer that is
\* not ticking, an elapsed one too, is left as it is.
stop_user_timer(t, x) ==
  /\ Uses(t, x)
  /\ timer[x].state = "TICKING"
  /\ resume_lua_thread(timer[x].lua_tid, <<<<"stop", x>>>> \o stack)
  /\ UNCHANGED <<timer, held, scheduler>>

\* The end of stop: clear the timer, then uv_timer_stop.
stop_return(x) ==
  /\ stack # <<>> /\ Head(stack) = <<"stop", x>>
  /\ timer' = [timer EXCEPT ![x] = uv_timer_stop(clear_user_timer(@))]
  /\ stack' = Tail(stack)
  /\ UNCHANGED <<wait, registry, current, held, scheduler, reentered>>

\* close_timer: delink the userdata and resume the waiting thread; the frame
\* stands for the close_if_active at its end.
close_timer(x) ==
  /\ timer' = [timer EXCEPT ![x] = delink(@)]
  /\ resume_lua_thread(timer[x].lua_tid, <<<<"close_timer", x>>>> \o stack)

close_timer_return(x) ==
  /\ stack # <<>> /\ Head(stack) = <<"close_timer", x>>
  /\ timer' = [timer EXCEPT ![x] = close_if_active(@)]
  /\ stack' = Tail(stack)
  /\ UNCHANGED <<wait, registry, current, held, scheduler, reentered>>

\* timer:delete.
close_timer_lua(t, x) ==
  /\ Uses(t, x)
  /\ close_timer(x)
  /\ UNCHANGED <<held, scheduler>>

\* The collector may run whenever Lua allocates.
timer_gc(x) ==
  /\ timer[x].lua_ref /\ held[x] = {}
  /\ close_timer(x)
  /\ UNCHANGED <<held, scheduler, reentered>>

\* A wait for something that is not a timer.
block(t) ==
  /\ Executes(t)
  /\ Yield(t, "event", Nothing)
  /\ UNCHANGED <<timer, registry, held, scheduler, reentered>>

\* Lua code hands a timer to another thread, or forgets it.
share(t, u, x) ==
  /\ Executes(t) /\ t \in held[x]
  /\ wait[u][1] # "free" /\ u \notin held[x]
  /\ held' = [held EXCEPT ![x] = @ \cup {u}]
  /\ UNCHANGED <<timer, wait, registry, current, stack, scheduler, reentered>>

forget(t, x) ==
  /\ Executes(t) /\ t \in held[x]
  /\ held' = [held EXCEPT ![x] = @ \ {t}]
  /\ UNCHANGED <<timer, wait, registry, current, stack, scheduler, reentered>>

-----------------------------------------------------------------------------
Init ==
  /\ timer = [x \in Timers |-> Unallocated]
  /\ wait = [t \in Tids |-> <<"free", Nothing>>]
  /\ registry = {}
  /\ current = NoTid
  /\ stack = <<>>
  /\ held = [x \in Timers |-> {}]
  /\ scheduler = FALSE
  /\ reentered = FALSE

LoopStep(x) ==
  on_user_timer_timeout(x) \/ free_user_timer(x) \/ timer_gc(x)

ControlStep == \E x \in Timers : stop_return(x) \/ close_timer_return(x)

CallStep(t, x) ==
  \/ new_user_timer(t, x)
  \/ start_user_timer(t, x)
  \/ wait_elapsed(t, x)
  \/ wait_user_timer(t, x)
  \/ wait_raises(t, x)
  \/ stop_user_timer(t, x)
  \/ close_timer_lua(t, x)
  \/ \E u \in Tids : share(t, u, x)
  \/ forget(t, x)

ThreadStep(t) ==
  start_thread(t) \/ on_event(t) \/ define_scheduler(t) \/ block(t) \/ finish(t)

Next ==
  \/ \E x \in Timers : LoopStep(x)
  \/ ControlStep
  \/ \E t \in Tids : ThreadStep(t) \/ \E x \in Timers : CallStep(t, x)

Spec == Init /\ [][Next]_vars

\* Thread t gives up control.
Yields(t) == finish(t) \/ block(t) \/ \E x \in Timers : wait_user_timer(t, x)

\* The loop runs every due timer and finishes every close, a C call returns,
\* and Lua code does not run for ever: it ends or blocks.
Fairness ==
  /\ WF_vars(ControlStep)
  /\ \A t \in Tids : SF_vars(Yields(t))
  /\ \A x \in Timers : SF_vars(on_user_timer_timeout(x)) /\ SF_vars(free_user_timer(x))

FairSpec == Spec /\ Fairness

-----------------------------------------------------------------------------
(* Properties *)

\* Every field, frame and thread state has its type.
TypeOK ==
  /\ timer \in [Timers -> luaw_timer_t]
  /\ wait \in [Tids -> Doing \X (Timers \cup {Nothing})]
  /\ registry \in SUBSET Tids
  /\ current \in OptTid
  /\ stack \in Seq(Frame)
  /\ held \in [Timers -> SUBSET Tids]
  /\ scheduler \in BOOLEAN
  /\ reentered \in BOOLEAN

Count(b) == IF b THEN 1 ELSE 0

\* What may still reach a luaw_timer_t: the userdata, and the handle until
\* its close callback has run.
Refs(r) == Count(r.lua_ref) + Count(r.uv # "closed")

\* ref_count is the number of pointers to a timer, and a timer that a pending
\* stop or close_timer will still write to is not freed, whatever the thread
\* it resumed does with it (new_user_timer, close_timer, free_user_timer).
TimerMemorySafe ==
  \A x \in Timers :
    /\ timer[x].mem = "live" => timer[x].ref_count = Refs(timer[x]) /\ Refs(timer[x]) > 0
    /\ timer[x].mem # "live" => Refs(timer[x]) = 0
    /\ InSeq(<<"stop", x>>, stack) \/ InSeq(<<"close_timer", x>>, stack)
         => timer[x].mem = "live"

\* The state start and wait test agrees with the libuv handle: an open timer
\* is TICKING exactly while its handle will still fire.
TickingMeansActive ==
  \A x \in Timers :
    timer[x].lua_ref => (timer[x].state = "TICKING" <=> timer[x].uv = "active")

\* As long as no thread uses a timer that is just being stopped, no thread is
\* cut off: one that has not ended is registered, so that events find it, and
\* one blocked in wait is named by its timer, which still ticks.
WaiterWillBeResumed ==
  ~reentered =>
    \A t \in Tids : LET x == wait[t][2] IN
      /\ wait[t][1] # "free" => t \in registry
      /\ wait[t][1] = "timer" => timer[x].lua_tid = t /\ timer[x].uv = "active"

\* As long as no thread uses a timer that is just being stopped, a timer names
\* only the thread that waits on it; so neither the timeout nor delete resumes
\* a thread that has moved on.
TidNamesWaiter ==
  ~reentered =>
    \A x \in Timers : LET t == timer[x].lua_tid IN
      t # NoTid => wait[t] = <<"timer", x>> \/ InSeq(<<"stop", x>>, stack)

\* A thread does not wait for ever: its timer fires or is stopped or deleted.
WaitEnds ==
  \A t \in Tids, x \in Timers :
    (wait[t] = <<"timer", x>>) ~> (wait[t] # <<"timer", x>> \/ reentered)

\* A deleted or collected timer is freed in the end.
TimerFreed ==
  \A x \in Timers :
    (timer[x].mem = "live" /\ ~timer[x].lua_ref) ~> (timer[x].mem = "freed")

=============================================================================
