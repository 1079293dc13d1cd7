----------------------------- MODULE Scheduler -----------------------------
(***************************************************************************)
(* The thread scheduler (lib/luaw_scheduler.lua): thread contexts, the     *)
(* registry that gives them their ids, the pool of coroutines, the run     *)
(* queue and join, driven by libuv callbacks (resumeThreadId), by the      *)
(* prepare callback of src/luaw_server.c (runReadyThreads) and by the      *)
(* calls threads make.                                                     *)
(*                                                                         *)
(* luaw_scheduler.lua reads its state constants from luaw_constants.lua    *)
(* under names that module does not export, so every one of them is nil,   *)
(* and luaw_tcp.lua, luaw_timer.lua and the ring buffers yield nil too.    *)
(* join tests a misspelled variable, also nil, and skips its body, so that *)
(* no context ever has a joinedBy or a joinCount.                          *)
(***************************************************************************)
EXTENDS Integers, Sequences, FiniteSets

CONSTANTS
  Ctxs,          \* thread contexts; each is made at most once
  Coros,         \* coroutines; one that nothing refers to may be made anew
  Nil,
  MaxRef,        \* bound: slots of the thread registry
  PoolSize,      \* thread_pool_size
  ReuseLimit,    \* thread_reuse_limit
  Nested,        \* TRUE: running threads cause resumes of others
  StaleWakes     \* TRUE: an event may resume a tid more than once

ASSUME SchedulerAssumption ==
  /\ Nil \notin Ctxs \cup Coros \cup Int
  /\ (Ctxs \cup Coros) \cap Int = {}
  /\ IsFiniteSet(Ctxs)
  /\ MaxRef \in Nat /\ PoolSize \in Nat /\ ReuseLimit \in Nat

INSTANCE DataStructs WITH Objs <- Ctxs \cup Coros, Size <- PoolSize

\* constants.RUNNABLE and its like are fields luaw_constants.lua does not have.
TS_RUNNABLE == Nil
TS_DONE == Nil
TS_BLOCKED_EVENT == Nil
TS_BLOCKED_THREAD == Nil

VARIABLES
  s,         \* the scheduler's state
  calls,     \* Coros -> calls completed in threadRunLoop
  at,        \* Ctxs -> where the thread is, or will go on when resumed
  stack,     \* <<context, coroutine>> of the resumeThread calls, innermost first
  batch,     \* turns left in runReadyThreads
  stopped,   \* uv_stop was called
  armed,     \* tids that some pending event will resume
  stale,     \* history: some event has resumed its tid and will do so again
  users,     \* the contexts that startUserThread has returned
  joining,   \* Ctxs -> history: the threads passed to the join it is in
  waiting    \* history: the threads queued and not yet taken from the queue

vars == <<s, calls, at, stack, batch, stopped, armed, stale, users, joining, waiting>>

threadCtx ==
  [ tid : Slots \cup {Nil}, thread : Coros \cup {Nil},
    state : {Nil}, nextThread : Ctxs \cup {Nil} ]

NoCtx == [tid |-> Nil, thread |-> Nil, state |-> Nil, nextThread |-> Nil]

Where == {"new", "start", "run", "event", "yield", "join", "over"}

-----------------------------------------------------------------------------
(* The scheduler's functions, on its state *)

addToRunQueue(q, c) ==
  [q EXCEPT !.head = IF q.tail = Nil THEN c ELSE @,
            !.tail = c,
            !.len = @ + 1,
            !.ctx = [(IF q.tail = Nil THEN q.ctx
                      ELSE [q.ctx EXCEPT ![q.tail].nextThread = c])
                       EXCEPT ![c].state = TS_RUNNABLE]]

\* Mutation: the current thread is not reset after a resume.
afterResume_keep_current(q, c, state) == [q EXCEPT !.ctx[c].state = state]

afterResume(q, c, state) == [q EXCEPT !.ctx[c].state = state, !.current = Nil]

\* Mutation: the id of a finished thread is not given back.
endOfThread_keep_tid(q, c, k, pooled) ==
  LET p == [q EXCEPT !.ctx[c].thread = Nil,
                     !.pool = IF pooled /\ CanOffer(@) THEN offer(@, k) ELSE @]
  IN  afterResume(p, c, TS_DONE)

\* resumeThread once the coroutine k of context c is through with its call.
\* unblockJoinedThreadIfAny finds no joinedBy.
endOfThread(q, c, k, pooled) ==
  LET p == [q EXCEPT !.registry = unref(@, q.ctx[c].tid),
                     !.ctx[c].thread = Nil,
                     !.pool = IF pooled /\ CanOffer(@) THEN offer(@, k) ELSE @]
  IN  afterResume(p, c, TS_DONE)

\* resumeThread once the coroutine yielded `state': as all constants are nil, a
\* thread that yields nil counts as blocked.
yielded(q, c, state) ==
  IF state \in {TS_BLOCKED_EVENT, TS_BLOCKED_THREAD}
  THEN afterResume(q, c, state)
  ELSE afterResume(addToRunQueue(q, c), c, TS_RUNNABLE)

OnStack(k) == \E i \in 1 .. Len(stack) : stack[i][2] = k

\* newThread: a coroutine from the pool, else one that nothing refers to, in
\* a new context.  Which of the unused names a new object gets is immaterial.
Unused == {k \in Coros : ~OnStack(k) /\ \A c \in Ctxs : s.ctx[c].thread # k}

NewCoroutine == IF CanTake(s.pool) THEN taken(s.pool) ELSE CHOOSE k \in Unused : TRUE

\* Bound: Coros has a name for the coroutine; always so if Coros has as many
\* members as Ctxs.
CanCreate == CanTake(s.pool) \/ Unused # {}

NewContext(c) == at[c] = "new" /\ c = CHOOSE d \in Ctxs : at[d] = "new"

\* Mutation: the coroutine is used without being taken out of the pool.
newThread_peek(c, k, r) ==
  [s EXCEPT !.registry = ref(@, c, r),
            !.ctx[c] = [NoCtx EXCEPT !.tid = r, !.thread = k]]

newThread(c, k, r) ==
  [s EXCEPT !.pool = IF CanTake(@) THEN take(@) ELSE @,
            !.registry = ref(@, c, r),
            !.ctx[c] = [NoCtx EXCEPT !.tid = r, !.thread = k]]

NewCalls(k) == IF CanTake(s.pool) THEN calls ELSE [calls EXCEPT ![k] = 0]

-----------------------------------------------------------------------------
(* resumeThread up to the point where the coroutine runs *)

\* q is the scheduler's state when resumeThread(c) is called.
Fails(q, c) == q.ctx[c].thread = Nil

resumeThread(q, c, from) ==
  LET k == q.ctx[c].thread
  IN  \/ /\ Fails(q, c)          \* coroutine.resume(nil) raises an error
         /\ s' = [q EXCEPT !.current = c]
         /\ at' = from
         /\ UNCHANGED stack
      \/ /\ k # Nil /\ OnStack(k)  \* it returns false: the thread is running
         /\ s' = endOfThread(q, c, Nil, FALSE)
         /\ at' = from
         /\ UNCHANGED stack
      \/ /\ k # Nil /\ ~OnStack(k)
         /\ s' = [q EXCEPT !.current = c]
         /\ stack' = <<<<c, k>>>> \o stack
         /\ at' = [from EXCEPT ![c] = IF @ = "join" THEN "join" ELSE "run"]

Idle == stack = <<>> /\ batch = 0 /\ ~stopped

\* Thread c runs Lua code on coroutine k.
Runs(c, k) == stack # <<>> /\ Head(stack) = <<c, k>> /\ at[c] = "run"

\* resumeThreadId, called by a libuv callback, or by a call of a running
\* thread that wakes another one (closing a connection, stopping a timer).
\* A tid that is not in use raises an error that resume_lua_thread catches;
\* if its slot holds a free-list link, that number becomes the current
\* thread, which has no tid.
resumeThreadId(tid) ==
  /\ tid \in armed
  /\ Idle \/ (Nested /\ \E c \in Ctxs, k \in Coros : Runs(c, k))
  /\ \/ armed' = armed \ {tid} /\ UNCHANGED stale
     \/ StaleWakes /\ stale' = TRUE /\ UNCHANGED armed
  /\ LET c == s.registry.slot[tid]
     IN  IF c \in Ctxs THEN resumeThread(s, c, at)
         ELSE /\ s' = IF c = Nil THEN s ELSE [s EXCEPT !.current = Nil]
              /\ UNCHANGED <<at, stack>>
  /\ UNCHANGED <<calls, batch, stopped, users, joining, waiting>>

\* on_server_connect starts a thread for the new connection.
startSystemThread(c) ==
  /\ Idle /\ NewContext(c) /\ CanCreate
  /\ \E r \in NextRefs(s.registry) :
       /\ calls' = NewCalls(NewCoroutine)
       /\ resumeThread([newThread(c, NewCoroutine, r) EXCEPT !.ctx[c].state = TS_RUNNABLE], c, at)
  /\ UNCHANGED <<batch, stopped, armed, stale, users, joining, waiting>>

-----------------------------------------------------------------------------
(* What a running thread does *)

\* The coroutine runs userThreadRunner up to its first yield at once.
startUserThread(c, k, d) ==
  /\ Runs(c, k) /\ NewContext(d) /\ CanCreate
  /\ \E r \in NextRefs(s.registry) :
       /\ calls' = NewCalls(NewCoroutine)
       /\ s' = addToRunQueue(newThread(d, NewCoroutine, r), d)
  /\ at' = [at EXCEPT ![d] = "start"]
  /\ users' = users \cup {d}
  /\ waiting' = Append(waiting, d)
  /\ UNCHANGED <<stack, batch, stopped, armed, stale, joining>>

\* A read, write, connect or timer wait: the event that will end it is given
\* scheduler.tid(); without one the call fails and does not block.
blockOnEvent(c, k) ==
  /\ Runs(c, k)
  /\ s.current # Nil
  /\ armed' = armed \cup {s.ctx[s.current].tid}
  /\ s' = yielded(s, c, TS_BLOCKED_EVENT)
  /\ at' = [at EXCEPT ![c] = "event"]
  /\ stack' = Tail(stack)
  /\ UNCHANGED <<calls, batch, stopped, stale, users, joining, waiting>>

\* coroutine.yield() without a state, as in offerWithWait.
yield(c, k) ==
  /\ Runs(c, k)
  /\ s' = yielded(s, c, Nil)
  /\ at' = [at EXCEPT ![c] = "yield"]
  /\ stack' = Tail(stack)
  /\ UNCHANGED <<calls, batch, stopped, armed, stale, users, joining, waiting>>

\* join: the test of `joininTC' finds nil, its body is skipped and it returns
\* at once, whatever its arguments are.
join(c, k, ds) ==
  /\ Runs(c, k)
  /\ ds # {} /\ ds \subseteq users
  /\ at' = [at EXCEPT ![c] = "join"]
  /\ joining' = [joining EXCEPT ![c] = ds]
  /\ UNCHANGED <<s, calls, stack, batch, stopped, armed, stale, users, waiting>>

joinReturns(c, k) ==
  /\ stack # <<>> /\ Head(stack) = <<c, k>> /\ at[c] = "join"
  /\ at' = [at EXCEPT ![c] = "run"]
  /\ joining' = [joining EXCEPT ![c] = {}]
  /\ UNCHANGED <<s, calls, stack, batch, stopped, armed, stale, users, waiting>>

\* threadRunLoop yields END_OF_CALL and stays alive, else it ends.
threadRunLoop(k) == calls[k] <= ReuseLimit

\* The thread's function returns.
return(c, k) ==
  /\ Runs(c, k)
  /\ calls' = [calls EXCEPT ![k] = IF threadRunLoop(k) THEN @ + 1 ELSE @]
  /\ s' = endOfThread(s, c, k, threadRunLoop(k))
  /\ at' = [at EXCEPT ![c] = "over"]
  /\ stack' = Tail(stack)
  /\ UNCHANGED <<batch, stopped, armed, stale, users, joining, waiting>>

\* The thread's function raises an error: the coroutine is dead.
raise(c, k) ==
  /\ Runs(c, k)
  /\ s' = endOfThread(s, c, Nil, FALSE)
  /\ at' = [at EXCEPT ![c] = "over"]
  /\ stack' = Tail(stack)
  /\ UNCHANGED <<calls, batch, stopped, armed, stale, users, joining, waiting>>

-----------------------------------------------------------------------------
(* The bottom half: src/luaw_server.c calls runReadyThreads before it polls *)

runReadyThreads ==
  /\ Idle /\ s.len > 0
  /\ batch' = s.len
  /\ UNCHANGED <<s, calls, at, stack, stopped, armed, stale, users, joining, waiting>>

\* Mutation: the queue's tail is not reset with the last entry.
Dequeue_keep_tail(q) ==
  LET c == q.head
  IN  [q EXCEPT !.head = q.ctx[c].nextThread,
                !.ctx[c].nextThread = Nil,
                !.len = IF @ - 1 < 0 THEN 0 ELSE @ - 1]

Dequeue(q) ==
  LET c == q.head
  IN  [q EXCEPT !.head = q.ctx[c].nextThread,
                !.tail = IF q.ctx[c].nextThread = Nil THEN Nil ELSE @,
                !.ctx[c].nextThread = Nil,
                !.len = IF @ - 1 < 0 THEN 0 ELSE @ - 1]

\* runNextFromRunQueue takes the first thread and drops it if its state is
\* TS_DONE.  An error of resumeThread would end runReadyThreads and make
\* run_user_threads stop the loop.
runNextFromRunQueue ==
  /\ stack = <<>> /\ batch > 0
  /\ IF s.head = Nil
     THEN /\ batch' = batch - 1
          /\ UNCHANGED <<s, at, stack, stopped, waiting>>
     ELSE /\ waiting' = Tail(waiting)
          /\ IF s.ctx[s.head].state = TS_DONE
             THEN /\ s' = Dequeue(s)
                  /\ batch' = batch - 1
                  /\ UNCHANGED <<at, stack, stopped>>
             ELSE /\ resumeThread(Dequeue(s), s.head, at)
                  /\ stopped' = Fails(s, s.head)
                  /\ batch' = IF Fails(s, s.head) THEN 0 ELSE batch - 1
  /\ UNCHANGED <<calls, armed, stale, users, joining>>

-----------------------------------------------------------------------------
Init ==
  /\ s = [registry |-> newRegistry, pool |-> newRingBuffer,
          ctx |-> [c \in Ctxs |-> NoCtx],
          head |-> Nil, tail |-> Nil, len |-> 0, current |-> Nil]
  /\ calls = [k \in Coros |-> 0]
  /\ at = [c \in Ctxs |-> "new"]
  /\ stack = <<>>
  /\ batch = 0
  /\ stopped = FALSE
  /\ armed = {}
  /\ stale = FALSE
  /\ users = {}
  /\ joining = [c \in Ctxs |-> {}]
  /\ waiting = <<>>

RunStep(c, k) ==
  \/ \E d \in Ctxs : startUserThread(c, k, d)
  \/ blockOnEvent(c, k)
  \/ yield(c, k)
  \/ \E ds \in SUBSET (Ctxs \ {c}) : join(c, k, ds)
  \/ joinReturns(c, k)
  \/ return(c, k)
  \/ raise(c, k)

Next ==
  \/ \E tid \in Slots : resumeThreadId(tid)
  \/ \E c \in Ctxs : startSystemThread(c)
  \/ \E c \in Ctxs, k \in Coros : RunStep(c, k)
  \/ runReadyThreads
  \/ runNextFromRunQueue

Spec == Init /\ [][Next]_vars

\* The loop calls the bottom half in every turn and the bottom half runs its
\* turns; pending events happen; a running thread goes on, and it ends or
\* blocks instead of running for ever.
Fairness ==
  /\ WF_vars(runReadyThreads)
  /\ WF_vars(runNextFromRunQueue)
  /\ \A tid \in Slots : SF_vars(resumeThreadId(tid))
  /\ WF_vars(\E c \in Ctxs, k \in Coros : joinReturns(c, k))
  /\ \A c \in Ctxs : SF_vars(\E k \in Coros : return(c, k))

FairSpec == Spec /\ Fairness

-----------------------------------------------------------------------------
(* Properties *)

\* The scheduler's state has its type, the registry as long as every event
\* resumes its tid once.
TypeOK ==
  /\ stale \/ s.registry \in Registry
  /\ s.pool \in RingBuffer
  /\ s.ctx \in [Ctxs -> threadCtx]
  /\ {s.head, s.tail, s.current} \subseteq Ctxs \cup {Nil}
  /\ s.len \in Nat
  /\ calls \in [Coros -> 0 .. ReuseLimit + 1]
  /\ at \in [Ctxs -> Where]
  /\ stack \in Seq(Ctxs \X Coros)
  /\ batch \in Nat /\ stopped \in BOOLEAN
  /\ armed \subseteq Slots

\* The thread's function has not ended.
Live(c) == s.ctx[c].thread # Nil

\* A thread that has not ended is found in the registry under its own tid,
\* which keeps it from being collected and lets events find it; and the
\* registry holds no thread that has ended.  This needs events that resume a
\* tid once: a second resume may find the thread running, or its tid reused.
Anchored ==
  ~stale =>
    \A c \in Ctxs : LET tid == s.ctx[c].tid IN
      /\ Live(c) => s.registry.slot[tid] = c
      /\ ~Live(c) => \A r \in Slots : s.registry.slot[r] # c

\* A coroutine serves one thread at a time: one in the pool is there once, is
\* not running and belongs to no live thread, and two live threads never have
\* the same one.
PoolSound ==
  /\ \A i, j \in 1 .. PoolSize : LET k == s.pool.slot[i] IN
       k # Nil => /\ ~OnStack(k)
                  /\ i # j => s.pool.slot[j] # k
                  /\ \A c \in Ctxs : s.ctx[c].thread # k
  /\ \A c, d \in Ctxs : Live(c) /\ c # d => s.ctx[c].thread # s.ctx[d].thread

\* The linked run queue is a first-in first-out queue: from runQueueHead on,
\* nextThread leads through exactly the threads that were queued and not yet
\* taken, in the order they were queued, to runQueueTail, and runQueueLen is
\* their number.  A context that has left the queue has no link into it.
QueueSound ==
  LET n == Len(waiting) IN
  /\ s.len = n
  /\ s.head = IF n = 0 THEN Nil ELSE waiting[1]
  /\ s.tail = IF n = 0 THEN Nil ELSE waiting[n]
  /\ \A i, j \in 1 .. n : waiting[i] = waiting[j] => i = j
  /\ \A i \in 1 .. n - 1 : s.ctx[waiting[i]].nextThread = waiting[i + 1]
  /\ \A c \in Ctxs : (\A i \in 1 .. n - 1 : waiting[i] # c) => s.ctx[c].nextThread = Nil

\* However resumes are nested, the event a thread blocks on has that thread's
\* own tid, and a pending event finds a thread that is blocked on it: no
\* wakeup is lost and none goes to a thread that waits for something else.
\* This needs events that resume a tid once.
EventsFindTheirThread ==
  ~stale =>
    /\ \A c \in Ctxs : at[c] = "event" => s.ctx[c].tid \in armed
    /\ \A tid \in armed : \E c \in Ctxs :
         s.registry.slot[tid] = c /\ s.ctx[c].tid = tid /\ at[c] = "event"

\* A thread that is blocked on an event is resumed by it.
EventResumes == \A c \in Ctxs : at[c] = "event" ~> at[c] # "event" \/ stale

\* join does not return before all threads passed to it have ended.
JoinWaits ==
  [][\A c \in Ctxs : at[c] = "join" /\ at'[c] = "run"
       => \A d \in joining[c] : ~Live(d)]_vars

\* A user thread that was started runs.
UserThreadsRun == \A c \in Ctxs : at[c] = "start" ~> at[c] # "start"
=============================================================================
