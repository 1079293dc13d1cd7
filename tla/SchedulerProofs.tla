-------------------------- MODULE SchedulerProofs --------------------------
(***************************************************************************)
(* The thread scheduler for every number of threads, coroutines, slots and *)
(* pool positions: whatever threads and events do a coroutine serves one   *)
(* thread at a time and the linked run queue is a first-in first-out       *)
(* queue; and as long as every event resumes its tid once, a thread that   *)
(* has not ended is registered under its own tid and every event finds the *)
(* thread that blocks on it.                                               *)
(***************************************************************************)
EXTENDS Scheduler, TLAPS

\* The facts about registries and ring buffers, for the scheduler's own.
Reg == INSTANCE RegistryProofs WITH
  Objs <- Ctxs \cup Coros, Size <- PoolSize, reg <- s.registry,
  out <- {<<s.ctx[c].tid, c>> : c \in {d \in Ctxs : Live(d)}}

Buf == INSTANCE RingBuffersProofs WITH
  Objs <- Ctxs \cup Coros, Size <- PoolSize, Threads <- {},
  kind <- "plain", rb <- s.pool, waits <- <<>>

-----------------------------------------------------------------------------
(* The inductive invariant.  Stale wake-ups may corrupt the registry: its   *)
(* free list may come to lead to a thread context.                          *)

Anything == Ctxs \cup Coros \cup Slots \cup {Nil}

AnyRegistry == [slot : [Slots -> Anything], head : Anything, size : Int]

State ==
  [ registry : AnyRegistry, pool : RingBuffer, ctx : [Ctxs -> threadCtx],
    head : Ctxs \cup {Nil}, tail : Ctxs \cup {Nil}, len : Nat,
    current : Ctxs \cup {Nil} ]

Types ==
  /\ s \in State
  /\ calls \in [Coros -> 0 .. ReuseLimit + 1]
  /\ at \in [Ctxs -> Where]
  /\ stack \in Seq(Ctxs \X Coros)
  /\ batch \in Nat /\ stopped \in BOOLEAN

\* The coroutine of each thread.
ThreadOf(q) == [c \in Ctxs |-> q.ctx[c].thread]

\* Who has a coroutine: pool b, the threads th, and the stack z of running
\* ones, where it runs for its own thread or for one that was ended meanwhile.
OneOwner(b, th, z) ==
  /\ Buf!Sound(b)
  /\ \A i \in 1 .. PoolSize : b.slot[i] \in Coros \cup {Nil}
  /\ \A i, j \in 1 .. PoolSize : b.slot[i] # Nil /\ i # j => b.slot[i] # b.slot[j]
  /\ \A i \in 1 .. PoolSize, c \in Ctxs : b.slot[i] # Nil => th[c] # b.slot[i]
  /\ \A i \in 1 .. PoolSize, j \in 1 .. Len(z) : b.slot[i] # z[j][2]
  /\ \A c, d \in Ctxs : th[c] # Nil /\ c # d => th[c] # th[d]
  /\ \A i, j \in 1 .. Len(z) : z[i][2] = z[j][2] => i = j
  /\ \A i \in 1 .. Len(z), c \in Ctxs : th[c] = z[i][2] => c = z[i][1]

PoolInv == Types /\ OneOwner(s.pool, ThreadOf(s), stack)

\* Registry g finds every thread that has not ended, in one slot.
Found(g, th, tids) ==
  \A c \in Ctxs :
    /\ th[c] # Nil => tids[c] \in Slots /\ \A r \in Slots : g.slot[r] = c <=> r = tids[c]
    /\ th[c] = Nil => \A r \in Slots : g.slot[r] # c

TidOf(q) == [c \in Ctxs |-> q.ctx[c].tid]

\* An armed tid (of wakes) is that of a suspended thread, the stack z holds only
\* threads that have not ended, and the current thread is on top of it.
Suspended(g, th, z, wakes, cur) ==
  /\ \A tid \in wakes : /\ tid \in Slots /\ g.slot[tid] \in Ctxs
                        /\ \A i \in 1 .. Len(z) : z[i][2] # th[g.slot[tid]]
  /\ \A i \in 1 .. Len(z) : th[z[i][1]] = z[i][2]
  /\ cur # Nil => z # <<>> /\ cur = Head(z)[1]

Anchors(g, th, tids, z, wakes, cur) ==
  /\ g \in Registry /\ Reg!HasFreeList(g)
  /\ Found(g, th, tids)
  /\ Suspended(g, th, z, wakes, cur)

AnchorInv ==
  ~stale => /\ Anchors(s.registry, ThreadOf(s), TidOf(s), stack, armed, s.current)
            /\ \A c \in Ctxs : at[c] = "new" => s.ctx[c].thread = Nil

-----------------------------------------------------------------------------
(* The scheduler's functions keep the types, and say little about owners *)

\* A context's state is nil, as all state constants are.
States == {Nil}

\* Thread contexts f and g agree on coroutines and ids.
SameThreads(f, g) ==
  \A d \in Ctxs : f[d].thread = g[d].thread /\ f[d].tid = g[d].tid

\* The state constants.
LEMMA StateNames ==
  {TS_RUNNABLE, TS_DONE, TS_BLOCKED_EVENT, TS_BLOCKED_THREAD} \subseteq States
BY DEF TS_RUNNABLE, TS_DONE, TS_BLOCKED_EVENT, TS_BLOCKED_THREAD, States

\* Changing one field of one context.
LEMMA CtxLemma ==
  ASSUME NEW f \in [Ctxs -> threadCtx], NEW c \in Ctxs
  PROVE  /\ \A v \in States : LET g == [f EXCEPT ![c].state = v]
              IN  g \in [Ctxs -> threadCtx] /\ SameThreads(g, f)
         /\ \A v \in Ctxs \cup {Nil} : LET g == [f EXCEPT ![c].nextThread = v]
              IN  g \in [Ctxs -> threadCtx] /\ SameThreads(g, f)
<1>1. f[c] \in threadCtx
  OBVIOUS
<1>2. ASSUME NEW r \in threadCtx, r.thread = f[c].thread, r.tid = f[c].tid
      PROVE  [f EXCEPT ![c] = r] \in [Ctxs -> threadCtx] /\ SameThreads([f EXCEPT ![c] = r], f)
  BY <1>2 DEF SameThreads
<1>3. ASSUME NEW v \in States
      PROVE  LET g == [f EXCEPT ![c].state = v]
             IN  g \in [Ctxs -> threadCtx] /\ SameThreads(g, f)
  <2>1. PICK r \in threadCtx : r = [f[c] EXCEPT !.state = v]
    BY <1>1 DEF threadCtx, States
  <2>2. r.thread = f[c].thread /\ r.tid = f[c].tid
    BY <1>1, <2>1 DEF threadCtx
  <2>3. [f EXCEPT ![c].state = v] = [f EXCEPT ![c] = r]
    BY <2>1
  <2> QED BY <1>2, <2>2, <2>3
<1>4. ASSUME NEW v \in Ctxs \cup {Nil}
      PROVE  LET g == [f EXCEPT ![c].nextThread = v]
             IN  g \in [Ctxs -> threadCtx] /\ SameThreads(g, f)
  <2>1. PICK r \in threadCtx : r = [f[c] EXCEPT !.nextThread = v]
    BY <1>1 DEF threadCtx
  <2>2. r.thread = f[c].thread /\ r.tid = f[c].tid
    BY <1>1, <2>1 DEF threadCtx
  <2>3. [f EXCEPT ![c].nextThread = v] = [f EXCEPT ![c] = r]
    BY <2>1
  <2> QED BY <1>2, <2>2, <2>3
<1> QED BY <1>3, <1>4

\* What the run queue leaves alone.
Keeps(p, q) ==
  /\ p.registry = q.registry /\ p.pool = q.pool /\ p.current = q.current
  /\ SameThreads(p.ctx, q.ctx)

LEMMA AddKeeps ==
  ASSUME NEW q \in State, NEW c \in Ctxs
  PROVE  addToRunQueue(q, c) \in State /\ Keeps(addToRunQueue(q, c), q)
<1>1. q.ctx \in [Ctxs -> threadCtx] /\ q.tail \in Ctxs \cup {Nil} /\ q.len \in Nat
  BY DEF State
<1>2. PICK f \in [Ctxs -> threadCtx] :
        /\ f = IF q.tail = Nil THEN q.ctx ELSE [q.ctx EXCEPT ![q.tail].nextThread = c]
        /\ SameThreads(f, q.ctx)
  <2>1. CASE q.tail = Nil
    BY <1>1, <2>1 DEF SameThreads
  <2>2. CASE q.tail # Nil
    BY <1>1, <2>2, CtxLemma
  <2> QED BY <2>1, <2>2
<1>3. PICK g \in [Ctxs -> threadCtx] : g = [f EXCEPT ![c].state = TS_RUNNABLE] /\ SameThreads(g, f)
  BY CtxLemma, StateNames
<1>4. PICK h \in Ctxs \cup {Nil} : h = IF q.tail = Nil THEN c ELSE q.head
  BY DEF State
<1>5. PICK n \in Nat : n = q.len + 1
  BY <1>1
<1> DEFINE p == [q EXCEPT !.head = h, !.tail = c, !.len = n, !.ctx = g]
<1>6. addToRunQueue(q, c) = p
  BY <1>2, <1>3, <1>4, <1>5 DEF addToRunQueue
<1>7. /\ p \in State /\ p.registry = q.registry /\ p.pool = q.pool
      /\ p.current = q.current /\ p.ctx = g
  BY DEF State
<1> HIDE DEF p
<1>8. SameThreads(g, q.ctx)
  <2>1. SameThreads(f, q.ctx) /\ SameThreads(g, f)
    BY <1>2, <1>3
  <2> QED BY ONLY <2>1 DEF SameThreads
<1> QED BY <1>6, <1>7, <1>8 DEF Keeps

\* afterResume resets the current thread.
LEMMA AfterKeeps ==
  ASSUME NEW q \in State, NEW c \in Ctxs, NEW state \in States, NEW p,
         p = afterResume(q, c, state)
  PROVE  /\ p \in State /\ p.registry = q.registry /\ p.pool = q.pool /\ p.current = Nil
         /\ SameThreads(p.ctx, q.ctx)
<1>1. q.ctx \in [Ctxs -> threadCtx]
  BY DEF State
<1>2. PICK g \in [Ctxs -> threadCtx] : g = [q.ctx EXCEPT ![c].state = state] /\ SameThreads(g, q.ctx)
  BY <1>1, CtxLemma
<1>3. p = [q EXCEPT !.ctx = g, !.current = Nil]
  BY <1>2 DEF afterResume
<1> QED BY <1>2, <1>3 DEF State

\* Ending a thread: its id goes back to the registry, its coroutine to the
\* pool if it lives and there is room.
LEMMA EndKeeps ==
  ASSUME NEW q \in State, NEW c \in Ctxs, NEW k, NEW pooled, NEW b \in RingBuffer,
         b = IF pooled /\ CanOffer(q.pool) THEN offer(q.pool, k) ELSE q.pool,
         unref(q.registry, q.ctx[c].tid) \in AnyRegistry,
         NEW p, p = endOfThread(q, c, k, pooled)
  PROVE  /\ p \in State /\ p.current = Nil
         /\ p.registry = unref(q.registry, q.ctx[c].tid) /\ p.pool = b
         /\ \A d \in Ctxs : /\ p.ctx[d].thread = IF d = c THEN Nil ELSE q.ctx[d].thread
                            /\ p.ctx[d].tid = q.ctx[d].tid
<1>1. q.ctx \in [Ctxs -> threadCtx] /\ q.ctx[c] \in threadCtx
  BY DEF State
<1>2. PICK r \in threadCtx : r = [q.ctx[c] EXCEPT !.thread = Nil]
  BY <1>1 DEF threadCtx
<1>3. r.thread = Nil /\ r.tid = q.ctx[c].tid
  BY <1>1, <1>2 DEF threadCtx
<1>4. PICK g \in [Ctxs -> threadCtx] : g = [q.ctx EXCEPT ![c] = r]
  BY <1>1
<1>5. PICK y \in AnyRegistry : y = unref(q.registry, q.ctx[c].tid)
  OBVIOUS
<1>6. PICK w \in State : w = [q EXCEPT !.registry = y, !.ctx = g, !.pool = b]
  BY DEF State
<1>7. w.registry = y /\ w.ctx = g /\ w.pool = b
  BY <1>6 DEF State
<1>8. w = [q EXCEPT !.registry = unref(@, q.ctx[c].tid),
                    !.ctx[c].thread = Nil,
                    !.pool = IF pooled /\ CanOffer(@) THEN offer(@, k) ELSE @]
  BY <1>2, <1>4, <1>5, <1>6
<1>10. p = afterResume(w, c, TS_DONE)
  BY <1>8 DEF endOfThread
<1>11. /\ p \in State /\ p.registry = w.registry /\ p.pool = w.pool /\ p.current = Nil
       /\ SameThreads(p.ctx, w.ctx)
  BY <1>10, AfterKeeps, StateNames
<1>12. \A d \in Ctxs : g[d] = IF d = c THEN r ELSE q.ctx[d]
  BY <1>1, <1>4
<1> QED BY <1>3, <1>5, <1>7, <1>11, <1>12 DEF SameThreads

\* resumeThread once the coroutine yielded.
LEMMA YieldedKeeps ==
  ASSUME NEW q \in State, NEW c \in Ctxs, NEW state \in States, NEW p,
         p = yielded(q, c, state)
  PROVE  /\ p \in State /\ p.registry = q.registry /\ p.pool = q.pool /\ p.current = Nil
         /\ SameThreads(p.ctx, q.ctx)
<1>1. CASE p = afterResume(q, c, state)
  BY <1>1, AfterKeeps
<1>2. CASE p = afterResume(addToRunQueue(q, c), c, TS_RUNNABLE)
  <2>1. PICK w \in State : w = addToRunQueue(q, c) /\ Keeps(w, q)
    BY AddKeeps
  <2>2. /\ p \in State /\ p.registry = w.registry /\ p.pool = w.pool /\ p.current = Nil
        /\ SameThreads(p.ctx, w.ctx)
    <3>1. PICK r \in States : r = TS_RUNNABLE
      BY StateNames
    <3>2. p = afterResume(w, c, r)
      BY <1>2, <2>1, <3>1
    <3> QED BY ONLY w \in State, c \in Ctxs, r \in States, <3>2, AfterKeeps
  <2> QED BY <2>1, <2>2 DEF Keeps, SameThreads
<1> QED BY <1>1, <1>2 DEF yielded

\* Taking a context off the run queue.
LEMMA DequeueKeeps ==
  ASSUME NEW q \in State, q.head # Nil
  PROVE  Dequeue(q) \in State /\ Keeps(Dequeue(q), q)
<1>1. /\ q.ctx \in [Ctxs -> threadCtx] /\ q.head \in Ctxs /\ q.len \in Nat
      /\ q.ctx[q.head] \in threadCtx /\ q.tail \in Ctxs \cup {Nil}
  BY DEF State
<1>2. PICK h \in Ctxs \cup {Nil} : h = q.ctx[q.head].nextThread
  BY <1>1 DEF threadCtx
<1>3. PICK g \in [Ctxs -> threadCtx] :
        g = [q.ctx EXCEPT ![q.head].nextThread = Nil] /\ SameThreads(g, q.ctx)
  BY <1>1, CtxLemma
<1>4. PICK n \in Nat : n = IF q.len - 1 < 0 THEN 0 ELSE q.len - 1
  BY <1>1
<1>5. PICK t \in Ctxs \cup {Nil} : t = IF h = Nil THEN Nil ELSE q.tail
  BY <1>1
<1>6. Dequeue(q) = [q EXCEPT !.head = h, !.tail = t, !.ctx = g, !.len = n]
  BY <1>2, <1>3, <1>4, <1>5 DEF Dequeue
<1>7. PICK p \in State : p = [q EXCEPT !.head = h, !.tail = t, !.ctx = g, !.len = n]
  BY DEF State
<1>8. p.registry = q.registry /\ p.pool = q.pool /\ p.current = q.current /\ p.ctx = g
  BY <1>7 DEF State
<1> QED BY <1>3, <1>6, <1>7, <1>8 DEF Keeps

-----------------------------------------------------------------------------
(* Registries *)

\* ref() and unref() as DataStructs and the proofs about it see them.
LEMMA SameRegistry ==
  /\ Slots = Reg!Slots /\ Registry = Reg!Registry
  /\ \A g : NextRefs(g) = Reg!NextRefs(g)
  /\ \A g, o, r : ref(g, o, r) = Reg!ref(g, o, r) /\ unref(g, r) = Reg!unref(g, r)
BY DEF Slots, Reg!Slots, Registry, Reg!Registry, NextRefs, Reg!NextRefs, Borders, Reg!Borders,
       ref, Reg!ref, unref, Reg!unref

\* Even a corrupt registry keeps its shape.
LEMMA AnyRef ==
  ASSUME NEW g \in AnyRegistry, NEW c \in Ctxs, NEW r \in NextRefs(g)
  PROVE  r \in Slots /\ ref(g, c, r) \in AnyRegistry
<1>1. r \in Slots /\ (g.head # Nil => g.head = r)
  BY DEF NextRefs
<1>2. PICK h \in Anything : h = IF g.head # Nil THEN g.slot[g.head] ELSE Nil
  BY <1>1 DEF AnyRegistry, Anything
<1>3. PICK f \in [Slots -> Anything] : f = [g.slot EXCEPT ![r] = c]
  BY <1>1 DEF AnyRegistry, Anything
<1>4. PICK n \in Int : n = g.size + 1
  BY DEF AnyRegistry
<1>5. ref(g, c, r) = [slot |-> f, head |-> h, size |-> n]
  BY <1>2, <1>3, <1>4 DEF ref
<1> QED BY <1>1, <1>5 DEF AnyRegistry

LEMMA AnyUnref ==
  ASSUME NEW g \in AnyRegistry, NEW r \in Slots \cup {Nil}
  PROVE  unref(g, r) \in AnyRegistry
<1>1. PICK f \in [Slots -> Anything] : f = [g.slot EXCEPT ![r] = g.head]
  BY DEF AnyRegistry
<1>2. r \in Anything
  BY DEF Anything
<1>3. PICK n \in Int : n = g.size - 1
  BY DEF AnyRegistry
<1>4. unref(g, r) = [slot |-> f, head |-> r, size |-> n]
  BY <1>1, <1>3 DEF unref
<1> QED BY <1>2, <1>4 DEF AnyRegistry

-----------------------------------------------------------------------------
(* Owners of coroutines *)

\* The pool as the proofs about ring buffers see it.
LEMMA SameBuffer ==
  /\ RingBuffer = Buf!RingBuffer
  /\ \A b : (CanTake(b) <=> Buf!CanTake(b)) /\ (CanOffer(b) <=> Buf!CanOffer(b))
  /\ \A b, o : offer(b, o) = Buf!offer(b, o) /\ take(b) = Buf!take(b)
BY DEF RingBuffer, Buf!RingBuffer, CanTake, Buf!CanTake, CanOffer, Buf!CanOffer,
       offer, Buf!offer, take, Buf!take, NextPos, Buf!NextPos

\* Coroutine k is nowhere but, at most, in the hands of the caller.
Nowhere(k, b, th, z) ==
  /\ \A i \in 1 .. PoolSize : b.slot[i] # k
  /\ \A c \in Ctxs : th[c] # k
  /\ \A i \in 1 .. Len(z) : z[i][2] # k

\* Coroutine k is neither running nor that of a thread.
Idling(k, th, z) ==
  /\ \A c \in Ctxs : th[c] # k
  /\ \A i \in 1 .. Len(z) : z[i][2] # k

\* Function ti differs from th only at c, where it is v.
Assigned(ti, th, c, v) == \A d \in Ctxs : ti[d] = IF d = c THEN v ELSE th[d]

\* offer() stores the coroutine in a free slot.
LEMMA OwnerOffer ==
  ASSUME NEW b, NEW th, NEW z \in Seq(Ctxs \X Coros), OneOwner(b, th, z), CanOffer(b),
         NEW k \in Coros, Nowhere(k, b, th, z)
  PROVE  OneOwner(offer(b, k), th, z) /\ offer(b, k) \in RingBuffer
<1>1. b \in RingBuffer /\ Buf!Sound(b) /\ Buf!Exact(b) /\ PoolSize \in Nat
  BY SameBuffer, SchedulerAssumption DEF OneOwner, Buf!Sound
<1>2. Buf!Sound(offer(b, k))
  BY <1>1, SameBuffer, Buf!OfferLemma, SchedulerAssumption
<1>3. b.writer \in 1 .. PoolSize
  <2>1. b.filled \in Nat /\ b.filled < PoolSize
    BY <1>1 DEF RingBuffer, CanOffer
  <2>2. b.reader \in 1 .. PoolSize /\ b.writer = Buf!Pos(b, b.filled + 1)
    BY <1>1, <2>1 DEF Buf!Exact
  <2>3. PICK n \in 1 .. PoolSize : n = b.filled + 1
    BY <1>1, <2>1
  <2>4. Buf!Pos(b, n) \in 1 .. PoolSize
    BY <2>2, Buf!Positions, SchedulerAssumption
  <2> QED BY <2>2, <2>3, <2>4
<1>4. PICK p : p = offer(b, k)
  OBVIOUS
<1>5. p.slot = [b.slot EXCEPT ![b.writer] = k]
  BY <1>4 DEF offer
<1>6. \A i \in 1 .. PoolSize : p.slot[i] = IF i = b.writer THEN k ELSE b.slot[i]
  BY <1>1, <1>3, <1>5 DEF RingBuffer
<1>7. \A i \in 1 .. PoolSize : p.slot[i] \in Coros \cup {Nil}
  BY <1>6 DEF OneOwner
<1>8. \A i, j \in 1 .. PoolSize : p.slot[i] # Nil /\ i # j => p.slot[i] # p.slot[j]
  BY <1>6 DEF OneOwner, Nowhere
<1>9. \A i \in 1 .. PoolSize, c \in Ctxs : p.slot[i] # Nil => th[c] # p.slot[i]
  BY <1>6 DEF OneOwner, Nowhere
<1>10. \A i \in 1 .. PoolSize, j \in 1 .. Len(z) : p.slot[i] # z[j][2]
  BY <1>6 DEF OneOwner, Nowhere
<1>11. p \in RingBuffer
  BY <1>2, <1>4, SameBuffer DEF Buf!Sound
<1> QED BY <1>2, <1>4, <1>7, <1>8, <1>9, <1>10, <1>11 DEF OneOwner

\* take() takes the coroutine out.
LEMMA OwnerTake ==
  ASSUME NEW b, NEW th, NEW z \in Seq(Ctxs \X Coros), OneOwner(b, th, z), CanTake(b), NEW k, k = taken(b)
  PROVE  /\ k \in Coros /\ Nowhere(k, take(b), th, z)
         /\ OneOwner(take(b), th, z) /\ take(b) \in RingBuffer
<1>1. b \in RingBuffer /\ Buf!Sound(b) /\ Buf!Exact(b) /\ PoolSize \in Nat /\ Nil \notin Coros
  BY SameBuffer, SchedulerAssumption DEF OneOwner, Buf!Sound
<1>2. Buf!Sound(take(b))
  BY <1>1, SameBuffer, Buf!TakeLemma, SchedulerAssumption
<1>3. b.reader \in 1 .. PoolSize /\ b.slot[b.reader] # Nil
  <2>1. b.filled \in Nat /\ b.filled > 0 /\ b.filled <= PoolSize
    BY <1>1 DEF RingBuffer, CanTake, Buf!Exact
  <2>2. b.reader \in 1 .. PoolSize
    BY <1>1, <2>1 DEF Buf!Exact
  <2>3. Buf!Pos(b, 1) = b.reader
    BY <2>2, Buf!Positions, SchedulerAssumption
  <2>4. 1 \in 1 .. b.filled
    BY <2>1
  <2> QED BY <1>1, <2>2, <2>3, <2>4 DEF Buf!Exact
<1>4. PICK p : p = take(b)
  OBVIOUS
<1>5. p.slot = [b.slot EXCEPT ![b.reader] = Nil] /\ k = b.slot[b.reader]
  BY <1>4 DEF take, taken
<1>6. \A i \in 1 .. PoolSize : p.slot[i] = IF i = b.reader THEN Nil ELSE b.slot[i]
  BY <1>1, <1>3, <1>5 DEF RingBuffer
<1>7. k \in Coros
  BY <1>3, <1>5 DEF OneOwner
<1>8. Nowhere(k, p, th, z)
  BY <1>1, <1>3, <1>5, <1>6, <1>7 DEF OneOwner, Nowhere
<1>9. \A i \in 1 .. PoolSize : p.slot[i] \in Coros \cup {Nil}
  BY <1>6 DEF OneOwner
<1>10. \A i, j \in 1 .. PoolSize : p.slot[i] # Nil /\ i # j => p.slot[i] # p.slot[j]
  BY <1>6 DEF OneOwner
<1>11. \A i \in 1 .. PoolSize, c \in Ctxs : p.slot[i] # Nil => th[c] # p.slot[i]
  BY <1>6 DEF OneOwner
<1>12. ASSUME NEW i \in 1 .. PoolSize, NEW j \in 1 .. Len(z) PROVE p.slot[i] # z[j][2]
  <2>1. z[j][2] # Nil
    BY <1>1
  <2> QED BY <1>6, <2>1 DEF OneOwner
<1>13. p \in RingBuffer
  BY <1>2, <1>4, SameBuffer DEF Buf!Sound
<1> QED BY <1>2, <1>4, <1>7, <1>8, <1>9, <1>10, <1>11, <1>12, <1>13 DEF OneOwner

\* An empty pool holds no coroutine.
LEMMA EmptyPool ==
  ASSUME NEW b, NEW th, NEW z, OneOwner(b, th, z), ~CanTake(b)
  PROVE  \A i \in 1 .. PoolSize : b.slot[i] = Nil
<1>1. b \in RingBuffer /\ Buf!Exact(b)
  BY SameBuffer DEF OneOwner, Buf!Sound
<1>2. b.filled = 0
  BY <1>1 DEF RingBuffer, CanTake
<1>3. 1 .. b.filled = {}
  BY <1>2
<1> QED BY <1>1, <1>3 DEF Buf!Exact

\* A thread starts to run on its own coroutine.
LEMMA OwnerPush ==
  ASSUME NEW b, NEW th, NEW z \in Seq(Ctxs \X Coros), OneOwner(b, th, z),
         NEW c \in Ctxs, NEW k \in Coros, th[c] = k, \A i \in 1 .. Len(z) : z[i][2] # k,
         NEW f, f = <<c, k>>, NEW y, y = <<f>> \o z
  PROVE  OneOwner(b, th, y) /\ y \in Seq(Ctxs \X Coros)
<1>1. f \in Ctxs \X Coros /\ f[1] = c /\ f[2] = k /\ Nil \notin Coros
  BY SchedulerAssumption
<1>2. y \in Seq(Ctxs \X Coros) /\ Len(y) = Len(z) + 1 /\ Len(z) \in Nat
  BY <1>1
<1>3. \A i \in 1 .. Len(y) : y[i] = IF i = 1 THEN f ELSE z[i - 1]
  BY <1>1
<1>4. \A i \in 1 .. Len(y) : i # 1 => i - 1 \in 1 .. Len(z)
  BY <1>2
<1>5. ASSUME NEW i \in 1 .. PoolSize, NEW j \in 1 .. Len(y) PROVE b.slot[i] # y[j][2]
  <2>1. CASE j = 1
    <3>1. y[j][2] = k
      BY <1>1, <1>3, <2>1
    <3> QED BY <1>1, <3>1 DEF OneOwner
  <2>2. CASE j # 1
    <3>1. j - 1 \in 1 .. Len(z) /\ y[j] = z[j - 1]
      BY <1>3, <1>4, <2>2
    <3> QED BY <3>1 DEF OneOwner
  <2> QED BY <2>1, <2>2
<1>6. ASSUME NEW i \in 1 .. Len(y), NEW j \in 1 .. Len(y), y[i][2] = y[j][2] PROVE i = j
  <2>1. CASE i = 1 /\ j # 1
    <3>1. j - 1 \in 1 .. Len(z) /\ y[j] = z[j - 1] /\ y[i][2] = k
      BY <1>1, <1>3, <1>4, <2>1
    <3> QED BY <1>6, <3>1
  <2>2. CASE j = 1 /\ i # 1
    <3>1. i - 1 \in 1 .. Len(z) /\ y[i] = z[i - 1] /\ y[j][2] = k
      BY <1>1, <1>3, <1>4, <2>2
    <3> QED BY <1>6, <3>1
  <2>3. CASE i # 1 /\ j # 1
    <3>1. i - 1 \in 1 .. Len(z) /\ j - 1 \in 1 .. Len(z) /\ z[i - 1][2] = z[j - 1][2]
      BY <1>3, <1>4, <1>6, <2>3
    <3>2. i - 1 = j - 1
      BY <3>1 DEF OneOwner
    <3> QED BY <1>2, <3>2
  <2> QED BY <2>1, <2>2, <2>3
<1>7. ASSUME NEW i \in 1 .. Len(y), NEW d \in Ctxs, th[d] = y[i][2] PROVE d = y[i][1]
  <2>1. CASE i = 1
    <3>1. y[i][1] = c /\ th[d] = k
      BY <1>1, <1>3, <1>7, <2>1
    <3>2. \A e \in Ctxs : th[c] # Nil /\ c # e => th[c] # th[e]
      BY DEF OneOwner
    <3> QED BY <1>1, <3>1, <3>2
  <2>2. CASE i # 1
    <3>1. i - 1 \in 1 .. Len(z) /\ y[i] = z[i - 1]
      BY <1>3, <1>4, <2>2
    <3> QED BY <1>7, <3>1 DEF OneOwner
  <2> QED BY <2>1, <2>2
<1> QED BY <1>2, <1>5, <1>6, <1>7 DEF OneOwner

\* A running thread stops running; its coroutine is not on the stack then.
LEMMA OwnerPop ==
  ASSUME NEW b, NEW th, NEW z \in Seq(Ctxs \X Coros), OneOwner(b, th, z), z # <<>>,
         NEW y, y = Tail(z)
  PROVE  /\ OneOwner(b, th, y) /\ y \in Seq(Ctxs \X Coros)
         /\ \A i \in 1 .. Len(y) : y[i][2] # Head(z)[2]
<1>1. /\ y \in Seq(Ctxs \X Coros) /\ Len(y) = Len(z) - 1 /\ Len(z) \in Nat \ {0}
      /\ Head(z) = z[1]
  OBVIOUS
<1>2. \A i \in 1 .. Len(y) : y[i] = z[i + 1] /\ i + 1 \in 1 .. Len(z)
  BY <1>1
<1>3. ASSUME NEW i \in 1 .. Len(y), NEW j \in 1 .. Len(y), y[i][2] = y[j][2] PROVE i = j
  <2>1. i + 1 = j + 1
    BY <1>2, <1>3 DEF OneOwner
  <2> QED BY <1>1, <2>1
<1>4. ASSUME NEW i \in 1 .. Len(y) PROVE y[i][2] # z[1][2]
  <2>1. 1 \in 1 .. Len(z) /\ i + 1 # 1
    BY <1>1
  <2> QED BY <1>2, <2>1 DEF OneOwner
<1>5. /\ \A i \in 1 .. PoolSize, j \in 1 .. Len(y) : b.slot[i] # y[j][2]
      /\ \A i \in 1 .. Len(y), c \in Ctxs : th[c] = y[i][2] => c = y[i][1]
  BY <1>2 DEF OneOwner
<1> QED BY <1>1, <1>3, <1>4, <1>5 DEF OneOwner

\* Threads that end own no coroutine any more.
LEMMA OwnerDrop ==
  ASSUME NEW b, NEW th, NEW z \in Seq(Ctxs \X Coros), OneOwner(b, th, z), NEW ti,
         \A d \in Ctxs : ti[d] \in {th[d], Nil}
  PROVE  OneOwner(b, ti, z)
<1>1. \A i \in 1 .. Len(z) : z[i][2] # Nil
  BY SchedulerAssumption
<1>2. \A i \in 1 .. PoolSize, c \in Ctxs : b.slot[i] # Nil => ti[c] # b.slot[i]
  BY DEF OneOwner
<1>3. \A c, d \in Ctxs : ti[c] # Nil /\ c # d => ti[c] # ti[d]
  BY DEF OneOwner
<1>4. \A i \in 1 .. Len(z), c \in Ctxs : ti[c] = z[i][2] => c = z[i][1]
  BY <1>1 DEF OneOwner
<1> QED BY <1>2, <1>3, <1>4 DEF OneOwner

\* A new thread gets a coroutine that is nowhere else.
LEMMA OwnerNew ==
  ASSUME NEW b, NEW th, NEW z \in Seq(Ctxs \X Coros), OneOwner(b, th, z), NEW ti,
         NEW k \in Coros, Nowhere(k, b, th, z), NEW c \in Ctxs,
         \A d \in Ctxs : ti[d] = IF d = c THEN k ELSE th[d]
  PROVE  OneOwner(b, ti, z)
<1>1. \A i \in 1 .. PoolSize, d \in Ctxs : b.slot[i] # Nil => ti[d] # b.slot[i]
  BY DEF OneOwner, Nowhere
<1>2. \A e, d \in Ctxs : ti[e] # Nil /\ e # d => ti[e] # ti[d]
  BY DEF OneOwner, Nowhere
<1>3. \A i \in 1 .. Len(z), d \in Ctxs : ti[d] = z[i][2] => d = z[i][1]
  BY DEF OneOwner, Nowhere
<1> QED BY <1>1, <1>2, <1>3 DEF OneOwner

-----------------------------------------------------------------------------
(* The steps of threads *)

\* The context of a new thread with id r and coroutine k.
FirstCtx(r, k) == [NoCtx EXCEPT !.tid = r, !.thread = k]

\* newThread takes a coroutine that nothing else has, from the pool or new.
LEMMA NewThread ==
  ASSUME PoolInv, NEW c \in Ctxs, CanCreate, NEW r \in NextRefs(s.registry),
         NEW k, k = NewCoroutine, NEW p, p = newThread(c, k, r)
  PROVE  /\ k \in Coros /\ r \in Slots /\ Idling(k, ThreadOf(s), stack)
         /\ p \in State /\ p.registry = ref(s.registry, c, r) /\ p.current = s.current
         /\ p.ctx = [s.ctx EXCEPT ![c] = FirstCtx(r, k)]
         /\ OneOwner(p.pool, ThreadOf(p), stack)
         /\ NewCalls(k) \in [Coros -> 0 .. ReuseLimit + 1]
<1> DEFINE th == ThreadOf(s)
<1>1. /\ s \in State /\ stack \in Seq(Ctxs \X Coros) /\ OneOwner(s.pool, th, stack)
      /\ calls \in [Coros -> 0 .. ReuseLimit + 1] /\ \A d \in Ctxs : th[d] = s.ctx[d].thread
  BY DEF PoolInv, Types, ThreadOf
<1>2. PICK b : b = IF CanTake(s.pool) THEN take(s.pool) ELSE s.pool
  OBVIOUS
<1> HIDE DEF th
<1>3. k \in Coros /\ Nowhere(k, b, th, stack) /\ OneOwner(b, th, stack) /\ b \in RingBuffer
  <2>1. CASE CanTake(s.pool)
    <3>1. k = taken(s.pool) /\ b = take(s.pool)
      BY <1>2, <2>1 DEF NewCoroutine
    <3> QED BY <1>1, <2>1, <3>1, OwnerTake
  <2>2. CASE ~CanTake(s.pool)
    <3>1. k \in Unused /\ b = s.pool
      BY <1>2, <2>2 DEF NewCoroutine, CanCreate
    <3>2. /\ k \in Coros /\ \A i \in 1 .. Len(stack) : stack[i][2] # k
          /\ \A d \in Ctxs : th[d] # k
      BY <1>1, <3>1 DEF Unused, OnStack
    <3>3. \A i \in 1 .. PoolSize : b.slot[i] = Nil
      BY <1>1, <2>2, <3>1, EmptyPool
    <3>4. Nowhere(k, b, th, stack)
      BY <3>2, <3>3, SchedulerAssumption DEF Nowhere
    <3> QED BY <1>1, <3>1, <3>2, <3>4 DEF State
  <2> QED BY <2>1, <2>2
<1>4. PICK y \in AnyRegistry : y = ref(s.registry, c, r)
  BY <1>1, AnyRef DEF State
<1>5. r \in Slots
  BY <1>1, AnyRef DEF State
<1>6. PICK n \in threadCtx : n = [NoCtx EXCEPT !.tid = r, !.thread = k]
  <2>0. NoCtx \in threadCtx
    <3>1. /\ Nil \in Slots \cup {Nil} /\ Nil \in Coros \cup {Nil} /\ Nil \in States
          /\ Nil \in Ctxs \cup {Nil}
      BY DEF States
    <3> QED BY <3>1 DEF threadCtx, NoCtx, States
  <2>1. PICK v \in threadCtx : v = NoCtx
    BY <2>0
  <2>2. [v EXCEPT !.tid = r, !.thread = k] \in threadCtx
    BY <1>3, <1>5 DEF threadCtx
  <2> QED BY <2>1, <2>2
<1>7. n.thread = k
  BY <1>6 DEF NoCtx
<1>8. PICK g \in [Ctxs -> threadCtx] : g = [s.ctx EXCEPT ![c] = n]
  BY <1>1 DEF State
<1>9. p = [s EXCEPT !.pool = b, !.registry = y, !.ctx = g]
  BY <1>2, <1>4, <1>6, <1>8 DEF newThread
<1>10. /\ p \in State /\ p.pool = b /\ p.registry = y /\ p.ctx = g
       /\ p.current = s.current
  BY <1>1, <1>3, <1>9 DEF State
<1>11. \A d \in Ctxs : ThreadOf(p)[d] = IF d = c THEN k ELSE th[d]
  BY <1>1, <1>7, <1>8, <1>10 DEF ThreadOf, State
<1>12. PICK ti : ti = ThreadOf(p)
  OBVIOUS
<1>13. OneOwner(b, ti, stack)
  BY <1>1, <1>3, <1>11, <1>12, OwnerNew
<1>14. NewCalls(k) \in [Coros -> 0 .. ReuseLimit + 1]
  BY <1>1, <1>3, SchedulerAssumption DEF NewCalls
<1>15. Idling(k, th, stack)
  BY <1>3 DEF Nowhere, Idling
<1> QED BY <1>1, <1>3, <1>4, <1>5, <1>6, <1>8, <1>10, <1>12, <1>13, <1>14, <1>15
            DEF th, FirstCtx

\* resumeThread in a state whose coroutines have one owner each.
LEMMA ResumeOwner ==
  ASSUME stack \in Seq(Ctxs \X Coros), NEW q \in State, OneOwner(q.pool, ThreadOf(q), stack),
         NEW c \in Ctxs, NEW from \in [Ctxs -> Where], resumeThread(q, c, from)
  PROVE  /\ s' \in State /\ at' \in [Ctxs -> Where] /\ stack' \in Seq(Ctxs \X Coros)
         /\ OneOwner(s'.pool, ThreadOf(s'), stack')
<1>1. q.ctx \in [Ctxs -> threadCtx] /\ q.ctx[c] \in threadCtx /\ q.registry \in AnyRegistry
  BY DEF State
<1>2. PICK k \in Coros \cup {Nil} : k = q.ctx[c].thread
  BY <1>1 DEF threadCtx
<1>3. ASSUME s' = [q EXCEPT !.current = c]
      PROVE  s' \in State /\ s'.pool = q.pool /\ ThreadOf(s') = ThreadOf(q)
  <2>1. s' \in State /\ s'.pool = q.pool /\ s'.ctx = q.ctx
    BY <1>3 DEF State
  <2> QED BY <2>1 DEF ThreadOf
<1>4. CASE s' = [q EXCEPT !.current = c] /\ at' = from /\ UNCHANGED stack
  BY <1>3, <1>4
<1>5. CASE s' = endOfThread(q, c, Nil, FALSE) /\ at' = from /\ UNCHANGED stack
  <2>1. unref(q.registry, q.ctx[c].tid) \in AnyRegistry
    BY <1>1, AnyUnref DEF threadCtx
  <2>2. PICK b \in RingBuffer : b = q.pool
    BY DEF State
  <2>3. PICK none, pooled : none = Nil /\ pooled = FALSE
    OBVIOUS
  <2>7. /\ b = IF pooled /\ CanOffer(q.pool) THEN offer(q.pool, none) ELSE q.pool
        /\ s' = endOfThread(q, c, none, pooled)
    BY <1>5, <2>2, <2>3
  <2>4. /\ s' \in State /\ s'.pool = b
        /\ \A d \in Ctxs : s'.ctx[d].thread = IF d = c THEN Nil ELSE q.ctx[d].thread
    BY <2>1, <2>7, EndKeeps
  <2>5. \A d \in Ctxs : ThreadOf(s')[d] \in {ThreadOf(q)[d], Nil}
    BY <2>4 DEF ThreadOf
  <2>6. OneOwner(b, ThreadOf(s'), stack)
    BY <2>2, <2>5, OwnerDrop
  <2> QED BY <1>5, <2>4, <2>6
<1>6. CASE /\ k # Nil /\ ~OnStack(k) /\ s' = [q EXCEPT !.current = c]
           /\ stack' = <<<<c, k>>>> \o stack
           /\ at' = [from EXCEPT ![c] = IF @ = "join" THEN "join" ELSE "run"]
  <2>1. k \in Coros /\ ThreadOf(q)[c] = k /\ \A i \in 1 .. Len(stack) : stack[i][2] # k
    BY <1>2, <1>6 DEF ThreadOf, OnStack
  <2>2. PICK f : f = <<c, k>>
    OBVIOUS
  <2>3. PICK y : y = <<f>> \o stack
    OBVIOUS
  <2>4. PICK th : th = ThreadOf(q)
    OBVIOUS
  <2>5. OneOwner(q.pool, th, y) /\ y \in Seq(Ctxs \X Coros)
    BY <2>1, <2>2, <2>3, <2>4, OwnerPush
  <2>6. stack' = y
    BY <1>6, <2>2, <2>3
  <2>7. at' \in [Ctxs -> Where]
    BY <1>6 DEF Where
  <2> QED BY <1>3, <1>6, <2>4, <2>5, <2>6, <2>7
<1> QED BY <1>2, <1>4, <1>5, <1>6 DEF resumeThread

\* Threads keep their coroutines and nothing runs or is pooled.
LEMMA KeepOwner ==
  ASSUME PoolInv, NEW q \in State, q.pool = s.pool, SameThreads(q.ctx, s.ctx)
  PROVE  OneOwner(q.pool, ThreadOf(q), stack) /\ ThreadOf(q) = ThreadOf(s)
<1>1. ThreadOf(q) = ThreadOf(s)
  BY DEF ThreadOf, SameThreads
<1> QED BY <1>1 DEF PoolInv

\* The running thread yields.
LEMMA YieldOwner ==
  ASSUME PoolInv, NEW c \in Ctxs, stack # <<>>, stack' = Tail(stack),
         NEW state \in States, s' = yielded(s, c, state)
  PROVE  /\ s' \in State /\ stack' \in Seq(Ctxs \X Coros)
         /\ OneOwner(s'.pool, ThreadOf(s'), stack')
<1>1. s \in State /\ stack \in Seq(Ctxs \X Coros)
  BY DEF PoolInv, Types
<1>2. PICK q \in State : q = s'
  BY <1>1, YieldedKeeps
<1>3. q.pool = s.pool /\ SameThreads(q.ctx, s.ctx)
  BY <1>1, <1>2, YieldedKeeps
<1>4. OneOwner(q.pool, ThreadOf(q), stack)
  BY <1>3, KeepOwner
<1>5. PICK th : th = ThreadOf(q)
  OBVIOUS
<1>6. OneOwner(q.pool, th, stack') /\ stack' \in Seq(Ctxs \X Coros)
  BY <1>1, <1>4, <1>5, OwnerPop
<1> QED BY <1>2, <1>5, <1>6

\* The running thread ends: its coroutine may go to the pool.
LEMMA EndOwner ==
  ASSUME PoolInv, NEW c \in Ctxs, NEW k \in Coros, stack # <<>>, Head(stack) = <<c, k>>,
         stack' = Tail(stack), NEW j, NEW pooled \in BOOLEAN, pooled => j = k,
         s' = endOfThread(s, c, j, pooled)
  PROVE  /\ s' \in State /\ stack' \in Seq(Ctxs \X Coros)
         /\ OneOwner(s'.pool, ThreadOf(s'), stack')
<1>1. /\ s \in State /\ stack \in Seq(Ctxs \X Coros) /\ s.ctx[c] \in threadCtx
      /\ s.registry \in AnyRegistry /\ s.pool \in RingBuffer
  BY DEF PoolInv, Types, State
<1>2. unref(s.registry, s.ctx[c].tid) \in AnyRegistry
  BY <1>1, AnyUnref DEF threadCtx
<1>3. PICK th : th = ThreadOf(s)
  OBVIOUS
<1>4. PICK z : z = stack'
  OBVIOUS
<1>5. OneOwner(s.pool, th, z) /\ z \in Seq(Ctxs \X Coros) /\ \A i \in 1 .. Len(z) : z[i][2] # k
  <2>1. OneOwner(s.pool, th, stack)
    BY <1>3 DEF PoolInv
  <2>2. /\ OneOwner(s.pool, th, z) /\ z \in Seq(Ctxs \X Coros)
        /\ \A i \in 1 .. Len(z) : z[i][2] # Head(stack)[2]
    BY <1>1, <1>4, <2>1, OwnerPop
  <2> QED BY <2>2
<1>6. DEFINE ti == [d \in Ctxs |-> IF d = c THEN Nil ELSE th[d]]
<1>7. \A d \in Ctxs : ti[d] = IF d = c THEN Nil ELSE th[d]
  OBVIOUS
<1> HIDE DEF ti
<1>8. OneOwner(s.pool, ti, z)
  BY <1>5, <1>7, OwnerDrop
<1>9. Nowhere(k, s.pool, ti, z)
  <2>1. stack[1] = <<c, k>> /\ 1 \in 1 .. Len(stack) /\ Nil \notin Coros
    BY <1>1, SchedulerAssumption
  <2>2. stack[1][1] = c /\ stack[1][2] = k
    BY <2>1
  <2>3. \A i \in 1 .. PoolSize : s.pool.slot[i] # k
    BY <2>1, <2>2 DEF PoolInv, OneOwner
  <2>4. \A d \in Ctxs : th[d] = k => d = c
    BY <1>3, <2>1, <2>2 DEF PoolInv, OneOwner
  <2>5. \A d \in Ctxs : ti[d] # k
    BY <1>7, <2>1, <2>4
  <2> QED BY <1>5, <2>3, <2>5 DEF Nowhere
<1>10. PICK b : b = IF pooled /\ CanOffer(s.pool) THEN offer(s.pool, j) ELSE s.pool
  OBVIOUS
<1>11. OneOwner(b, ti, z) /\ b \in RingBuffer
  <2>1. CASE pooled /\ CanOffer(s.pool)
    <3>1. b = offer(s.pool, k)
      BY <1>10, <2>1
    <3> QED BY <1>5, <1>8, <1>9, <2>1, <3>1, OwnerOffer
  <2>2. CASE ~(pooled /\ CanOffer(s.pool))
    BY <1>1, <1>8, <1>10, <2>2
  <2> QED BY <2>1, <2>2
<1>12. /\ s' \in State /\ s'.pool = b
       /\ \A d \in Ctxs : s'.ctx[d].thread = IF d = c THEN Nil ELSE s.ctx[d].thread
  BY <1>1, <1>2, <1>10, <1>11, EndKeeps
<1>13. ThreadOf(s') = ti
  BY <1>3, <1>12 DEF ThreadOf, ti
<1> QED BY <1>4, <1>5, <1>11, <1>12, <1>13

\* The calls of a running thread.
LEMMA RunOwner ==
  ASSUME PoolInv, NEW c \in Ctxs, NEW k \in Coros, RunStep(c, k)
  PROVE  PoolInv'
<1>1. /\ s \in State /\ stack \in Seq(Ctxs \X Coros) /\ at \in [Ctxs -> Where]
      /\ calls \in [Coros -> 0 .. ReuseLimit + 1] /\ batch \in Nat /\ stopped \in BOOLEAN
      /\ OneOwner(s.pool, ThreadOf(s), stack)
  BY DEF PoolInv, Types
<1>2. CASE \E d \in Ctxs : startUserThread(c, k, d)
  <2>1. PICK d \in Ctxs : startUserThread(c, k, d)
    BY <1>2
  <2>2. PICK r \in NextRefs(s.registry) :
          /\ calls' = NewCalls(NewCoroutine)
          /\ s' = addToRunQueue(newThread(d, NewCoroutine, r), d)
    BY <2>1 DEF startUserThread
  <2>3. CanCreate /\ at' \in [Ctxs -> Where] /\ UNCHANGED <<stack, batch, stopped>>
    BY <1>1, <2>1 DEF startUserThread, Where
  <2>4. PICK h, p : h = NewCoroutine /\ p = newThread(d, h, r)
    OBVIOUS
  <2>5. /\ p \in State /\ OneOwner(p.pool, ThreadOf(p), stack)
        /\ NewCalls(h) \in [Coros -> 0 .. ReuseLimit + 1]
    BY <2>3, <2>4, NewThread
  <2>6. s' \in State /\ Keeps(s', p)
    BY <2>2, <2>4, <2>5, AddKeeps
  <2>7. s'.pool = p.pool /\ ThreadOf(s') = ThreadOf(p)
    BY <2>6 DEF Keeps, SameThreads, ThreadOf
  <2> QED BY <1>1, <2>2, <2>3, <2>4, <2>5, <2>6, <2>7 DEF PoolInv, Types
<1>3. CASE blockOnEvent(c, k) \/ yield(c, k)
  <2>1. PICK state \in States :
          /\ s' = yielded(s, c, state) /\ stack # <<>> /\ stack' = Tail(stack)
          /\ UNCHANGED <<calls, batch, stopped>> /\ at' \in [Ctxs -> Where]
    <3>1. TS_BLOCKED_EVENT \in States /\ Nil \in States
      BY StateNames DEF States
    <3> QED BY <1>1, <1>3, <3>1 DEF blockOnEvent, yield, Runs, Where
  <2>2. /\ s' \in State /\ stack' \in Seq(Ctxs \X Coros)
        /\ OneOwner(s'.pool, ThreadOf(s'), stack')
    BY <2>1, YieldOwner
  <2> QED BY <1>1, <2>1, <2>2 DEF PoolInv, Types
<1>4. CASE \E ds \in SUBSET (Ctxs \ {c}) : join(c, k, ds)
  <2>1. PICK ds \in SUBSET (Ctxs \ {c}) : join(c, k, ds)
    BY <1>4
  <2>2. at' \in [Ctxs -> Where] /\ UNCHANGED <<s, calls, stack, batch, stopped>>
    BY <1>1, <2>1 DEF join, Where
  <2> QED BY <1>1, <2>2 DEF PoolInv, Types
<1>5. CASE joinReturns(c, k)
  <2>1. at' \in [Ctxs -> Where] /\ UNCHANGED <<s, calls, stack, batch, stopped>>
    BY <1>1, <1>5 DEF joinReturns, Where
  <2> QED BY <1>1, <2>1 DEF PoolInv, Types
<1>6. CASE return(c, k) \/ raise(c, k)
  <2>1. PICK pooled \in BOOLEAN, j \in {k, Nil} :
          /\ s' = endOfThread(s, c, j, pooled) /\ (pooled => j = k)
    <3>1. threadRunLoop(k) \in BOOLEAN
      BY DEF threadRunLoop
    <3> QED BY <1>6, <3>1 DEF return, raise
  <2>2. /\ stack # <<>> /\ Head(stack) = <<c, k>> /\ stack' = Tail(stack)
        /\ at' \in [Ctxs -> Where] /\ UNCHANGED <<batch, stopped>>
    BY <1>1, <1>6 DEF return, raise, Runs, Where
  <2>3. calls' \in [Coros -> 0 .. ReuseLimit + 1]
    <3>1. CASE raise(c, k)
      BY <1>1, <3>1 DEF raise
    <3>2. CASE return(c, k)
      <4>1. calls[k] \in 0 .. ReuseLimit + 1 /\ ReuseLimit \in Nat
        BY <1>1, SchedulerAssumption
      <4>2. (IF threadRunLoop(k) THEN calls[k] + 1 ELSE calls[k]) \in 0 .. ReuseLimit + 1
        BY <4>1 DEF threadRunLoop
      <4> QED BY <1>1, <3>2, <4>2 DEF return
    <3> QED BY <1>6, <3>1, <3>2
  <2>4. /\ s' \in State /\ stack' \in Seq(Ctxs \X Coros)
        /\ OneOwner(s'.pool, ThreadOf(s'), stack')
    BY <2>1, <2>2, EndOwner
  <2> QED BY <1>1, <2>2, <2>3, <2>4 DEF PoolInv, Types
<1> QED BY <1>2, <1>3, <1>4, <1>5, <1>6 DEF RunStep

\* Steps of the event loop: wake-ups, new connections and the run queue.
LEMMA LoopOwner ==
  ASSUME PoolInv,
         \/ \E tid \in Slots : resumeThreadId(tid)
         \/ \E c \in Ctxs : startSystemThread(c)
         \/ runReadyThreads
         \/ runNextFromRunQueue
  PROVE  PoolInv'
<1>1. /\ s \in State /\ stack \in Seq(Ctxs \X Coros) /\ at \in [Ctxs -> Where]
      /\ calls \in [Coros -> 0 .. ReuseLimit + 1] /\ batch \in Nat /\ stopped \in BOOLEAN
      /\ OneOwner(s.pool, ThreadOf(s), stack)
  BY DEF PoolInv, Types
<1>2. ASSUME NEW tid \in Slots, resumeThreadId(tid) PROVE PoolInv'
  <2>1. UNCHANGED <<calls, batch, stopped>>
    BY <1>2 DEF resumeThreadId
  <2>2. CASE s.registry.slot[tid] \in Ctxs
    <3>1. PICK c \in Ctxs : resumeThread(s, c, at)
      BY <1>2, <2>2 DEF resumeThreadId
    <3>2. /\ s' \in State /\ at' \in [Ctxs -> Where] /\ stack' \in Seq(Ctxs \X Coros)
          /\ OneOwner(s'.pool, ThreadOf(s'), stack')
      BY <1>1, <3>1, ResumeOwner
    <3> QED BY <1>1, <2>1, <3>2 DEF PoolInv, Types
  <2>3. CASE s.registry.slot[tid] \notin Ctxs
    <3>1. s' \in {s, [s EXCEPT !.current = Nil]} /\ UNCHANGED <<at, stack>>
      BY <1>2, <2>3 DEF resumeThreadId
    <3>2. s' \in State /\ s'.pool = s.pool /\ s'.ctx = s.ctx
      BY <1>1, <3>1 DEF State
    <3>3. ThreadOf(s') = ThreadOf(s)
      BY <3>2 DEF ThreadOf
    <3> QED BY <1>1, <2>1, <3>1, <3>2, <3>3 DEF PoolInv, Types
  <2> QED BY <2>2, <2>3
<1>3. ASSUME NEW c \in Ctxs, startSystemThread(c) PROVE PoolInv'
  <2>1. PICK r \in NextRefs(s.registry) :
          /\ calls' = NewCalls(NewCoroutine)
          /\ resumeThread([newThread(c, NewCoroutine, r) EXCEPT !.ctx[c].state = TS_RUNNABLE], c, at)
    BY <1>3 DEF startSystemThread
  <2>2. CanCreate /\ UNCHANGED <<batch, stopped>>
    BY <1>3 DEF startSystemThread
  <2>3. PICK h, p : h = NewCoroutine /\ p = newThread(c, h, r)
    OBVIOUS
  <2>4. /\ p \in State /\ OneOwner(p.pool, ThreadOf(p), stack)
        /\ NewCalls(h) \in [Coros -> 0 .. ReuseLimit + 1]
    BY <2>2, <2>3, NewThread
  <2>5. PICK g \in [Ctxs -> threadCtx] : g = [p.ctx EXCEPT ![c].state = TS_RUNNABLE] /\ SameThreads(g, p.ctx)
    <3>1. p.ctx \in [Ctxs -> threadCtx]
      BY <2>4 DEF State
    <3> QED BY <3>1, CtxLemma, StateNames
  <2>6. PICK q \in State : q = [p EXCEPT !.ctx = g]
    BY <2>4 DEF State
  <2>7. q.pool = p.pool /\ q.ctx = g
    BY <2>4, <2>6 DEF State
  <2>8. ThreadOf(q) = ThreadOf(p)
    BY <2>5, <2>7 DEF ThreadOf, SameThreads
  <2>9. resumeThread(q, c, at)
    BY <2>1, <2>3, <2>5, <2>6
  <2>10. /\ s' \in State /\ at' \in [Ctxs -> Where] /\ stack' \in Seq(Ctxs \X Coros)
         /\ OneOwner(s'.pool, ThreadOf(s'), stack')
    BY <1>1, <2>4, <2>7, <2>8, <2>9, ResumeOwner
  <2> QED BY <1>1, <2>1, <2>2, <2>3, <2>4, <2>10 DEF PoolInv, Types
<1>4. CASE runReadyThreads
  <2>1. s.len \in Nat
    BY <1>1 DEF State
  <2> QED BY <1>1, <1>4, <2>1 DEF runReadyThreads, PoolInv, Types
<1>5. CASE runNextFromRunQueue
  <2>1. UNCHANGED calls /\ batch' \in Nat /\ stopped' \in BOOLEAN
    <3>1. batch > 0 /\ batch - 1 \in Nat
      BY <1>1, <1>5 DEF runNextFromRunQueue
    <3>2. PICK failed \in BOOLEAN : failed = Fails(s, s.head)
      BY DEF Fails
    <3>3. CASE batch' = batch - 1 /\ UNCHANGED stopped
      BY <1>1, <1>5, <3>1, <3>3 DEF runNextFromRunQueue
    <3>4. CASE stopped' = failed /\ batch' = IF failed THEN 0 ELSE batch - 1
      BY <1>5, <3>1, <3>4 DEF runNextFromRunQueue
    <3> QED BY <1>5, <3>2, <3>3, <3>4 DEF runNextFromRunQueue
  <2>2. CASE UNCHANGED <<s, at, stack>>
    BY <1>1, <2>1, <2>2 DEF PoolInv, Types
  <2>3. CASE s.head # Nil
    <3>1. PICK q \in State : q = Dequeue(s) /\ Keeps(q, s)
      BY <1>1, <2>3, DequeueKeeps
    <3>2. OneOwner(q.pool, ThreadOf(q), stack)
      BY <3>1, KeepOwner DEF Keeps
    <3>3. CASE s' = q /\ UNCHANGED <<at, stack>>
      BY <1>1, <2>1, <3>2, <3>3 DEF PoolInv, Types
    <3>4. CASE resumeThread(q, s.head, at)
      <4>1. PICK c \in Ctxs : c = s.head
        BY <1>1, <2>3 DEF State
      <4>2. /\ s' \in State /\ at' \in [Ctxs -> Where] /\ stack' \in Seq(Ctxs \X Coros)
            /\ OneOwner(s'.pool, ThreadOf(s'), stack')
        BY <1>1, <3>2, <3>4, <4>1, ResumeOwner
      <4> QED BY <1>1, <2>1, <4>2 DEF PoolInv, Types
    <3> QED BY <1>5, <2>3, <3>1, <3>3, <3>4 DEF runNextFromRunQueue
  <2> QED BY <1>5, <2>2, <2>3 DEF runNextFromRunQueue
<1> QED BY <1>2, <1>3, <1>4, <1>5

\* A scheduler that was just made.
LEMMA PoolInit == Init => PoolInv
<1> SUFFICES ASSUME Init PROVE PoolInv
  OBVIOUS
<1>1. /\ s.registry = newRegistry /\ s.pool = newRingBuffer /\ s.ctx = [c \in Ctxs |-> NoCtx]
      /\ s.head = Nil /\ s.tail = Nil /\ s.len = 0 /\ s.current = Nil /\ stack = <<>>
  BY DEF Init
<1>2. newRegistry \in AnyRegistry
  BY DEF newRegistry, AnyRegistry, Anything
<1>4. Buf!Sound(newRingBuffer) /\ newRingBuffer \in RingBuffer
  <2>1. PICK b : b = newRingBuffer
    OBVIOUS
  <2>2. /\ b.slot = [i \in 1 .. PoolSize |-> Nil] /\ b.reader = 1 /\ b.writer = 1 /\ b.filled = 0
        /\ PoolSize \in Nat
    BY <2>1, SchedulerAssumption DEF newRingBuffer
  <2>3. b \in RingBuffer
    BY <2>1 DEF newRingBuffer, RingBuffer
  <2>4. Buf!Exact(b)
    BY <2>2 DEF Buf!Exact, Buf!Pos
  <2> QED BY <2>1, <2>3, <2>4, SameBuffer DEF Buf!Sound
<1>5. NoCtx \in threadCtx /\ NoCtx.thread = Nil
  <2>1. /\ Nil \in Slots \cup {Nil} /\ Nil \in Coros \cup {Nil} /\ Nil \in States
        /\ Nil \in Ctxs \cup {Nil}
    BY DEF States
  <2> QED BY <2>1 DEF threadCtx, NoCtx, States
<1>6. s \in State
  <2>1. s = [registry |-> newRegistry, pool |-> newRingBuffer, ctx |-> [c \in Ctxs |-> NoCtx],
             head |-> Nil, tail |-> Nil, len |-> 0, current |-> Nil]
    BY DEF Init
  <2> QED BY <1>2, <1>4, <1>5, <2>1 DEF State
<1>7. Types
  <2>2. calls \in [Coros -> 0 .. ReuseLimit + 1]
    BY SchedulerAssumption DEF Init
  <2>3. at \in [Ctxs -> Where] /\ batch \in Nat /\ stopped \in BOOLEAN
    BY DEF Init, Where
  <2>4. stack \in Seq(Ctxs \X Coros)
    BY <1>1
  <2> QED BY <1>6, <2>2, <2>3, <2>4 DEF Types
<1>8. \A c \in Ctxs : ThreadOf(s)[c] = Nil
  BY <1>1, <1>5 DEF ThreadOf
<1>9. \A i \in 1 .. PoolSize : s.pool.slot[i] = Nil
  BY <1>1 DEF newRingBuffer
<1>10. Len(stack) = 0
  BY <1>1
<1>11. OneOwner(s.pool, ThreadOf(s), stack)
  BY <1>1, <1>4, <1>8, <1>9, <1>10 DEF OneOwner
<1> QED BY <1>7, <1>11 DEF PoolInv

-----------------------------------------------------------------------------
(* The pool's theorems *)

\* Every coroutine has one owner in every reachable state.
THEOREM PoolInductive == Spec => []PoolInv
<1>1. PoolInv /\ [Next]_vars => PoolInv'
  <2> SUFFICES ASSUME PoolInv, [Next]_vars PROVE PoolInv'
    OBVIOUS
  <2>1. CASE UNCHANGED vars
    BY <2>1 DEF vars, PoolInv, Types, ThreadOf
  <2>2. CASE Next
    BY <2>2, LoopOwner, RunOwner DEF Next
  <2> QED BY <2>1, <2>2
<1> QED BY <1>1, PoolInit, PTL DEF Spec

\* A coroutine serves one thread at a time: one that resumeThread has put back
\* into the thread pool runs for nobody and belongs to no live thread, whatever
\* wake-ups arrive, how often and in which order.
THEOREM CoroutinesHaveOneOwner == Spec => []PoolSound
<1>1. PoolInv => PoolSound
  <2> SUFFICES ASSUME PoolInv PROVE PoolSound
    OBVIOUS
  <2>1. OneOwner(s.pool, ThreadOf(s), stack) /\ \A c \in Ctxs : ThreadOf(s)[c] = s.ctx[c].thread
    BY DEF PoolInv, ThreadOf
  <2> QED BY <2>1 DEF OneOwner, PoolSound, OnStack, Live
<1> QED BY <1>1, PoolInductive, PTL

-----------------------------------------------------------------------------
(* The registry of threads, in the code as it is *)

\* A thread that was woken by its event runs: its tid is armed no more.
LEMMA AnchorPush ==
  ASSUME NEW g, NEW th, NEW tids, NEW z \in Seq(Ctxs \X Coros), NEW wakes, NEW cur, NEW b,
         Anchors(g, th, tids, z, wakes, cur), OneOwner(b, th, z),
         NEW c \in Ctxs, NEW k \in Coros, th[c] = k,
         NEW left \in SUBSET wakes, tids[c] \notin left,
         NEW f, f = <<c, k>>, NEW y, y = <<f>> \o z
  PROVE  Anchors(g, th, tids, y, left, c)
<1>1. f \in Ctxs \X Coros /\ f[1] = c /\ f[2] = k /\ k # Nil
  BY SchedulerAssumption
<1>2. y \in Seq(Ctxs \X Coros) /\ Len(y) = Len(z) + 1 /\ Len(z) \in Nat
  BY <1>1
<1>3. \A i \in 1 .. Len(y) : y[i] = IF i = 1 THEN f ELSE z[i - 1]
  BY <1>1
<1>4. \A i \in 1 .. Len(y) : i # 1 => i - 1 \in 1 .. Len(z)
  BY <1>2
<1>5. ASSUME NEW tid \in left
      PROVE  /\ tid \in Slots /\ g.slot[tid] \in Ctxs
             /\ \A i \in 1 .. Len(y) : y[i][2] # th[g.slot[tid]]
  <2>1. PICK d \in Ctxs : d = g.slot[tid]
    BY DEF Anchors, Suspended
  <2>2. tid \in Slots /\ \A i \in 1 .. Len(z) : z[i][2] # th[d]
    BY <2>1 DEF Anchors, Suspended
  <2>3. th[d] # Nil /\ tid = tids[d]
    BY <2>1, <2>2 DEF Anchors, Found
  <2>4. d # c
    BY <2>3
  <2>5. th[d] # k
    BY <2>3, <2>4 DEF OneOwner
  <2>6. \A i \in 1 .. Len(y) : y[i][2] # th[d]
    BY <1>1, <1>3, <1>4, <2>2, <2>5
  <2> QED BY <2>1, <2>2, <2>6
<1>6. ASSUME NEW i \in 1 .. Len(y) PROVE th[y[i][1]] = y[i][2]
  <2>1. CASE i = 1
    BY <1>1, <1>3, <2>1
  <2>2. CASE i # 1
    <3>1. i - 1 \in 1 .. Len(z) /\ y[i] = z[i - 1]
      BY <1>3, <1>4, <2>2
    <3> QED BY <3>1 DEF Anchors, Suspended
  <2> QED BY <2>1, <2>2
<1>7. y # <<>> /\ c = Head(y)[1]
  <2>1. y[1] = f /\ Len(y) # 0
    BY <1>2, <1>3
  <2>2. y # <<>> /\ Head(y) = y[1]
    BY <1>2, <2>1
  <2> QED BY <1>1, <2>1, <2>2
<1> QED BY <1>5, <1>6, <1>7 DEF Anchors, Suspended

\* A new thread gets a slot that no thread has, so that no pending event has
\* its tid.
LEMMA AnchorNew ==
  ASSUME NEW g, NEW th, NEW tids, NEW z \in Seq(Ctxs \X Coros), NEW wakes, NEW cur,
         Anchors(g, th, tids, z, wakes, cur),
         NEW c \in Ctxs, th[c] = Nil, NEW k \in Coros, Idling(k, th, z),
         NEW r \in NextRefs(g), NEW ti, NEW tj, Assigned(ti, th, c, k), Assigned(tj, tids, c, r)
  PROVE  Anchors(ref(g, c, r), ti, tj, z, wakes, cur) /\ r \notin wakes
<1>0. /\ \A d \in Ctxs : ti[d] = IF d = c THEN k ELSE th[d]
      /\ \A d \in Ctxs : tj[d] = IF d = c THEN r ELSE tids[d]
      /\ \A d \in Ctxs : th[d] # k
      /\ \A i \in 1 .. Len(z) : z[i][2] # k
  BY DEF Assigned, Idling
<1>1. g \in Registry /\ Reg!HasFreeList(g) /\ k # Nil /\ c \in Ctxs \cup Coros
  BY SchedulerAssumption DEF Anchors
<1>2. /\ r \in Slots /\ g.slot[r] \notin Ctxs
      /\ ref(g, c, r) \in Registry /\ Reg!HasFreeList(ref(g, c, r))
  BY <1>1, SameRegistry, Reg!RefLemma, SchedulerAssumption
<1>3. PICK y : y = ref(g, c, r)
  OBVIOUS
<1>4. \A q \in Slots : y.slot[q] = IF q = r THEN c ELSE g.slot[q]
  BY <1>1, <1>2, <1>3 DEF ref, Registry
<1>5. Found(y, ti, tj)
  <2> SUFFICES ASSUME NEW d \in Ctxs
               PROVE  /\ ti[d] # Nil => tj[d] \in Slots /\ \A q \in Slots : y.slot[q] = d <=> q = tj[d]
                      /\ ti[d] = Nil => \A q \in Slots : y.slot[q] # d
    BY DEF Found
  <2>1. CASE d = c
    <3>1. ti[d] = k /\ tj[d] = r /\ \A q \in Slots : g.slot[q] # c
      BY <1>0, <2>1 DEF Anchors, Found
    <3> QED BY <1>1, <1>2, <1>4, <2>1, <3>1
  <2>2. CASE d # c
    <3>1. ti[d] = th[d] /\ tj[d] = tids[d]
      BY <1>0, <2>2
    <3> QED BY <1>2, <1>4, <2>2, <3>1 DEF Anchors, Found
  <2> QED BY <2>1, <2>2
<1>6. ASSUME NEW tid \in wakes
      PROVE  /\ tid \in Slots /\ y.slot[tid] \in Ctxs /\ tid # r
             /\ \A i \in 1 .. Len(z) : z[i][2] # ti[y.slot[tid]]
  <2>1. PICK d \in Ctxs : d = g.slot[tid]
    BY DEF Anchors, Suspended
  <2>2. tid \in Slots /\ tid # r /\ \A i \in 1 .. Len(z) : z[i][2] # th[d]
    BY <1>2, <2>1 DEF Anchors, Suspended
  <2>3. y.slot[tid] = d /\ d # c
    BY <1>4, <2>1, <2>2 DEF Anchors, Found
  <2> QED BY <1>0, <2>2, <2>3
<1>7. ASSUME NEW i \in 1 .. Len(z) PROVE ti[z[i][1]] = z[i][2]
  <2>1. th[z[i][1]] = z[i][2] /\ z[i] \in Ctxs \X Coros /\ Nil \notin Coros
    BY SchedulerAssumption DEF Anchors, Suspended
  <2>2. z[i][1] # c /\ z[i][1] \in Ctxs
    BY <2>1
  <2> QED BY <1>0, <2>1, <2>2
<1> QED BY <1>2, <1>3, <1>5, <1>6, <1>7 DEF Anchors, Suspended

\* The running thread stops running and its tid may be armed.
LEMMA AnchorPop ==
  ASSUME NEW g, NEW th, NEW tids, NEW z \in Seq(Ctxs \X Coros), NEW wakes, NEW cur, NEW b,
         Anchors(g, th, tids, z, wakes, cur), OneOwner(b, th, z),
         z # <<>>, NEW c \in Ctxs, NEW k \in Coros, Head(z) = <<c, k>>,
         NEW more, more \subseteq wakes \cup {tids[c]}, NEW y, y = Tail(z)
  PROVE  Anchors(g, th, tids, y, more, Nil) /\ th[c] = k
<1>1. /\ y \in Seq(Ctxs \X Coros) /\ Len(y) = Len(z) - 1 /\ Len(z) \in Nat \ {0}
      /\ z[1] = <<c, k>> /\ 1 \in 1 .. Len(z)
  OBVIOUS
<1>2. \A i \in 1 .. Len(y) : y[i] = z[i + 1] /\ i + 1 \in 1 .. Len(z)
  BY <1>1
<1>3. th[c] = k /\ k # Nil
  <2>1. z[1][1] = c /\ z[1][2] = k
    BY <1>1
  <2> QED BY <1>1, <2>1, SchedulerAssumption DEF Anchors, Suspended
<1>4. \A i \in 1 .. Len(y) : y[i][2] # k
  <2>1. \A i \in 1 .. Len(y) : y[i][2] # Head(z)[2]
    BY OwnerPop
  <2> QED BY <2>1
<1>5. tids[c] \in Slots /\ g.slot[tids[c]] = c
  BY <1>3 DEF Anchors, Found
<1>6. \A tid \in more : /\ tid \in Slots /\ g.slot[tid] \in Ctxs
                        /\ \A i \in 1 .. Len(y) : y[i][2] # th[g.slot[tid]]
  <2> SUFFICES ASSUME NEW tid \in more
               PROVE  /\ tid \in Slots /\ g.slot[tid] \in Ctxs
                      /\ \A i \in 1 .. Len(y) : y[i][2] # th[g.slot[tid]]
    OBVIOUS
  <2>1. CASE tid \in wakes
    BY <1>2, <2>1 DEF Anchors, Suspended
  <2>2. CASE tid = tids[c]
    BY <1>3, <1>4, <1>5, <2>2
  <2> QED BY <2>1, <2>2
<1>7. \A i \in 1 .. Len(y) : th[y[i][1]] = y[i][2]
  BY <1>2 DEF Anchors, Suspended
<1> QED BY <1>3, <1>6, <1>7 DEF Anchors, Suspended

\* The running thread ends: it gives back its own slot.
LEMMA AnchorEnd ==
  ASSUME NEW g, NEW th, NEW tids, NEW z \in Seq(Ctxs \X Coros), NEW wakes, NEW cur, NEW b,
         Anchors(g, th, tids, z, wakes, cur), OneOwner(b, th, z),
         z # <<>>, NEW c \in Ctxs, NEW k \in Coros, Head(z) = <<c, k>>, NEW y, y = Tail(z),
         NEW ti, \A d \in Ctxs : ti[d] = IF d = c THEN Nil ELSE th[d]
  PROVE  Anchors(unref(g, tids[c]), ti, tids, y, wakes, Nil)
<1>1. th[c] = k /\ k # Nil /\ Anchors(g, th, tids, y, wakes, Nil)
  <2>1. th[c] = k /\ Anchors(g, th, tids, y, wakes, Nil)
    BY ONLY z \in Seq(Ctxs \X Coros), Anchors(g, th, tids, z, wakes, cur), OneOwner(b, th, z),
            z # <<>>, c \in Ctxs, k \in Coros, Head(z) = <<c, k>>, y = Tail(z), AnchorPop
  <2> QED BY <2>1, SchedulerAssumption
<1>2. y \in Seq(Ctxs \X Coros) /\ \A i \in 1 .. Len(y) : y[i][2] # k
  <2>1. \A i \in 1 .. Len(y) : y[i][2] # Head(z)[2]
    BY ONLY z \in Seq(Ctxs \X Coros), OneOwner(b, th, z), z # <<>>, y = Tail(z), OwnerPop
  <2>2. y \in Seq(Ctxs \X Coros) /\ Head(z)[2] = k
    OBVIOUS
  <2> QED BY <2>1, <2>2
<1>3. PICK r \in Slots : r = tids[c] /\ g.slot[r] = c /\ g \in Registry /\ Reg!HasFreeList(g)
  BY <1>1 DEF Anchors, Found
<1>4. unref(g, r) \in Registry /\ Reg!HasFreeList(unref(g, r))
  BY <1>3, SameRegistry, Reg!UnrefLemma, SchedulerAssumption
<1>5. PICK h : h = unref(g, r)
  OBVIOUS
<1>6. /\ \A q \in Slots : h.slot[q] = IF q = r THEN g.head ELSE g.slot[q]
      /\ g.head \notin Ctxs
  <2>1. g.head \in Slots \cup {Nil} /\ Slots \subseteq Int
    BY <1>3 DEF Registry, Slots
  <2> QED BY <1>3, <1>5, <2>1, SchedulerAssumption DEF unref, Registry
<1>7. Found(h, ti, tids)
  <2> SUFFICES ASSUME NEW d \in Ctxs
               PROVE  /\ ti[d] # Nil => tids[d] \in Slots /\ \A q \in Slots : h.slot[q] = d <=> q = tids[d]
                      /\ ti[d] = Nil => \A q \in Slots : h.slot[q] # d
    BY DEF Found
  <2>1. CASE d = c
    <3>1. ti[d] = Nil /\ \A q \in Slots : g.slot[q] = c => q = r
      BY <1>1, <1>3, <2>1 DEF Anchors, Found
    <3> QED BY <1>6, <2>1, <3>1
  <2>2. CASE d # c
    <3>1. ti[d] = th[d]
      BY <2>2
    <3>2. \A q \in Slots : h.slot[q] = d <=> g.slot[q] = d
      BY <1>3, <1>6, <2>2
    <3> QED BY <3>1, <3>2 DEF Anchors, Found
  <2> QED BY <2>1, <2>2
<1>8. ASSUME NEW tid \in wakes
      PROVE  /\ tid \in Slots /\ h.slot[tid] \in Ctxs
             /\ \A i \in 1 .. Len(y) : y[i][2] # ti[h.slot[tid]]
  <2>1. /\ tid \in Slots /\ g.slot[tid] \in Ctxs
        /\ \A i \in 1 .. Len(y) : y[i][2] # th[g.slot[tid]]
    BY <1>1 DEF Anchors, Suspended
  <2>2. 1 \in 1 .. Len(z) /\ z[1][2] = k
    OBVIOUS
  <2>3. g.slot[tid] # c
    BY <1>1, <2>2 DEF Anchors, Suspended
  <2>4. tid # r /\ h.slot[tid] = g.slot[tid]
    BY <1>3, <1>6, <2>1, <2>3
  <2> QED BY <2>1, <2>3, <2>4
<1>9. ASSUME NEW i \in 1 .. Len(y) PROVE ti[y[i][1]] = y[i][2]
  <2>1. th[y[i][1]] = y[i][2] /\ y[i] \in Ctxs \X Coros
    BY <1>1, <1>2 DEF Anchors, Suspended
  <2>2. y[i][1] # c /\ y[i][1] \in Ctxs
    BY <1>1, <1>2, <2>1
  <2> QED BY <2>1, <2>2
<1> QED BY <1>3, <1>4, <1>5, <1>7, <1>8, <1>9 DEF Anchors, Suspended

\* The state names are nil.
LEMMA NilNames ==
  TS_RUNNABLE = Nil /\ TS_DONE = Nil /\ TS_BLOCKED_EVENT = Nil /\ TS_BLOCKED_THREAD = Nil
BY DEF TS_RUNNABLE, TS_DONE, TS_BLOCKED_EVENT, TS_BLOCKED_THREAD

\* What the invariant says about a state with the same threads and ids.
LEMMA SameAnchors ==
  ASSUME NEW p, NEW q, SameThreads(p.ctx, q.ctx)
  PROVE  ThreadOf(p) = ThreadOf(q) /\ TidOf(p) = TidOf(q)
BY DEF SameThreads, ThreadOf, TidOf

\* Resuming a thread that has not ended and is not running runs it.
LEMMA ResumeAnchors ==
  ASSUME stack \in Seq(Ctxs \X Coros), NEW q \in State, NEW c \in Ctxs, NEW from \in [Ctxs -> Where],
         NEW k \in Coros, k = q.ctx[c].thread, ~OnStack(k), resumeThread(q, c, from),
         OneOwner(q.pool, ThreadOf(q), stack), NEW wakes, NEW cur,
         Anchors(q.registry, ThreadOf(q), TidOf(q), stack, wakes, cur),
         NEW left \in SUBSET wakes, TidOf(q)[c] \notin left,
         \A d \in Ctxs : from[d] = "new" /\ d # c => q.ctx[d].thread = Nil
  PROVE  /\ Anchors(s'.registry, ThreadOf(s'), TidOf(s'), stack', left, s'.current)
         /\ \A d \in Ctxs : at'[d] = "new" => s'.ctx[d].thread = Nil
<1>1. k # Nil
  BY SchedulerAssumption
<1>2. /\ s' = [q EXCEPT !.current = c] /\ stack' = <<<<c, k>>>> \o stack
      /\ at' = [from EXCEPT ![c] = IF @ = "join" THEN "join" ELSE "run"]
  BY <1>1 DEF resumeThread, Fails
<1>3. s'.registry = q.registry /\ s'.ctx = q.ctx /\ s'.current = c
  BY <1>2 DEF State
<1>4. ThreadOf(s') = ThreadOf(q) /\ TidOf(s') = TidOf(q) /\ ThreadOf(q)[c] = k
  BY <1>3 DEF ThreadOf, TidOf
<1>5. PICK f, y : f = <<c, k>> /\ y = <<f>> \o stack
  OBVIOUS
<1>6. PICK th, tids, b, g, z : th = ThreadOf(q) /\ tids = TidOf(q) /\ b = q.pool /\ g = q.registry /\ z = stack
  OBVIOUS
<1>7. Anchors(g, th, tids, y, left, c)
  <2>1. /\ z \in Seq(Ctxs \X Coros) /\ Anchors(g, th, tids, z, wakes, cur) /\ OneOwner(b, th, z)
        /\ th[c] = k /\ left \in SUBSET wakes /\ tids[c] \notin left /\ y = <<f>> \o z
        /\ f = <<c, k>> /\ c \in Ctxs /\ k \in Coros
    BY <1>4, <1>5, <1>6
  <2> QED BY ONLY <2>1, AnchorPush
<1>8. \A d \in Ctxs : at'[d] = "new" => s'.ctx[d].thread = Nil
  BY <1>2, <1>3
<1>9. stack' = y
  BY <1>2, <1>5
<1> QED BY <1>3, <1>4, <1>6, <1>7, <1>8, <1>9

\* newThread registers the new thread.
LEMMA NewAnchors ==
  ASSUME PoolInv, AnchorInv, NEW c \in Ctxs, NewContext(c), CanCreate,
         NEW r \in NextRefs(s.registry), NEW k, k = NewCoroutine, NEW p, p = newThread(c, k, r)
  PROVE  /\ p.ctx[c].thread = k /\ p.ctx[c].tid = r
         /\ \A d \in Ctxs \ {c} : p.ctx[d] = s.ctx[d]
         /\ ~stale => /\ Anchors(p.registry, ThreadOf(p), TidOf(p), stack, armed, p.current)
                      /\ r \notin armed
<1>1. /\ k \in Coros /\ r \in Slots /\ Idling(k, ThreadOf(s), stack)
      /\ p \in State /\ p.registry = ref(s.registry, c, r) /\ p.current = s.current
      /\ p.ctx = [s.ctx EXCEPT ![c] = FirstCtx(r, k)]
  BY ONLY PoolInv, CanCreate, k = NewCoroutine, p = newThread(c, k, r), NewThread
<1>2. PICK n : n = FirstCtx(r, k)
  OBVIOUS
<1>3. n.tid = r /\ n.thread = k
  BY <1>2 DEF NoCtx, FirstCtx
<1>4. s.ctx \in [Ctxs -> threadCtx] /\ stack \in Seq(Ctxs \X Coros)
  BY DEF PoolInv, Types, State
<1>6. p.ctx[c] = n /\ \A d \in Ctxs \ {c} : p.ctx[d] = s.ctx[d]
  BY <1>1, <1>2, <1>4
<1>7. ASSUME ~stale
      PROVE  /\ Anchors(p.registry, ThreadOf(p), TidOf(p), stack, armed, p.current)
             /\ r \notin armed
  <2>1. PICK th, tids, ti, tj, g, z, wakes, cur :
          /\ th = ThreadOf(s) /\ tids = TidOf(s) /\ ti = ThreadOf(p) /\ tj = TidOf(p)
          /\ g = s.registry /\ z = stack /\ wakes = armed /\ cur = s.current
    OBVIOUS
  <2>2. /\ z \in Seq(Ctxs \X Coros) /\ Anchors(g, th, tids, z, wakes, cur) /\ r \in NextRefs(g)
        /\ k \in Coros /\ Idling(k, th, z)
    BY <1>1, <1>4, <1>7, <2>1 DEF AnchorInv
  <2>3. th[c] = Nil /\ Assigned(ti, th, c, k) /\ Assigned(tj, tids, c, r)
    BY <1>3, <1>6, <1>7, <2>1 DEF ThreadOf, TidOf, AnchorInv, NewContext, Assigned
  <2>4. Anchors(ref(g, c, r), ti, tj, z, wakes, cur) /\ r \notin wakes
    BY ONLY <2>2, <2>3, AnchorNew
  <2> QED BY <1>1, <2>1, <2>4
<1> QED BY <1>3, <1>6, <1>7

\* The running thread yields; an event may be armed with its tid.
LEMMA YieldAnchors ==
  ASSUME PoolInv, AnchorInv, NEW c \in Ctxs, NEW k \in Coros,
         stack # <<>>, Head(stack) = <<c, k>>, stack' = Tail(stack),
         NEW state, state = Nil, s' = yielded(s, c, state),
         ~stale' => ~stale,
         ~stale => armed' \subseteq armed \cup {s.ctx[c].tid},
         NEW w, w # "new", at' \in {at, [at EXCEPT ![c] = w]}
  PROVE  AnchorInv'
<1>1. s \in State /\ stack \in Seq(Ctxs \X Coros) /\ at \in [Ctxs -> Where]
  BY DEF PoolInv, Types
<1>3. state \in States
  BY DEF States
<1>4. s'.registry = s.registry /\ s'.current = Nil /\ SameThreads(s'.ctx, s.ctx)
  BY <1>1, <1>3, YieldedKeeps
<1>5. ThreadOf(s') = ThreadOf(s) /\ TidOf(s') = TidOf(s)
  BY <1>4, SameAnchors
<1>6. ASSUME ~stale'
      PROVE  /\ Anchors(s'.registry, ThreadOf(s'), TidOf(s'), stack', armed', s'.current)
             /\ \A d \in Ctxs : at'[d] = "new" => s'.ctx[d].thread = Nil
  <2>1. PICK th, tids, b, g, z, y, wakes, more, cur :
          /\ th = ThreadOf(s) /\ tids = TidOf(s) /\ b = s.pool /\ g = s.registry /\ z = stack
          /\ y = stack' /\ wakes = armed /\ more = armed' /\ cur = s.current
    OBVIOUS
  <2>2. tids[c] = s.ctx[c].tid /\ ~stale
    BY <1>6, <2>1 DEF TidOf
  <2>3. /\ z \in Seq(Ctxs \X Coros) /\ Anchors(g, th, tids, z, wakes, cur) /\ OneOwner(b, th, z)
        /\ z # <<>> /\ Head(z) = <<c, k>> /\ y = Tail(z)
    BY <1>1, <2>1, <2>2 DEF AnchorInv, PoolInv
  <2>4. more \subseteq wakes \cup {tids[c]}
    BY <2>1, <2>2
  <2>5. Anchors(g, th, tids, y, more, Nil)
    BY ONLY <2>3, <2>4, AnchorPop
  <2>6. \A d \in Ctxs : at'[d] = "new" => at[d] = "new"
    BY <1>1
  <2>7. \A d \in Ctxs : s'.ctx[d].thread = s.ctx[d].thread
    BY <1>4 DEF SameThreads
  <2> QED BY <1>4, <1>5, <2>1, <2>2, <2>5, <2>6, <2>7 DEF AnchorInv
<1> QED BY <1>6 DEF AnchorInv

\* What endOfThread gives back to registry and pool has its type.
LEMMA EndTypes ==
  ASSUME PoolInv, NEW c \in Ctxs, NEW k \in Coros, NEW j, NEW pooled \in BOOLEAN, pooled => j = k
  PROVE  /\ unref(s.registry, s.ctx[c].tid) \in AnyRegistry
         /\ (IF pooled /\ CanOffer(s.pool) THEN offer(s.pool, j) ELSE s.pool) \in RingBuffer
<1>1. s.ctx[c] \in threadCtx /\ s.registry \in AnyRegistry /\ s.pool \in RingBuffer
  BY DEF PoolInv, Types, State
<1>2. unref(s.registry, s.ctx[c].tid) \in AnyRegistry
  BY <1>1, AnyUnref DEF threadCtx
<1>3. CASE ~(pooled /\ CanOffer(s.pool))
  BY <1>1, <1>2, <1>3
<1>4. CASE pooled /\ CanOffer(s.pool)
  <2>1. Buf!Sound(s.pool) /\ Buf!CanOffer(s.pool) /\ j \in Ctxs \cup Coros
    BY <1>4, SameBuffer DEF PoolInv, OneOwner
  <2>2. Buf!Sound(Buf!offer(s.pool, j))
    BY <2>1, Buf!OfferLemma, SchedulerAssumption
  <2>3. offer(s.pool, j) \in RingBuffer
    BY <2>2, SameBuffer DEF Buf!Sound
  <2> QED BY <1>2, <1>4, <2>3
<1> QED BY <1>3, <1>4

\* The running thread ends.
LEMMA EndAnchors ==
  ASSUME PoolInv, AnchorInv, NEW c \in Ctxs, NEW k \in Coros,
         stack # <<>>, Head(stack) = <<c, k>>, stack' = Tail(stack), NEW j, NEW pooled \in BOOLEAN,
         pooled => j = k, s' = endOfThread(s, c, j, pooled), UNCHANGED <<armed, stale>>,
         at' = [at EXCEPT ![c] = "over"]
  PROVE  AnchorInv'
<1>1. /\ s \in State /\ stack \in Seq(Ctxs \X Coros) /\ at \in [Ctxs -> Where]
      /\ s.ctx[c] \in threadCtx /\ s.registry \in AnyRegistry /\ s.pool \in RingBuffer
  BY DEF PoolInv, Types, State
<1>3. PICK g : g = unref(s.registry, s.ctx[c].tid)
  OBVIOUS
<1>4. /\ s'.registry = g /\ s'.current = Nil
      /\ \A d \in Ctxs : /\ s'.ctx[d].thread = IF d = c THEN Nil ELSE s.ctx[d].thread
                         /\ s'.ctx[d].tid = s.ctx[d].tid
  <2>1. /\ g \in AnyRegistry
        /\ (IF pooled /\ CanOffer(s.pool) THEN offer(s.pool, j) ELSE s.pool) \in RingBuffer
    BY <1>3, EndTypes
  <2>2. PICK b \in RingBuffer : b = IF pooled /\ CanOffer(s.pool) THEN offer(s.pool, j) ELSE s.pool
    BY <2>1
  <2> QED BY <1>1, <1>3, <2>1, <2>2, EndKeeps
<1>5. ASSUME ~stale
      PROVE  Anchors(s'.registry, ThreadOf(s'), TidOf(s'), stack', armed, s'.current)
  <2>1. PICK th, tids, b, h, z, y, wakes, cur, ti :
          /\ th = ThreadOf(s) /\ tids = TidOf(s) /\ b = s.pool /\ h = s.registry /\ z = stack
          /\ y = stack' /\ wakes = armed /\ cur = s.current /\ ti = ThreadOf(s')
    OBVIOUS
  <2>2. TidOf(s') = tids /\ tids[c] = s.ctx[c].tid
    BY <1>4, <2>1 DEF TidOf
  <2>3. \A d \in Ctxs : ti[d] = IF d = c THEN Nil ELSE th[d]
    BY <1>4, <2>1 DEF ThreadOf
  <2>4. /\ z \in Seq(Ctxs \X Coros) /\ Anchors(h, th, tids, z, wakes, cur) /\ OneOwner(b, th, z)
        /\ z # <<>> /\ Head(z) = <<c, k>> /\ y = Tail(z)
    BY <1>1, <1>5, <2>1 DEF AnchorInv, PoolInv
  <2>5. Anchors(unref(h, tids[c]), ti, tids, y, wakes, Nil)
    BY ONLY <2>3, <2>4, AnchorEnd
  <2> QED BY <1>3, <1>4, <2>1, <2>2, <2>5
<1>6. ASSUME NEW d \in Ctxs, ~stale, at'[d] = "new" PROVE s'.ctx[d].thread = Nil
  <2>1. d # c /\ at[d] = "new"
    BY <1>1, <1>6
  <2> QED BY <1>4, <1>6, <2>1 DEF AnchorInv
<1> QED BY <1>5, <1>6 DEF AnchorInv

\* The calls of a running thread.
LEMMA RunAnchors ==
  ASSUME PoolInv, AnchorInv, NEW c \in Ctxs, NEW k \in Coros, RunStep(c, k)
  PROVE  AnchorInv'
<1>1. s \in State /\ stack \in Seq(Ctxs \X Coros) /\ at \in [Ctxs -> Where]
  BY DEF PoolInv, Types
<1>2. CASE \E d \in Ctxs : startUserThread(c, k, d)
  <2>1. PICK d \in Ctxs : startUserThread(c, k, d)
    BY <1>2
  <2>2. PICK r \in NextRefs(s.registry) : s' = addToRunQueue(newThread(d, NewCoroutine, r), d)
    BY <2>1 DEF startUserThread
  <2>3. /\ NewContext(d) /\ CanCreate /\ at' = [at EXCEPT ![d] = "start"]
        /\ UNCHANGED <<stack, armed, stale>>
    BY <2>1 DEF startUserThread
  <2>4. PICK h, p : h = NewCoroutine /\ p = newThread(d, h, r)
    OBVIOUS
  <2>5. p \in State
    BY <2>3, <2>4, NewThread
  <2>6. /\ \A e \in Ctxs \ {d} : p.ctx[e] = s.ctx[e]
        /\ ~stale => Anchors(p.registry, ThreadOf(p), TidOf(p), stack, armed, p.current)
    BY <2>3, <2>4, NewAnchors
  <2>7. s' \in State /\ Keeps(s', p)
    BY <2>2, <2>4, <2>5, AddKeeps
  <2>8. /\ ThreadOf(s') = ThreadOf(p) /\ TidOf(s') = TidOf(p)
        /\ s'.registry = p.registry /\ s'.current = p.current
    BY <2>7, SameAnchors DEF Keeps
  <2>9. ASSUME NEW e \in Ctxs, ~stale, at'[e] = "new" PROVE s'.ctx[e].thread = Nil
    <3>1. e # d /\ at[e] = "new"
      BY <1>1, <2>3, <2>9
    <3>2. s'.ctx[e].thread = p.ctx[e].thread
      BY <2>7 DEF Keeps, SameThreads
    <3> QED BY <2>6, <2>9, <3>1, <3>2 DEF AnchorInv
  <2> QED BY <2>3, <2>6, <2>7, <2>8, <2>9 DEF AnchorInv
<1>3. CASE blockOnEvent(c, k)
  <2>1. /\ stack # <<>> /\ Head(stack) = <<c, k>> /\ stack' = Tail(stack)
        /\ s' = yielded(s, c, TS_BLOCKED_EVENT) /\ UNCHANGED stale
        /\ s.current # Nil /\ armed' = armed \cup {s.ctx[s.current].tid}
        /\ at' = [at EXCEPT ![c] = "event"]
    BY <1>3 DEF blockOnEvent, Runs
  <2>2. ASSUME ~stale PROVE s.current = c
    <3>1. s.current = Head(stack)[1]
      BY <2>1, <2>2 DEF AnchorInv, Anchors, Suspended
    <3> QED BY <2>1, <3>1
  <2>3. ~stale => armed' \subseteq armed \cup {s.ctx[c].tid}
    BY <2>1, <2>2
  <2>4. PICK state : state = TS_BLOCKED_EVENT /\ state = Nil
    BY NilNames
  <2>5. PICK w : w = "event" /\ w # "new"
    OBVIOUS
  <2>6. s' = yielded(s, c, state) /\ at' \in {at, [at EXCEPT ![c] = w]} /\ (~stale' => ~stale)
    BY <2>1, <2>4, <2>5
  <2> QED BY ONLY PoolInv, AnchorInv, <2>1, <2>3, <2>4, <2>5, <2>6, YieldAnchors
<1>4. CASE yield(c, k)
  <2>1. /\ stack # <<>> /\ Head(stack) = <<c, k>> /\ stack' = Tail(stack)
        /\ s' = yielded(s, c, Nil) /\ UNCHANGED <<armed, stale>> /\ at' = [at EXCEPT ![c] = "yield"]
    BY <1>4 DEF yield, Runs
  <2>2. PICK state, w : state = Nil /\ w = "yield" /\ w # "new"
    OBVIOUS
  <2>3. /\ s' = yielded(s, c, state) /\ at' \in {at, [at EXCEPT ![c] = w]} /\ (~stale' => ~stale)
        /\ ~stale => armed' \subseteq armed \cup {s.ctx[c].tid}
    BY <2>1, <2>2
  <2> QED BY ONLY PoolInv, AnchorInv, <2>1, <2>2, <2>3, YieldAnchors
<1>5. ASSUME UNCHANGED <<s, stack, armed, stale>>, NEW w, w # "new", at' = [at EXCEPT ![c] = w]
      PROVE  AnchorInv'
  <2>1. \A d \in Ctxs : at'[d] = "new" => at[d] = "new"
    BY <1>1, <1>5
  <2> QED BY <1>5, <2>1 DEF AnchorInv
<1>6. CASE \E ds \in SUBSET (Ctxs \ {c}) : join(c, k, ds)
  <2>1. UNCHANGED <<s, stack, armed, stale>> /\ at' = [at EXCEPT ![c] = "join"]
    BY <1>6 DEF join
  <2> QED BY <1>5, <2>1
<1>7. CASE joinReturns(c, k)
  <2>1. UNCHANGED <<s, stack, armed, stale>> /\ at' = [at EXCEPT ![c] = "run"]
    BY <1>7 DEF joinReturns
  <2> QED BY <1>5, <2>1
<1>8. CASE return(c, k) \/ raise(c, k)
  <2>1. PICK pooled \in BOOLEAN, j \in {k, Nil} :
          s' = endOfThread(s, c, j, pooled) /\ (pooled => j = k)
    <3>1. threadRunLoop(k) \in BOOLEAN
      BY DEF threadRunLoop
    <3> QED BY <1>8, <3>1 DEF return, raise
  <2>2. /\ stack # <<>> /\ Head(stack) = <<c, k>> /\ stack' = Tail(stack)
        /\ at' = [at EXCEPT ![c] = "over"] /\ UNCHANGED <<armed, stale>>
    BY <1>8 DEF return, raise, Runs
  <2> QED BY ONLY PoolInv, AnchorInv, <2>1, <2>2, EndAnchors
<1> QED BY <1>2, <1>3, <1>4, <1>6, <1>7, <1>8 DEF RunStep

\* Steps of the event loop.
LEMMA LoopAnchors ==
  ASSUME PoolInv, AnchorInv,
         \/ \E tid \in Slots : resumeThreadId(tid)
         \/ \E c \in Ctxs : startSystemThread(c)
         \/ runReadyThreads
         \/ runNextFromRunQueue
  PROVE  AnchorInv'
<1>1. /\ s \in State /\ stack \in Seq(Ctxs \X Coros) /\ at \in [Ctxs -> Where]
      /\ OneOwner(s.pool, ThreadOf(s), stack)
  BY DEF PoolInv, Types
<1>2. ASSUME NEW tid \in Slots, resumeThreadId(tid) PROVE AnchorInv'
  <2>1. PICK c : c = s.registry.slot[tid]
    OBVIOUS
  <2>3. ASSUME ~stale'
        PROVE  /\ Anchors(s'.registry, ThreadOf(s'), TidOf(s'), stack', armed', s'.current)
               /\ \A d \in Ctxs : at'[d] = "new" => s'.ctx[d].thread = Nil
    <3>1. tid \in armed /\ armed' = armed \ {tid} /\ ~stale
      BY <1>2, <2>3 DEF resumeThreadId
    <3>2. /\ Anchors(s.registry, ThreadOf(s), TidOf(s), stack, armed, s.current)
          /\ \A d \in Ctxs : at[d] = "new" => s.ctx[d].thread = Nil
      BY <3>1 DEF AnchorInv
    <3>3. c \in Ctxs /\ \A i \in 1 .. Len(stack) : stack[i][2] # ThreadOf(s)[c]
      BY <2>1, <3>1, <3>2 DEF Anchors, Suspended
    <3>4. PICK k : k = s.ctx[c].thread
      OBVIOUS
    <3>5. ThreadOf(s)[c] = k
      BY <3>3, <3>4 DEF ThreadOf
    <3>6. k # Nil /\ TidOf(s)[c] = tid
      BY <2>1, <3>2, <3>3, <3>5 DEF Anchors, Found
    <3>7. k \in Coros
      <4>1. s.ctx[c] \in threadCtx
        BY <1>1, <3>3 DEF State
      <4> QED BY <3>4, <3>6, <4>1 DEF threadCtx
    <3>8. ~OnStack(k)
      BY <3>3, <3>5 DEF OnStack
    <3>9. resumeThread(s, c, at)
      BY <1>2, <2>1, <3>3 DEF resumeThreadId
    <3>10. PICK left \in SUBSET armed : left = armed' /\ TidOf(s)[c] \notin left
      BY <3>1, <3>6
    <3>11. \A d \in Ctxs : at[d] = "new" /\ d # c => s.ctx[d].thread = Nil
      BY <3>2
    <3>12. PICK q, cur, from, wakes : q = s /\ cur = s.current /\ from = at /\ wakes = armed
      OBVIOUS
    <3>13. /\ q \in State /\ from \in [Ctxs -> Where] /\ k = q.ctx[c].thread /\ resumeThread(q, c, from)
           /\ OneOwner(q.pool, ThreadOf(q), stack) /\ left \in SUBSET wakes
           /\ Anchors(q.registry, ThreadOf(q), TidOf(q), stack, wakes, cur)
           /\ TidOf(q)[c] \notin left
           /\ \A d \in Ctxs : from[d] = "new" /\ d # c => q.ctx[d].thread = Nil
      BY <1>1, <3>2, <3>4, <3>9, <3>10, <3>11, <3>12
    <3>14. /\ Anchors(s'.registry, ThreadOf(s'), TidOf(s'), stack', left, s'.current)
           /\ \A d \in Ctxs : at'[d] = "new" => s'.ctx[d].thread = Nil
      BY ONLY <1>1, <3>3, <3>7, <3>8, <3>13, ResumeAnchors
    <3> QED BY <3>10, <3>14
  <2> QED BY <2>3 DEF AnchorInv
<1>3. ASSUME NEW c \in Ctxs, startSystemThread(c) PROVE AnchorInv'
  <2>1. PICK r \in NextRefs(s.registry) :
          resumeThread([newThread(c, NewCoroutine, r) EXCEPT !.ctx[c].state = TS_RUNNABLE], c, at)
    BY <1>3 DEF startSystemThread
  <2>2. NewContext(c) /\ CanCreate /\ UNCHANGED <<armed, stale>>
    BY <1>3 DEF startSystemThread
  <2>3. PICK h, p : h = NewCoroutine /\ p = newThread(c, h, r)
    OBVIOUS
  <2>4. /\ p \in State /\ OneOwner(p.pool, ThreadOf(p), stack)
        /\ h \in Coros /\ Idling(h, ThreadOf(s), stack)
    BY <2>2, <2>3, NewThread
  <2>5. /\ p.ctx[c].thread = h /\ p.ctx[c].tid = r
        /\ \A d \in Ctxs \ {c} : p.ctx[d] = s.ctx[d]
        /\ ~stale => /\ Anchors(p.registry, ThreadOf(p), TidOf(p), stack, armed, p.current)
                     /\ r \notin armed
    BY <2>2, <2>3, NewAnchors
  <2>6. PICK g \in [Ctxs -> threadCtx] :
          g = [p.ctx EXCEPT ![c].state = TS_RUNNABLE] /\ SameThreads(g, p.ctx)
    <3>1. p.ctx \in [Ctxs -> threadCtx]
      BY <2>4 DEF State
    <3> QED BY <3>1, CtxLemma, StateNames
  <2>7. PICK q \in State : q = [p EXCEPT !.ctx = g]
    BY <2>4 DEF State
  <2>8. q.pool = p.pool /\ q.ctx = g /\ q.registry = p.registry /\ q.current = p.current
    BY <2>4, <2>7 DEF State
  <2>9. ThreadOf(q) = ThreadOf(p) /\ TidOf(q) = TidOf(p)
    BY <2>6, <2>8, SameAnchors
  <2>10. resumeThread(q, c, at)
    BY <2>1, <2>3, <2>6, <2>7
  <2>12. ASSUME ~stale
         PROVE  /\ Anchors(s'.registry, ThreadOf(s'), TidOf(s'), stack', armed, s'.current)
                /\ \A d \in Ctxs : at'[d] = "new" => s'.ctx[d].thread = Nil
    <3>1. \A d \in Ctxs : at[d] = "new" /\ d # c => q.ctx[d].thread = Nil
      <4>1. \A d \in Ctxs \ {c} : q.ctx[d].thread = s.ctx[d].thread
        BY <2>5, <2>6, <2>8 DEF SameThreads
      <4> QED BY <2>12, <4>1 DEF AnchorInv
    <3>2. h = q.ctx[c].thread /\ TidOf(q)[c] = r
      BY <2>5, <2>6, <2>8 DEF SameThreads, TidOf
    <3>3. ~OnStack(h)
      BY <2>4 DEF Idling, OnStack
    <3>4. PICK cur, from, wakes, left : cur = p.current /\ from = at /\ wakes = armed /\ left = armed
      OBVIOUS
    <3>5. /\ from \in [Ctxs -> Where] /\ h = q.ctx[c].thread /\ resumeThread(q, c, from)
          /\ OneOwner(q.pool, ThreadOf(q), stack) /\ left \in SUBSET wakes
          /\ Anchors(q.registry, ThreadOf(q), TidOf(q), stack, wakes, cur)
          /\ TidOf(q)[c] \notin left
          /\ \A d \in Ctxs : from[d] = "new" /\ d # c => q.ctx[d].thread = Nil
      BY <1>1, <2>4, <2>5, <2>8, <2>9, <2>10, <2>12, <3>1, <3>2, <3>4
    <3>6. /\ Anchors(s'.registry, ThreadOf(s'), TidOf(s'), stack', left, s'.current)
          /\ \A d \in Ctxs : at'[d] = "new" => s'.ctx[d].thread = Nil
      BY ONLY <1>1, <2>4, <3>3, <3>5, ResumeAnchors
    <3> QED BY <3>4, <3>6
  <2> QED BY <2>2, <2>12 DEF AnchorInv
<1>4. CASE runReadyThreads
  BY <1>4 DEF runReadyThreads, AnchorInv
<1>5. CASE runNextFromRunQueue
  <2>1. UNCHANGED <<armed, stale>>
    BY <1>5 DEF runNextFromRunQueue
  <2>2. CASE UNCHANGED <<s, at, stack>>
    BY <2>1, <2>2 DEF AnchorInv
  <2>3. CASE s.head # Nil
    <3>1. s.ctx[s.head].state = TS_DONE
      <4>1. s.ctx[s.head] \in threadCtx
        BY <1>1, <2>3 DEF State
      <4> QED BY <4>1, NilNames DEF threadCtx
    <3>2. s' = Dequeue(s) /\ UNCHANGED <<at, stack>>
      BY <1>5, <2>3, <3>1 DEF runNextFromRunQueue
    <3>3. Keeps(s', s)
      BY <1>1, <2>3, <3>2, DequeueKeeps
    <3>4. /\ ThreadOf(s') = ThreadOf(s) /\ TidOf(s') = TidOf(s)
          /\ s'.registry = s.registry /\ s'.current = s.current
      BY <3>3, SameAnchors DEF Keeps
    <3>5. \A d \in Ctxs : s'.ctx[d].thread = s.ctx[d].thread
      BY <3>3 DEF Keeps, SameThreads
    <3> QED BY <2>1, <3>2, <3>3, <3>4, <3>5 DEF AnchorInv
  <2> QED BY <1>5, <2>2, <2>3 DEF runNextFromRunQueue
<1> QED BY <1>2, <1>3, <1>4, <1>5

LEMMA AnchorInit == Init => AnchorInv
<1> SUFFICES ASSUME Init PROVE AnchorInv
  OBVIOUS
<1>1. /\ s.registry = newRegistry /\ s.ctx = [c \in Ctxs |-> NoCtx]
      /\ s.current = Nil /\ stack = <<>> /\ armed = {}
  BY DEF Init
<1>2. NoCtx.thread = Nil
  BY DEF NoCtx
<1>3. \A c \in Ctxs : s.ctx[c].thread = Nil /\ ThreadOf(s)[c] = Nil
  BY <1>1, <1>2 DEF ThreadOf
<1>4. PICK g : g = newRegistry
  OBVIOUS
<1>5. g.slot = [i \in Slots |-> Nil] /\ g.head = Nil /\ g \in Registry
  BY <1>4 DEF newRegistry, Registry
<1>6. Reg!HasFreeList(g)
  <2> DEFINE f == [i \in 1 .. 0 |-> 1]
  <2>1. 0 \in Nat /\ 0 \in 0 .. MaxRef /\ f \in [1 .. 0 -> Reg!Slots]
    BY SchedulerAssumption
  <2>2. Reg!FreeList(g, f, 0, 0)
    BY <1>5, SchedulerAssumption, SameRegistry DEF Reg!FreeList, Slots
  <2> HIDE DEF f
  <2> QED BY <2>1, <2>2 DEF Reg!HasFreeList
<1>7. Found(g, ThreadOf(s), TidOf(s))
  <2>1. \A r \in Slots : g.slot[r] = Nil
    BY <1>5
  <2> QED BY <1>3, <2>1, SchedulerAssumption DEF Found
<1>8. Suspended(g, ThreadOf(s), stack, armed, s.current)
  <2>1. 1 .. Len(stack) = {}
    BY <1>1
  <2> QED BY <1>1, <2>1 DEF Suspended
<1> QED BY <1>1, <1>3, <1>4, <1>5, <1>6, <1>7, <1>8 DEF AnchorInv, Anchors

-----------------------------------------------------------------------------
(* The registry's theorem *)

\* Registry, ids, stack and pending events fit together in every state.
THEOREM AnchorInductive == Spec => [](PoolInv /\ AnchorInv)
<1>1. Init => PoolInv /\ AnchorInv
  BY PoolInit, AnchorInit
<1>2. PoolInv /\ AnchorInv /\ [Next]_vars => (PoolInv /\ AnchorInv)'
  <2> SUFFICES ASSUME PoolInv, AnchorInv, [Next]_vars PROVE (PoolInv /\ AnchorInv)'
    OBVIOUS
  <2>1. CASE UNCHANGED vars
    BY <2>1 DEF vars, PoolInv, Types, AnchorInv, ThreadOf, TidOf
  <2>2. CASE Next
    BY <2>2, LoopOwner, RunOwner, LoopAnchors, RunAnchors DEF Next
  <2> QED BY <2>1, <2>2
<1> QED BY <1>1, <1>2, PTL DEF Spec

\* In the code as it is, a thread that has not ended is found in the scheduler's
\* thread registry under its own tid and nowhere else, and one that has ended
\* is not found, as long as every event resumes its tid once: no tid is reused
\* while its thread lives, and ending a thread frees its own slot only.
THEOREM ThreadsAreAnchored == Spec => []Anchored
<1>1. AnchorInv => Anchored
  <2> SUFFICES ASSUME AnchorInv, ~stale, NEW c \in Ctxs
               PROVE  /\ Live(c) => s.registry.slot[s.ctx[c].tid] = c
                      /\ ~Live(c) => \A r \in Slots : s.registry.slot[r] # c
    BY DEF Anchored
  <2>1. Found(s.registry, ThreadOf(s), TidOf(s))
    BY DEF AnchorInv, Anchors
  <2>2. ThreadOf(s)[c] = s.ctx[c].thread /\ TidOf(s)[c] = s.ctx[c].tid
    BY DEF ThreadOf, TidOf
  <2> QED BY <2>1, <2>2 DEF Found, Live
<1> QED BY <1>1, AnchorInductive, PTL

-----------------------------------------------------------------------------
(* The run queue *)

NextOf(q) == [c \in Ctxs |-> q.ctx[c].nextThread]

\* Links nx lead from head h through the n contexts of Q to tail t, and no
\* other context has a link.
Linked(h, t, n, nx, Q) ==
  /\ h = IF n = 0 THEN Nil ELSE Q[1]
  /\ t = IF n = 0 THEN Nil ELSE Q[n]
  /\ \A i, j \in 1 .. n : Q[i] = Q[j] => i = j
  /\ \A i \in 1 .. n - 1 : nx[Q[i]] = Q[i + 1]
  /\ \A c \in Ctxs : (\A i \in 1 .. n - 1 : Q[i] # c) => nx[c] = Nil

\* A context that has not been used is not queued, so that startUserThread
\* queues a context once.
QueueInv ==
  /\ waiting \in Seq(Ctxs)
  /\ s.len = Len(waiting)
  /\ Linked(s.head, s.tail, Len(waiting), NextOf(s), waiting)
  /\ \A i \in 1 .. Len(waiting) : at[waiting[i]] # "new"

\* A context is put at the end of the list.
LEMMA Enqueue ==
  ASSUME NEW n \in Nat, NEW h, NEW t, NEW nx, NEW Q \in [1 .. n -> Ctxs],
         Linked(h, t, n, nx, Q), NEW c \in Ctxs, \A i \in 1 .. n : Q[i] # c,
         NEW hh, hh = IF t = Nil THEN c ELSE h,
         NEW ny, \A d \in Ctxs : ny[d] = IF d = t THEN c ELSE nx[d],
         NEW R \in [1 .. n + 1 -> Ctxs], R[n + 1] = c, \A i \in 1 .. n : R[i] = Q[i]
  PROVE  Linked(hh, c, n + 1, ny, R)
<1>1. /\ \A i \in 1 .. n : R[i] = Q[i] /\ R[i] # c
      /\ \A i \in 1 .. n + 1 : i \in 1 .. n \/ i = n + 1
  OBVIOUS
<1>2. \A i, j \in 1 .. n + 1 : R[i] = R[j] => i = j
  BY <1>1 DEF Linked
<1>3. Nil \notin Ctxs
  BY SchedulerAssumption
<1>4. hh = R[1]
  <2>1. CASE n = 0
    BY <1>1, <2>1 DEF Linked
  <2>2. CASE n # 0
    <3>1. n \in 1 .. n /\ 1 \in 1 .. n
      BY <2>2
    <3>2. t = Q[n] /\ h = Q[1] /\ t # Nil
      BY <1>3, <2>2, <3>1 DEF Linked
    <3> QED BY <1>1, <3>1, <3>2
  <2> QED BY <2>1, <2>2
<1>5. ASSUME NEW i \in 1 .. n PROVE ny[R[i]] = R[i + 1]
  <2>1. CASE i = n
    <3>1. t = Q[n] /\ Q[n] \in Ctxs
      BY <2>1 DEF Linked
    <3> QED BY <1>1, <2>1, <3>1
  <2>2. CASE i # n
    <3>1. i \in 1 .. n - 1 /\ i + 1 \in 1 .. n /\ n \in 1 .. n
      BY <2>2
    <3>2. Q[i] \in Ctxs /\ nx[Q[i]] = Q[i + 1] /\ t = Q[n] /\ Q[i] # Q[n]
      BY <2>2, <3>1 DEF Linked
    <3> QED BY <1>1, <3>1, <3>2
  <2> QED BY <2>1, <2>2
<1>6. ASSUME NEW d \in Ctxs, \A i \in 1 .. n : R[i] # d PROVE ny[d] = Nil
  <2>1. \A i \in 1 .. n - 1 : Q[i] # d
    BY <1>1, <1>6
  <2>2. d # t
    <3>1. CASE n = 0
      BY <1>3, <3>1 DEF Linked
    <3>2. CASE n # 0
      <4>1. n \in 1 .. n /\ t = Q[n]
        BY <3>2 DEF Linked
      <4> QED BY <1>1, <1>6, <4>1
    <3> QED BY <3>1, <3>2
  <2> QED BY <2>1, <2>2 DEF Linked
<1>7. n + 1 # 0 /\ (n + 1) - 1 = n
  OBVIOUS
<1> QED BY <1>1, <1>2, <1>4, <1>5, <1>6, <1>7 DEF Linked

\* The first thread of the list is taken off.
LEMMA Unlink ==
  ASSUME NEW n \in Nat, NEW h, NEW t, NEW nx, NEW Q \in [1 .. n -> Ctxs],
         Linked(h, t, n, nx, Q), h # Nil,
         NEW ny, \A d \in Ctxs : ny[d] = IF d = h THEN Nil ELSE nx[d],
         NEW tt, tt = IF nx[h] = Nil THEN Nil ELSE t,
         NEW m, m = n - 1, NEW R \in [1 .. m -> Ctxs], \A i \in 1 .. m : R[i] = Q[i + 1]
  PROVE  Linked(nx[h], tt, m, ny, R)
<1>1. /\ n # 0 /\ 1 \in 1 .. n /\ h = Q[1] /\ h \in Ctxs /\ t = Q[n] /\ n \in 1 .. n
      /\ m \in Nat /\ Nil \notin Ctxs
  BY SchedulerAssumption DEF Linked
<1>2. \A i \in 1 .. m : R[i] = Q[i + 1] /\ i + 1 \in 1 .. n /\ i + 1 # 1
  BY <1>1
<1>3. \A i, j \in 1 .. m : R[i] = R[j] => i = j
  BY <1>2 DEF Linked
<1>4. \A i \in 1 .. m : R[i] # h
  BY <1>1, <1>2 DEF Linked
<1>5. nx[h] = IF m = 0 THEN Nil ELSE R[1]
  <2>1. CASE m = 0
    <3>1. \A i \in 1 .. n - 1 : Q[i] # h
      BY <1>1, <2>1
    <3> QED BY <1>1, <2>1, <3>1 DEF Linked
  <2>2. CASE m # 0
    <3>1. 1 \in 1 .. n - 1 /\ 1 \in 1 .. m
      BY <1>1, <2>2
    <3>2. nx[Q[1]] = Q[2]
      BY <3>1 DEF Linked
    <3> QED BY <1>1, <1>2, <2>2, <3>1, <3>2
  <2> QED BY <2>1, <2>2
<1>6. tt = IF m = 0 THEN Nil ELSE R[m]
  <2>1. CASE m = 0
    BY <1>5, <2>1
  <2>2. CASE m # 0
    <3>1. m \in 1 .. m /\ 1 \in 1 .. m /\ m + 1 = n
      BY <1>1, <2>2
    <3>2. R[m] = Q[n] /\ R[1] # Nil
      BY <1>1, <1>2, <3>1
    <3> QED BY <1>1, <1>5, <2>2, <3>2
  <2> QED BY <2>1, <2>2
<1>7. ASSUME NEW i \in 1 .. m - 1 PROVE ny[R[i]] = R[i + 1]
  <2>1. i \in 1 .. m /\ i + 1 \in 1 .. m /\ i + 1 \in 1 .. n - 1
    BY <1>1
  <2>2. R[i] = Q[i + 1] /\ R[i + 1] = Q[(i + 1) + 1] /\ R[i] \in Ctxs /\ R[i] # h
    BY <1>2, <1>4, <2>1
  <2>3. nx[Q[i + 1]] = Q[(i + 1) + 1]
    BY <2>1 DEF Linked
  <2> QED BY <2>2, <2>3
<1>8. ASSUME NEW d \in Ctxs, \A i \in 1 .. m - 1 : R[i] # d PROVE ny[d] = Nil
  <2>1. CASE d = h
    BY <2>1
  <2>2. CASE d # h
    <3>1. ASSUME NEW i \in 1 .. n - 1 PROVE Q[i] # d
      <4>1. CASE i = 1
        BY <1>1, <2>2, <4>1
      <4>2. CASE i # 1
        <5>1. i - 1 \in 1 .. m - 1 /\ i - 1 \in 1 .. m /\ (i - 1) + 1 = i
          BY <1>1, <4>2
        <5> QED BY <1>2, <1>8, <5>1
      <4> QED BY <4>1, <4>2
    <3> QED BY <2>2, <3>1 DEF Linked
  <2> QED BY <2>1, <2>2
<1> QED BY <1>1, <1>2, <1>3, <1>5, <1>6, <1>7, <1>8 DEF Linked

SameNext(f, g) == \A d \in Ctxs : f[d].nextThread = g[d].nextThread
NextSet(g, f, c, v) == \A d \in Ctxs : g[d].nextThread = IF d = c THEN v ELSE f[d].nextThread

\* p and q have the same run queue.
SameQueue(p, q) ==
  p.head = q.head /\ p.tail = q.tail /\ p.len = q.len /\ SameNext(p.ctx, q.ctx)

LEMMA SetState ==
  ASSUME NEW f \in [Ctxs -> threadCtx], NEW c \in Ctxs, NEW v, NEW g, g = [f EXCEPT ![c].state = v]
  PROVE  SameNext(g, f)
<1>1. \A d \in Ctxs : g[d] = IF d = c THEN [f[c] EXCEPT !.state = v] ELSE f[d]
  OBVIOUS
<1>2. f[c] \in threadCtx
  OBVIOUS
<1>3. PICK r : r = [f[c] EXCEPT !.state = v]
  OBVIOUS
<1>4. r.nextThread = f[c].nextThread
  BY <1>2, <1>3 DEF threadCtx
<1> QED BY <1>1, <1>3, <1>4 DEF SameNext

LEMMA SetNext ==
  ASSUME NEW f \in [Ctxs -> threadCtx], NEW c \in Ctxs, NEW v, NEW g, g = [f EXCEPT ![c].nextThread = v]
  PROVE  NextSet(g, f, c, v)
<1>1. \A d \in Ctxs : g[d] = IF d = c THEN [f[c] EXCEPT !.nextThread = v] ELSE f[d]
  OBVIOUS
<1>2. f[c] \in threadCtx
  OBVIOUS
<1>3. PICK r : r = [f[c] EXCEPT !.nextThread = v]
  OBVIOUS
<1>4. r.nextThread = v
  BY <1>2, <1>3 DEF threadCtx
<1> QED BY <1>1, <1>3, <1>4 DEF NextSet

\* addToRunQueue puts the thread at the end of the queue.
LEMMA AddQueue ==
  ASSUME NEW q \in State, NEW c \in Ctxs, NEW p, p = addToRunQueue(q, c)
  PROVE  /\ p.head = (IF q.tail = Nil THEN c ELSE q.head) /\ p.tail = c /\ p.len = q.len + 1
         /\ NextSet(p.ctx, q.ctx, q.tail, c)
<1>1. q.ctx \in [Ctxs -> threadCtx] /\ q.tail \in Ctxs \cup {Nil} /\ Nil \notin Ctxs
  BY SchedulerAssumption DEF State
<1>2. PICK f : f = IF q.tail = Nil THEN q.ctx ELSE [q.ctx EXCEPT ![q.tail].nextThread = c]
  OBVIOUS
<1>3. f \in [Ctxs -> threadCtx] /\ NextSet(f, q.ctx, q.tail, c)
  <2>1. CASE q.tail = Nil
    BY <1>1, <1>2, <2>1 DEF NextSet
  <2>2. CASE q.tail # Nil
    <3>1. PICK t \in Ctxs, e \in [Ctxs -> threadCtx] : t = q.tail /\ e = q.ctx
      BY <1>1, <2>2
    <3>2. f = [e EXCEPT ![t].nextThread = c]
      BY <1>2, <2>2, <3>1
    <3>3. f \in [Ctxs -> threadCtx]
      BY <3>2, CtxLemma
    <3>4. NextSet(f, e, t, c)
      BY <3>2, SetNext
    <3> QED BY <3>1, <3>3, <3>4
  <2> QED BY <2>1, <2>2
<1>4. PICK g : g = [f EXCEPT ![c].state = TS_RUNNABLE]
  OBVIOUS
<1>5. SameNext(g, f)
  BY <1>3, <1>4, SetState
<1>6. p = [q EXCEPT !.head = IF q.tail = Nil THEN c ELSE @, !.tail = c, !.len = @ + 1, !.ctx = g]
  BY <1>2, <1>4 DEF addToRunQueue
<1>7. /\ p.head = (IF q.tail = Nil THEN c ELSE q.head) /\ p.tail = c /\ p.len = q.len + 1
      /\ p.ctx = g
  BY <1>6 DEF State
<1>8. NextSet(g, q.ctx, q.tail, c)
  BY <1>3, <1>5 DEF NextSet, SameNext
<1> QED BY <1>7, <1>8

LEMMA AfterQueue ==
  ASSUME NEW q \in State, NEW c \in Ctxs, NEW state, NEW p, p = afterResume(q, c, state)
  PROVE  SameQueue(p, q)
<1>1. PICK f \in [Ctxs -> threadCtx] : f = q.ctx
  BY DEF State
<1>2. PICK g : g = [f EXCEPT ![c].state = state]
  OBVIOUS
<1>3. SameNext(g, f)
  BY <1>2, SetState
<1>4. p = [q EXCEPT !.ctx = g, !.current = Nil]
  BY <1>1, <1>2 DEF afterResume
<1>5. p.head = q.head /\ p.tail = q.tail /\ p.len = q.len /\ p.ctx = g
  BY <1>4 DEF State
<1> QED BY <1>1, <1>3, <1>5 DEF SameQueue

\* A thread that ends leaves the queue alone.
LEMMA EndQueue ==
  ASSUME NEW q \in State, NEW c \in Ctxs, NEW k, NEW pooled, NEW b \in RingBuffer,
         b = IF pooled /\ CanOffer(q.pool) THEN offer(q.pool, k) ELSE q.pool,
         unref(q.registry, q.ctx[c].tid) \in AnyRegistry,
         NEW p, p = endOfThread(q, c, k, pooled)
  PROVE  SameQueue(p, q)
<1>1. q.ctx \in [Ctxs -> threadCtx] /\ q.ctx[c] \in threadCtx
  BY DEF State
<1>2. PICK r \in threadCtx : r = [q.ctx[c] EXCEPT !.thread = Nil]
  BY <1>1 DEF threadCtx
<1>3. r.nextThread = q.ctx[c].nextThread
  BY <1>1, <1>2 DEF threadCtx
<1>4. PICK g \in [Ctxs -> threadCtx] : g = [q.ctx EXCEPT ![c] = r]
  BY <1>1
<1>5. PICK y \in AnyRegistry : y = unref(q.registry, q.ctx[c].tid)
  OBVIOUS
<1>6. PICK w \in State : w = [q EXCEPT !.registry = y, !.ctx = g, !.pool = b]
  BY DEF State
<1>7. w.head = q.head /\ w.tail = q.tail /\ w.len = q.len /\ w.ctx = g
  BY <1>6 DEF State
<1>8. w = [q EXCEPT !.registry = unref(@, q.ctx[c].tid),
                    !.ctx[c].thread = Nil,
                    !.pool = IF pooled /\ CanOffer(@) THEN offer(@, k) ELSE @]
  BY <1>2, <1>4, <1>5, <1>6
<1>9. \A d \in Ctxs : g[d] = IF d = c THEN r ELSE q.ctx[d]
  BY <1>1, <1>4
<1>10. SameQueue(w, q)
  BY <1>3, <1>7, <1>9 DEF SameQueue, SameNext
<1>11. p = afterResume(w, c, TS_DONE)
  BY <1>8 DEF endOfThread
<1>12. SameQueue(p, w)
  BY <1>11, AfterQueue
<1> QED BY <1>10, <1>12 DEF SameQueue, SameNext

\* Dequeue takes the first thread off.
LEMMA DequeueQueue ==
  ASSUME NEW q \in State, q.head # Nil, NEW p, p = Dequeue(q)
  PROVE  /\ p.head = q.ctx[q.head].nextThread
         /\ p.tail = IF q.ctx[q.head].nextThread = Nil THEN Nil ELSE q.tail
         /\ q.len # 0 => p.len = q.len - 1
         /\ NextSet(p.ctx, q.ctx, q.head, Nil)
<1>1. PICK f \in [Ctxs -> threadCtx], h \in Ctxs : f = q.ctx /\ h = q.head
  BY DEF State
<1>2. PICK g : g = [f EXCEPT ![h].nextThread = Nil]
  OBVIOUS
<1>3. NextSet(g, f, h, Nil)
  BY <1>2, SetNext
<1>4. p = [q EXCEPT !.head = f[h].nextThread,
                    !.tail = IF f[h].nextThread = Nil THEN Nil ELSE @,
                    !.ctx = g, !.len = IF @ - 1 < 0 THEN 0 ELSE @ - 1]
  BY <1>1, <1>2 DEF Dequeue
<1>5. /\ p.head = f[h].nextThread /\ p.tail = (IF f[h].nextThread = Nil THEN Nil ELSE q.tail)
      /\ p.ctx = g /\ p.len = (IF q.len - 1 < 0 THEN 0 ELSE q.len - 1)
  BY <1>4 DEF State
<1>6. q.len # 0 => p.len = q.len - 1
  BY <1>5 DEF State
<1> QED BY <1>1, <1>3, <1>5, <1>6

\* resumeThread leaves the queue alone and makes no context new.
LEMMA ResumeQueue ==
  ASSUME stack \in Seq(Ctxs \X Coros), NEW q \in State, NEW c \in Ctxs,
         NEW from \in [Ctxs -> Where], resumeThread(q, c, from)
  PROVE  SameQueue(s', q) /\ \A d \in Ctxs : at'[d] = "new" => from[d] = "new"
<1>1. CASE s' = [q EXCEPT !.current = c]
  <2>1. s'.head = q.head /\ s'.tail = q.tail /\ s'.len = q.len /\ s'.ctx = q.ctx
    BY <1>1 DEF State
  <2>2. SameQueue(s', q)
    BY <2>1 DEF SameQueue, SameNext
  <2>3. at' = from \/ \E w \in {"join", "run"} : at' = [from EXCEPT ![c] = w]
    BY DEF resumeThread
  <2> QED BY <2>2, <2>3
<1>2. CASE s' = endOfThread(q, c, Nil, FALSE) /\ at' = from
  <2>1. q.ctx[c] \in threadCtx /\ q.registry \in AnyRegistry
    BY DEF State
  <2>2. unref(q.registry, q.ctx[c].tid) \in AnyRegistry
    BY <2>1, AnyUnref DEF threadCtx
  <2>3. PICK none, pooled : none = Nil /\ pooled = FALSE
    OBVIOUS
  <2>6. PICK b \in RingBuffer : b = q.pool
    BY DEF State
  <2>4. /\ b = IF pooled /\ CanOffer(q.pool) THEN offer(q.pool, none) ELSE q.pool
        /\ s' = endOfThread(q, c, none, pooled)
    BY <1>2, <2>3, <2>6
  <2>5. SameQueue(s', q)
    BY ONLY <2>2, <2>4, q \in State, c \in Ctxs, b \in RingBuffer, EndQueue
  <2> QED BY <1>2, <2>5
<1> QED BY <1>1, <1>2 DEF resumeThread

\* A step that leaves the queue alone and makes no context new.
LEMMA KeepQueue ==
  ASSUME QueueInv, at \in [Ctxs -> Where], SameQueue(s', s), UNCHANGED waiting,
         \A d \in Ctxs : at'[d] = "new" => at[d] = "new"
  PROVE  QueueInv'
<1>1. NextOf(s') = NextOf(s)
  BY DEF SameQueue, SameNext, NextOf
<1>2. waiting' = waiting /\ \A i \in 1 .. Len(waiting) : waiting[i] \in Ctxs
  BY DEF QueueInv
<1>3. s'.head = s.head /\ s'.tail = s.tail /\ s'.len = s.len
  BY DEF SameQueue
<1>4. PICK n, w, f : n = Len(waiting) /\ w = waiting /\ f = at
  OBVIOUS
<1>5. \A i \in 1 .. n : w[i] \in Ctxs /\ f[w[i]] # "new"
  BY <1>2, <1>4 DEF QueueInv
<1>6. \A i \in 1 .. n : at'[w[i]] # "new"
  BY <1>4, <1>5
<1>7. waiting' \in Seq(Ctxs) /\ s'.len = Len(waiting')
  BY <1>2, <1>3 DEF QueueInv
<1>8. Linked(s'.head, s'.tail, Len(waiting'), NextOf(s'), waiting')
  BY <1>1, <1>2, <1>3 DEF QueueInv
<1>9. \A i \in 1 .. Len(waiting') : at'[waiting'[i]] # "new"
  BY <1>2, <1>4, <1>6
<1> QED BY <1>7, <1>8, <1>9 DEF QueueInv

\* A sequence is a function on its indices.
LEMMA SeqIsFunction ==
  ASSUME NEW q \in Seq(Ctxs)
  PROVE  Len(q) \in Nat /\ q \in [1 .. Len(q) -> Ctxs]
OBVIOUS

\* newThread makes a context without a link, which had none.
LEMMA NewQueue ==
  ASSUME PoolInv, QueueInv, NEW c \in Ctxs, at[c] = "new", CanCreate, NEW r \in NextRefs(s.registry),
         NEW k, k = NewCoroutine, NEW p, p = newThread(c, k, r)
  PROVE  p \in State /\ SameQueue(p, s) /\ \A i \in 1 .. Len(waiting) : waiting[i] # c
<1>1. /\ p \in State /\ p.ctx = [s.ctx EXCEPT ![c] = FirstCtx(r, k)]
      /\ s \in State
  BY NewThread DEF PoolInv, Types
<1>2. PICK n : n = FirstCtx(r, k)
  OBVIOUS
<1>7. n.nextThread = Nil
  BY <1>2 DEF FirstCtx, NoCtx
<1>3. \A i \in 1 .. Len(waiting) : waiting[i] # c
  BY DEF QueueInv
<1>4. s.ctx[c].nextThread = Nil
  <2>1. Len(waiting) \in Nat
    BY DEF QueueInv
  <2>2. \A i \in 1 .. Len(waiting) - 1 : waiting[i] # c
    BY <1>3, <2>1
  <2> QED BY <2>2 DEF QueueInv, Linked, NextOf
<1>5. SameNext(p.ctx, s.ctx)
  <2>1. s.ctx \in [Ctxs -> threadCtx]
    BY <1>1 DEF State
  <2>2. \A d \in Ctxs : p.ctx[d] = IF d = c THEN n ELSE s.ctx[d]
    BY <1>1, <1>2, <2>1
  <2> QED BY <1>4, <1>7, <2>2 DEF SameNext
<1>6. p.head = s.head /\ p.tail = s.tail /\ p.len = s.len
  BY <1>1 DEF newThread, State
<1> QED BY <1>1, <1>3, <1>5, <1>6 DEF SameQueue

\* startUserThread puts the new thread at the end of the queue.
LEMMA StartQueue ==
  ASSUME PoolInv, QueueInv, NEW c \in Ctxs, NEW k \in Coros, NEW d \in Ctxs, startUserThread(c, k, d)
  PROVE  QueueInv'
<1>1. PICK r \in NextRefs(s.registry) : s' = addToRunQueue(newThread(d, NewCoroutine, r), d)
  BY DEF startUserThread
<1>2. /\ at[d] = "new" /\ CanCreate /\ at' = [at EXCEPT ![d] = "start"]
      /\ waiting' = Append(waiting, d) /\ at \in [Ctxs -> Where]
  BY DEF startUserThread, NewContext, PoolInv, Types
<1>3. PICK h, p : h = NewCoroutine /\ p = newThread(d, h, r)
  OBVIOUS
<1>4. p \in State /\ SameQueue(p, s) /\ \A i \in 1 .. Len(waiting) : waiting[i] # d
  BY <1>2, <1>3, NewQueue
<1>5. /\ s'.head = (IF p.tail = Nil THEN d ELSE p.head) /\ s'.tail = d /\ s'.len = p.len + 1
      /\ NextSet(s'.ctx, p.ctx, p.tail, d)
  BY <1>1, <1>3, <1>4, AddQueue
<1>6. PICK n, w, R : n = Len(waiting) /\ w = waiting /\ R = waiting'
  OBVIOUS
<1>7. n \in Nat /\ w \in Seq(Ctxs) /\ w \in [1 .. n -> Ctxs] /\ n = Len(w)
  BY <1>6, SeqIsFunction DEF QueueInv
<1>8. R = Append(w, d)
  BY <1>2, <1>6
<1>9. R \in Seq(Ctxs) /\ Len(R) = n + 1
  BY <1>7, <1>8
<1>10. d \in Ctxs
  OBVIOUS
<1>12. R[n + 1] = d /\ \A i \in 1 .. n : R[i] = w[i]
  BY <1>7, <1>8
<1>13. R \in [1 .. n + 1 -> Ctxs]
  BY <1>9, SeqIsFunction
<1>14. PICK ny, nx : ny = NextOf(s') /\ nx = NextOf(s)
  OBVIOUS
<1>15. \A e \in Ctxs : ny[e] = IF e = s.tail THEN d ELSE nx[e]
  BY <1>4, <1>5, <1>14 DEF NextOf, NextSet, SameQueue, SameNext
<1>16. Linked(s.head, s.tail, n, nx, w) /\ \A i \in 1 .. n : w[i] # d
  BY <1>4, <1>6, <1>14 DEF QueueInv
<1>17. PICK hh : hh = IF s.tail = Nil THEN d ELSE s.head
  OBVIOUS
<1>18. Linked(hh, d, n + 1, ny, R)
  BY ONLY <1>7, <1>10, <1>12, <1>13, <1>15, <1>16, <1>17, Enqueue
<1>19. s'.head = hh /\ s'.tail = d /\ s'.len = n + 1
  BY <1>4, <1>5, <1>6, <1>17 DEF SameQueue, QueueInv
<1>20. ASSUME NEW i \in 1 .. n + 1 PROVE at'[R[i]] # "new"
  <2>1. CASE i = n + 1
    BY <1>2, <1>12, <2>1
  <2>2. CASE i # n + 1
    <3>1. i \in 1 .. n
      BY <1>7, <2>2
    <3>2. R[i] = w[i] /\ w[i] \in Ctxs /\ at[w[i]] # "new"
      BY <1>6, <1>7, <1>12, <3>1 DEF QueueInv
    <3> QED BY <1>2, <3>2
  <2> QED BY <2>1, <2>2
<1> QED BY <1>6, <1>9, <1>14, <1>18, <1>19, <1>20 DEF QueueInv

\* The bottom half takes the first thread.
LEMMA TurnQueue ==
  ASSUME PoolInv, QueueInv, runNextFromRunQueue
  PROVE  QueueInv'
<1>1. s \in State /\ at \in [Ctxs -> Where] /\ Nil \notin Ctxs
  BY SchedulerAssumption DEF PoolInv, Types
<1>2. CASE s.head = Nil
  <2>1. UNCHANGED <<s, at, waiting>>
    BY <1>2 DEF runNextFromRunQueue
  <2> QED BY <2>1 DEF QueueInv, NextOf
<1>3. CASE s.head # Nil
  <2>1. s.ctx[s.head] \in threadCtx
    BY <1>1, <1>3 DEF State
  <2>2. s.ctx[s.head].state = TS_DONE
    BY <2>1, NilNames DEF threadCtx
  <2>3. s' = Dequeue(s) /\ at' = at /\ waiting' = Tail(waiting)
    BY <1>3, <2>2 DEF runNextFromRunQueue
  <2>4. /\ s'.head = s.ctx[s.head].nextThread
        /\ s'.tail = IF s.ctx[s.head].nextThread = Nil THEN Nil ELSE s.tail
        /\ s.len # 0 => s'.len = s.len - 1
        /\ NextSet(s'.ctx, s.ctx, s.head, Nil)
    BY <1>1, <1>3, <2>3, DequeueQueue
  <2>5. PICK n, w, R, h : n = Len(waiting) /\ w = waiting /\ R = waiting' /\ h = s.head
    OBVIOUS
  <2>6. n \in Nat /\ w \in Seq(Ctxs) /\ w \in [1 .. n -> Ctxs] /\ n = Len(w) /\ s.len = n
    BY <2>5, SeqIsFunction DEF QueueInv
  <2>7. PICK ny, nx : ny = NextOf(s') /\ nx = NextOf(s)
    OBVIOUS
  <2>8. Linked(h, s.tail, n, nx, w) /\ h # Nil
    BY <1>3, <2>5, <2>7 DEF QueueInv
  <2>9. n # 0 /\ w # <<>> /\ h \in Ctxs
    BY <2>6, <2>8 DEF Linked
  <2>10. PICK m : m = n - 1
    OBVIOUS
  <2>11. R = Tail(w)
    BY <2>3, <2>5
  <2>12. R \in Seq(Ctxs) /\ Len(R) = m /\ \A i \in 1 .. m : R[i] = w[i + 1]
    BY <2>6, <2>9, <2>10, <2>11
  <2>13. R \in [1 .. m -> Ctxs]
    BY <2>12, SeqIsFunction
  <2>14. \A e \in Ctxs : ny[e] = IF e = h THEN Nil ELSE nx[e]
    BY <2>4, <2>5, <2>7 DEF NextOf, NextSet
  <2>15. PICK tt : tt = IF nx[h] = Nil THEN Nil ELSE s.tail
    OBVIOUS
  <2>16. Linked(nx[h], tt, m, ny, R)
    BY ONLY <2>6, <2>8, <2>10, <2>12, <2>13, <2>14, <2>15, Unlink
  <2>17. s'.head = nx[h] /\ s'.tail = tt /\ s'.len = m
    BY <2>4, <2>5, <2>6, <2>7, <2>9, <2>10, <2>15 DEF NextOf
  <2>18. ASSUME NEW i \in 1 .. m PROVE at'[R[i]] # "new"
    <3>1. i + 1 \in 1 .. n /\ R[i] = w[i + 1]
      BY <2>6, <2>10, <2>12
    <3> QED BY <2>3, <2>5, <3>1 DEF QueueInv
  <2> QED BY <2>5, <2>7, <2>12, <2>16, <2>17, <2>18 DEF QueueInv
<1> QED BY <1>2, <1>3

\* The other steps leave the queue alone.
LEMMA QueueStep ==
  ASSUME PoolInv, QueueInv, Next
  PROVE  QueueInv'
<1>1. /\ s \in State /\ stack \in Seq(Ctxs \X Coros) /\ at \in [Ctxs -> Where]
  BY DEF PoolInv, Types
<1>2. ASSUME NEW tid \in Slots, resumeThreadId(tid) PROVE QueueInv'
  <2>1. UNCHANGED waiting
    BY <1>2 DEF resumeThreadId
  <2>2. CASE s.registry.slot[tid] \in Ctxs
    <3>1. PICK c \in Ctxs : resumeThread(s, c, at)
      BY <1>2, <2>2 DEF resumeThreadId
    <3>2. SameQueue(s', s) /\ \A d \in Ctxs : at'[d] = "new" => at[d] = "new"
      BY <1>1, <3>1, ResumeQueue
    <3> QED BY <1>1, <2>1, <3>2, KeepQueue
  <2>3. CASE s.registry.slot[tid] \notin Ctxs
    <3>1. s' \in {s, [s EXCEPT !.current = Nil]} /\ UNCHANGED at
      BY <1>2, <2>3 DEF resumeThreadId
    <3>2. SameQueue(s', s)
      BY <1>1, <3>1 DEF State, SameQueue, SameNext
    <3> QED BY <1>1, <2>1, <3>1, <3>2, KeepQueue
  <2> QED BY <2>2, <2>3
<1>3. ASSUME NEW c \in Ctxs, startSystemThread(c) PROVE QueueInv'
  <2>1. PICK r \in NextRefs(s.registry) :
          resumeThread([newThread(c, NewCoroutine, r) EXCEPT !.ctx[c].state = TS_RUNNABLE], c, at)
    BY <1>3 DEF startSystemThread
  <2>2. at[c] = "new" /\ CanCreate /\ UNCHANGED waiting
    BY <1>3 DEF startSystemThread, NewContext
  <2>3. PICK h, p : h = NewCoroutine /\ p = newThread(c, h, r)
    OBVIOUS
  <2>4. p \in State /\ SameQueue(p, s)
    BY <2>2, <2>3, NewQueue
  <2>5. PICK f \in [Ctxs -> threadCtx] : f = p.ctx
    BY <2>4 DEF State
  <2>6. PICK g : g = [f EXCEPT ![c].state = TS_RUNNABLE]
    OBVIOUS
  <2>7. g \in [Ctxs -> threadCtx] /\ SameNext(g, f)
    BY <2>6, CtxLemma, StateNames, SetState
  <2>8. PICK q \in State : q = [p EXCEPT !.ctx = g]
    BY <2>4, <2>7 DEF State
  <2>9. SameQueue(q, p)
    BY <2>4, <2>5, <2>7, <2>8 DEF State, SameQueue
  <2>10. resumeThread(q, c, at)
    BY <2>1, <2>3, <2>5, <2>6, <2>8
  <2>11. SameQueue(s', q) /\ \A d \in Ctxs : at'[d] = "new" => at[d] = "new"
    BY <1>1, <2>10, ResumeQueue
  <2>12. SameQueue(s', s)
    BY <2>4, <2>9, <2>11 DEF SameQueue, SameNext
  <2> QED BY <1>1, <2>2, <2>11, <2>12, KeepQueue
<1>4. CASE runReadyThreads
  BY <1>4 DEF runReadyThreads, QueueInv, NextOf
<1>5. CASE runNextFromRunQueue
  BY <1>5, TurnQueue
<1>6. ASSUME NEW c \in Ctxs, NEW k \in Coros, RunStep(c, k) PROVE QueueInv'
  <2>1. CASE \E d \in Ctxs : startUserThread(c, k, d)
    BY <2>1, StartQueue
  <2>2. ASSUME SameQueue(s', s), UNCHANGED waiting, NEW w, w # "new", at' = [at EXCEPT ![c] = w]
        PROVE  QueueInv'
    <3>1. \A d \in Ctxs : at'[d] = "new" => at[d] = "new"
      BY <1>1, <2>2
    <3> QED BY <1>1, <2>2, <3>1, KeepQueue
  <2>3. CASE blockOnEvent(c, k) \/ yield(c, k)
    <3>1. PICK w \in {"event", "yield"} : /\ at' = [at EXCEPT ![c] = w]
                                          /\ UNCHANGED waiting /\ s' = yielded(s, c, Nil)
      BY <2>3, NilNames DEF blockOnEvent, yield
    <3>2. s' = afterResume(s, c, Nil)
      BY <3>1, NilNames DEF yielded
    <3>3. SameQueue(s', s)
      BY <1>1, <3>2, AfterQueue
    <3> QED BY <2>2, <3>1, <3>3
  <2>4. CASE (\E ds \in SUBSET (Ctxs \ {c}) : join(c, k, ds)) \/ joinReturns(c, k)
    <3>1. PICK w \in {"join", "run"} : at' = [at EXCEPT ![c] = w] /\ UNCHANGED <<s, waiting>>
      BY <2>4 DEF join, joinReturns
    <3>2. SameQueue(s', s)
      BY <3>1 DEF SameQueue, SameNext
    <3> QED BY <2>2, <3>1, <3>2
  <2>5. CASE return(c, k) \/ raise(c, k)
    <3>1. PICK pooled \in BOOLEAN, j \in {k, Nil} :
            s' = endOfThread(s, c, j, pooled) /\ (pooled => j = k)
      <4>1. threadRunLoop(k) \in BOOLEAN
        BY DEF threadRunLoop
      <4> QED BY <2>5, <4>1 DEF return, raise
    <3>2. at' = [at EXCEPT ![c] = "over"] /\ UNCHANGED waiting
      BY <2>5 DEF return, raise
    <3>3. /\ unref(s.registry, s.ctx[c].tid) \in AnyRegistry
          /\ (IF pooled /\ CanOffer(s.pool) THEN offer(s.pool, j) ELSE s.pool) \in RingBuffer
      BY <3>1, EndTypes
    <3>4. PICK b \in RingBuffer : b = IF pooled /\ CanOffer(s.pool) THEN offer(s.pool, j) ELSE s.pool
      BY <3>3
    <3>5. SameQueue(s', s)
      BY <1>1, <3>1, <3>3, <3>4, EndQueue
    <3> QED BY <2>2, <3>2, <3>5
  <2> QED BY <1>6, <2>1, <2>3, <2>4, <2>5 DEF RunStep
<1> QED BY <1>2, <1>3, <1>4, <1>5, <1>6 DEF Next

\* Whatever resumes are nested and however often events fire, the links of
\* addToRunQueue and runNextFromRunQueue spell the queue of the threads that
\* startUserThread has queued and the bottom half has not taken yet, in order.
THEOREM RunQueueIsFifo == Spec => []QueueSound
<1>1. Init => QueueInv
  <2> SUFFICES ASSUME Init PROVE QueueInv
    OBVIOUS
  <2>1. /\ s.head = Nil /\ s.tail = Nil /\ s.len = 0 /\ waiting = <<>>
        /\ s.ctx = [c \in Ctxs |-> NoCtx]
    BY DEF Init
  <2>2. Len(waiting) = 0 /\ waiting \in Seq(Ctxs)
    BY <2>1
  <2>3. \A c \in Ctxs : NextOf(s)[c] = Nil
    BY <2>1 DEF NextOf, NoCtx
  <2> QED BY <2>1, <2>2, <2>3 DEF QueueInv, Linked
<1>2. PoolInv /\ QueueInv /\ [Next]_vars => QueueInv'
  <2> SUFFICES ASSUME PoolInv, QueueInv, [Next]_vars PROVE QueueInv'
    OBVIOUS
  <2>1. CASE UNCHANGED vars
    BY <2>1 DEF vars, QueueInv, NextOf
  <2>2. CASE Next
    BY <2>2, QueueStep
  <2> QED BY <2>1, <2>2
<1>3. QueueInv => QueueSound
  <2> SUFFICES ASSUME QueueInv PROVE QueueSound
    OBVIOUS
  <2>1. \A c \in Ctxs : NextOf(s)[c] = s.ctx[c].nextThread
    BY DEF NextOf
  <2>2. \A i \in 1 .. Len(waiting) : waiting[i] \in Ctxs
    BY DEF QueueInv
  <2>3. Len(waiting) \in Nat /\ \A i \in 1 .. Len(waiting) - 1 : i \in 1 .. Len(waiting)
    BY DEF QueueInv
  <2> QED BY <2>1, <2>2, <2>3 DEF QueueInv, Linked, QueueSound
<1> QED BY <1>1, <1>2, <1>3, PoolInductive, PTL DEF Spec

-----------------------------------------------------------------------------
(* Pending events *)

\* A thread that is blocked on an event has not ended and an event is pending
\* for it; and a pending event is one that a thread is blocked on.
EventInv ==
  ~stale => /\ \A c \in Ctxs : at[c] = "event" => Live(c) /\ s.ctx[c].tid \in armed
            /\ \A tid \in armed : at[s.registry.slot[tid]] = "event"

\* What the registry's invariant says of a pending event.
LEMMA ArmedFinds ==
  ASSUME AnchorInv, ~stale, NEW tid \in armed
  PROVE  /\ tid \in Slots /\ s.registry.slot[tid] \in Ctxs
         /\ Live(s.registry.slot[tid]) /\ s.ctx[s.registry.slot[tid]].tid = tid
<1>1. PICK c : c = s.registry.slot[tid]
  OBVIOUS
<1>2. tid \in Slots /\ c \in Ctxs /\ Found(s.registry, ThreadOf(s), TidOf(s))
  BY <1>1 DEF AnchorInv, Anchors, Suspended
<1>3. ThreadOf(s)[c] = s.ctx[c].thread /\ TidOf(s)[c] = s.ctx[c].tid
  BY <1>2 DEF ThreadOf, TidOf
<1> QED BY <1>1, <1>2, <1>3 DEF Found, Live

\* A live thread is found under its tid.
LEMMA LiveFound ==
  ASSUME AnchorInv, ~stale, NEW c \in Ctxs, Live(c)
  PROVE  s.ctx[c].tid \in Slots /\ s.registry.slot[s.ctx[c].tid] = c
<1>1. Found(s.registry, ThreadOf(s), TidOf(s))
  BY DEF AnchorInv, Anchors
<1>2. ThreadOf(s)[c] = s.ctx[c].thread /\ TidOf(s)[c] = s.ctx[c].tid
  BY DEF ThreadOf, TidOf
<1> QED BY <1>1, <1>2 DEF Found, Live

\* The thread on top of the stack has not ended.
LEMMA TopIsLive ==
  ASSUME AnchorInv, ~stale, stack \in Seq(Ctxs \X Coros), NEW c \in Ctxs, NEW k \in Coros,
         stack # <<>>, Head(stack) = <<c, k>>
  PROVE  Live(c)
<1>1. 1 \in 1 .. Len(stack) /\ stack[1] = <<c, k>>
  OBVIOUS
<1>2. ThreadOf(s)[stack[1][1]] = stack[1][2]
  BY <1>1 DEF AnchorInv, Anchors, Suspended
<1>3. ThreadOf(s)[c] = k /\ k # Nil
  BY <1>1, <1>2, SchedulerAssumption
<1> QED BY <1>3 DEF ThreadOf, Live

\* A step of a thread that is not blocked on an event, and will not be.
LEMMA KeepEvents ==
  ASSUME AnchorInv, EventInv, ~stale, at \in [Ctxs -> Where], NEW c \in Ctxs, at[c] # "event",
         NEW w, w # "event", at' = [at EXCEPT ![c] = w], UNCHANGED armed,
         \A d \in Ctxs \ {c} : s'.ctx[d].thread = s.ctx[d].thread /\ s'.ctx[d].tid = s.ctx[d].tid,
         \A tid \in armed : s'.registry.slot[tid] = s.registry.slot[tid]
  PROVE  EventInv'
<1>1. ASSUME NEW d \in Ctxs, at'[d] = "event" PROVE s'.ctx[d].thread # Nil /\ s'.ctx[d].tid \in armed
  <2>1. d # c /\ at[d] = "event"
    BY <1>1
  <2> QED BY <2>1 DEF EventInv, Live
<1>2. ASSUME NEW tid \in armed PROVE at'[s'.registry.slot[tid]] = "event"
  <2>1. PICK e \in Ctxs : e = s.registry.slot[tid] /\ at[e] = "event"
    BY <1>2, ArmedFinds DEF EventInv
  <2>2. s'.registry.slot[tid] = e /\ e # c
    BY <1>2, <2>1
  <2> QED BY <2>1, <2>2
<1> QED BY <1>1, <1>2 DEF EventInv, Live

\* Resuming a thread that has not ended and is not running.
LEMMA ResumeRuns ==
  ASSUME NEW q \in State, NEW c \in Ctxs, NEW k \in Coros, k = q.ctx[c].thread, ~OnStack(k),
         NEW from, resumeThread(q, c, from)
  PROVE  /\ s'.registry = q.registry /\ s'.ctx = q.ctx
         /\ \E w \in {"join", "run"} : at' = [from EXCEPT ![c] = w]
<1>1. k # Nil
  BY SchedulerAssumption
<1>2. /\ s' = [q EXCEPT !.current = c]
      /\ at' = [from EXCEPT ![c] = IF @ = "join" THEN "join" ELSE "run"]
  BY <1>1 DEF resumeThread, Fails
<1> QED BY <1>2 DEF State

\* newThread takes no slot that an event is pending for, and fills it.
LEMMA NewEvents ==
  ASSUME PoolInv, AnchorInv, ~stale, NEW c \in Ctxs, NewContext(c), CanCreate,
         NEW r \in NextRefs(s.registry), NEW k, k = NewCoroutine, NEW p, p = newThread(c, k, r)
  PROVE  /\ p \in State /\ p.ctx[c].thread = k /\ k \in Coros /\ ~OnStack(k)
         /\ \A d \in Ctxs \ {c} : p.ctx[d] = s.ctx[d]
         /\ \A tid \in armed : p.registry.slot[tid] = s.registry.slot[tid]
<1>1. /\ k \in Coros /\ r \in Slots /\ Idling(k, ThreadOf(s), stack)
      /\ p \in State /\ p.registry = ref(s.registry, c, r) /\ p.current = s.current
      /\ p.ctx = [s.ctx EXCEPT ![c] = FirstCtx(r, k)]
  BY ONLY PoolInv, CanCreate, k = NewCoroutine, p = newThread(c, k, r), NewThread
<1>2. p.ctx[c].thread = k /\ r \notin armed /\ \A d \in Ctxs \ {c} : p.ctx[d] = s.ctx[d]
  BY NewAnchors
<1>3. ~OnStack(k)
  BY <1>1 DEF Idling, OnStack
<1>4. ASSUME NEW tid \in armed PROVE p.registry.slot[tid] = s.registry.slot[tid]
  <2>1. tid # r /\ tid \in Slots
    BY <1>2, ArmedFinds
  <2>2. s.registry.slot \in [Slots -> Anything]
    BY DEF PoolInv, Types, State, AnyRegistry
  <2>3. p.registry.slot = [s.registry.slot EXCEPT ![r] = c]
    BY <1>1 DEF ref
  <2> QED BY <2>1, <2>2, <2>3
<1> QED BY <1>1, <1>2, <1>3, <1>4

LEMMA EventStep ==
  ASSUME PoolInv, AnchorInv, EventInv, Next
  PROVE  EventInv'
<1>1. /\ s \in State /\ stack \in Seq(Ctxs \X Coros) /\ at \in [Ctxs -> Where]
  BY DEF PoolInv, Types
<1>2. SUFFICES ASSUME ~stale' PROVE EventInv'
  BY DEF EventInv
<1>3. ~stale
  <2>1. stale' = stale \/ stale' = TRUE
    BY DEF Next, RunStep, resumeThreadId, startSystemThread, startUserThread, blockOnEvent, yield,
           join, joinReturns, return, raise, runReadyThreads, runNextFromRunQueue
  <2> QED BY <1>2, <2>1
<1>4. ASSUME NEW tid \in Slots, resumeThreadId(tid) PROVE EventInv'
  <2>1. PICK c : c = s.registry.slot[tid]
    OBVIOUS
  <2>2. tid \in armed /\ armed' = armed \ {tid}
    BY <1>2, <1>4 DEF resumeThreadId
  <2>3. c \in Ctxs /\ Live(c) /\ s.ctx[c].tid = tid
    BY <1>3, <2>1, <2>2, ArmedFinds
  <2>4. PICK k \in Coros : k = s.ctx[c].thread
    <3>1. s.ctx[c] \in threadCtx
      BY <1>1, <2>3 DEF State
    <3> QED BY <2>3, <3>1 DEF threadCtx, Live
  <2>5. ~OnStack(k)
    <3>1. ThreadOf(s)[c] = k
      BY <2>3, <2>4 DEF ThreadOf
    <3> QED BY <1>3, <2>1, <2>2, <3>1 DEF AnchorInv, Anchors, Suspended, OnStack
  <2>6. resumeThread(s, c, at)
    BY <1>4, <2>1, <2>3 DEF resumeThreadId
  <2>7. PICK w \in {"join", "run"} : at' = [at EXCEPT ![c] = w]
    BY <1>1, <2>3, <2>4, <2>5, <2>6, ResumeRuns
  <2>8. s'.registry = s.registry /\ s'.ctx = s.ctx
    BY <1>1, <2>3, <2>4, <2>5, <2>6, ResumeRuns
  <2>9. ASSUME NEW d \in Ctxs, at'[d] = "event" PROVE s'.ctx[d].thread # Nil /\ s'.ctx[d].tid \in armed'
    <3>1. d # c /\ at[d] = "event"
      BY <1>1, <2>7, <2>9
    <3>2. Live(d) /\ s.ctx[d].tid \in armed
      BY <1>3, <3>1 DEF EventInv
    <3>3. s.registry.slot[s.ctx[d].tid] = d
      BY <1>3, <3>2, LiveFound
    <3> QED BY <2>1, <2>2, <2>8, <3>1, <3>2, <3>3 DEF Live
  <2>10. ASSUME NEW i \in armed' PROVE at'[s'.registry.slot[i]] = "event"
    <3>1. i \in armed /\ i # tid
      BY <2>2
    <3>2. PICK e \in Ctxs : e = s.registry.slot[i] /\ at[e] = "event" /\ s.ctx[e].tid = i
      BY <1>3, <3>1, ArmedFinds DEF EventInv
    <3>3. e # c
      BY <2>3, <3>1, <3>2
    <3> QED BY <1>1, <2>7, <2>8, <3>2, <3>3
  <2> QED BY <2>9, <2>10 DEF EventInv, Live
<1>5. ASSUME NEW c \in Ctxs, startSystemThread(c) PROVE EventInv'
  <2>1. PICK r \in NextRefs(s.registry) :
          resumeThread([newThread(c, NewCoroutine, r) EXCEPT !.ctx[c].state = TS_RUNNABLE], c, at)
    BY <1>5 DEF startSystemThread
  <2>2. NewContext(c) /\ CanCreate /\ UNCHANGED armed /\ at[c] # "event"
    BY <1>5 DEF startSystemThread, NewContext
  <2>3. PICK h, p : h = NewCoroutine /\ p = newThread(c, h, r)
    OBVIOUS
  <2>4. /\ p \in State /\ p.ctx[c].thread = h /\ h \in Coros /\ ~OnStack(h)
        /\ \A d \in Ctxs \ {c} : p.ctx[d] = s.ctx[d]
        /\ \A tid \in armed : p.registry.slot[tid] = s.registry.slot[tid]
    BY <1>3, <2>2, <2>3, NewEvents
  <2>5. PICK g \in [Ctxs -> threadCtx] :
          g = [p.ctx EXCEPT ![c].state = TS_RUNNABLE] /\ SameThreads(g, p.ctx)
    <3>1. p.ctx \in [Ctxs -> threadCtx]
      BY <2>4 DEF State
    <3> QED BY <3>1, CtxLemma, StateNames
  <2>6. PICK q \in State : q = [p EXCEPT !.ctx = g]
    BY <2>4 DEF State
  <2>7. q.ctx = g /\ q.registry = p.registry
    BY <2>4, <2>6 DEF State
  <2>8. resumeThread(q, c, at)
    BY <2>1, <2>3, <2>5, <2>6
  <2>9. h = q.ctx[c].thread
    BY <2>4, <2>5, <2>7 DEF SameThreads
  <2>10. /\ s'.registry = q.registry /\ s'.ctx = q.ctx
         /\ \E w \in {"join", "run"} : at' = [at EXCEPT ![c] = w]
    BY <2>4, <2>8, <2>9, ResumeRuns
  <2>11. PICK w : w # "event" /\ at' = [at EXCEPT ![c] = w]
    BY <2>10
  <2>12. \A d \in Ctxs \ {c} : s'.ctx[d].thread = s.ctx[d].thread /\ s'.ctx[d].tid = s.ctx[d].tid
    BY <2>4, <2>5, <2>7, <2>10 DEF SameThreads
  <2>13. \A tid \in armed : s'.registry.slot[tid] = s.registry.slot[tid]
    BY <2>4, <2>7, <2>10
  <2> QED BY <1>1, <1>3, <2>2, <2>11, <2>12, <2>13, KeepEvents
<1>6. CASE runReadyThreads
  BY <1>6 DEF runReadyThreads, EventInv, Live
<1>7. CASE runNextFromRunQueue
  <2>1. UNCHANGED armed
    BY <1>7 DEF runNextFromRunQueue
  <2>2. CASE s.head = Nil
    BY <1>7, <2>2 DEF runNextFromRunQueue, EventInv, Live
  <2>3. CASE s.head # Nil
    <3>1. s.ctx[s.head].state = TS_DONE
      <4>1. s.ctx[s.head] \in threadCtx
        BY <1>1, <2>3 DEF State
      <4> QED BY <4>1, NilNames DEF threadCtx
    <3>2. s' = Dequeue(s) /\ UNCHANGED at
      BY <1>7, <2>3, <3>1 DEF runNextFromRunQueue
    <3>3. Keeps(s', s)
      BY <1>1, <2>3, <3>2, DequeueKeeps
    <3>4. s'.registry = s.registry
      BY <3>3 DEF Keeps
    <3>5. \A d \in Ctxs : s'.ctx[d].thread = s.ctx[d].thread /\ s'.ctx[d].tid = s.ctx[d].tid
      BY <3>3 DEF Keeps, SameThreads
    <3> QED BY <1>3, <2>1, <3>2, <3>4, <3>5 DEF EventInv, Live
  <2> QED BY <2>2, <2>3
<1>8. ASSUME NEW c \in Ctxs, NEW k \in Coros, RunStep(c, k) PROVE EventInv'
  <2>1. ASSUME NEW d \in Ctxs, startUserThread(c, k, d) PROVE EventInv'
    <3>1. PICK r \in NextRefs(s.registry) : s' = addToRunQueue(newThread(d, NewCoroutine, r), d)
      BY <2>1 DEF startUserThread
    <3>2. /\ NewContext(d) /\ CanCreate /\ UNCHANGED armed /\ at[d] # "event"
          /\ at' = [at EXCEPT ![d] = "start"]
      BY <2>1 DEF startUserThread, NewContext
    <3>3. PICK h, p : h = NewCoroutine /\ p = newThread(d, h, r)
      OBVIOUS
    <3>4. /\ p \in State /\ \A e \in Ctxs \ {d} : p.ctx[e] = s.ctx[e]
          /\ \A tid \in armed : p.registry.slot[tid] = s.registry.slot[tid]
      BY <1>3, <3>2, <3>3, NewEvents
    <3>5. s' = addToRunQueue(p, d)
      BY <3>1, <3>3
    <3>6. Keeps(s', p)
      BY <3>4, <3>5, AddKeeps
    <3>7. \A e \in Ctxs \ {d} : s'.ctx[e].thread = s.ctx[e].thread /\ s'.ctx[e].tid = s.ctx[e].tid
      BY <3>4, <3>6 DEF Keeps, SameThreads
    <3>8. \A tid \in armed : s'.registry.slot[tid] = s.registry.slot[tid]
      BY <3>4, <3>6 DEF Keeps
    <3>9. PICK w : w = "start" /\ w # "event"
      OBVIOUS
    <3> QED BY <1>1, <1>3, <3>2, <3>7, <3>8, <3>9, KeepEvents
  <2>2. CASE blockOnEvent(c, k)
    <3>1. /\ stack # <<>> /\ Head(stack) = <<c, k>> /\ s' = yielded(s, c, TS_BLOCKED_EVENT)
          /\ s.current # Nil /\ armed' = armed \cup {s.ctx[s.current].tid}
          /\ at' = [at EXCEPT ![c] = "event"]
      BY <2>2 DEF blockOnEvent, Runs
    <3>2. s.current = c
      <4>1. s.current = Head(stack)[1]
        BY <1>3, <3>1 DEF AnchorInv, Anchors, Suspended
      <4> QED BY <3>1, <4>1
    <3>3. Live(c)
      BY <1>1, <1>3, <3>1, TopIsLive
    <3>4. s.registry.slot[s.ctx[c].tid] = c
      BY <1>3, <3>3, LiveFound
    <3>5. PICK state \in States : state = TS_BLOCKED_EVENT
      BY StateNames
    <3>6. s'.registry = s.registry /\ SameThreads(s'.ctx, s.ctx)
      BY <1>1, <3>1, <3>5, YieldedKeeps
    <3>7. \A d \in Ctxs : s'.ctx[d].thread = s.ctx[d].thread /\ s'.ctx[d].tid = s.ctx[d].tid
      BY <3>6 DEF SameThreads
    <3>8. ASSUME NEW d \in Ctxs, at'[d] = "event"
          PROVE  s'.ctx[d].thread # Nil /\ s'.ctx[d].tid \in armed'
      <4>1. CASE d = c
        BY <3>1, <3>2, <3>3, <3>7, <4>1 DEF Live
      <4>2. CASE d # c
        <5>1. at[d] = "event"
          BY <1>1, <3>1, <3>8, <4>2
        <5> QED BY <1>3, <3>1, <3>7, <5>1 DEF EventInv, Live
      <4> QED BY <4>1, <4>2
    <3>9. ASSUME NEW tid \in armed' PROVE at'[s'.registry.slot[tid]] = "event"
      <4>1. CASE tid \in armed
        <5>1. PICK e \in Ctxs : e = s.registry.slot[tid] /\ at[e] = "event"
          BY <1>3, <4>1, ArmedFinds DEF EventInv
        <5> QED BY <1>1, <3>1, <3>6, <5>1
      <4>2. CASE tid = s.ctx[c].tid
        BY <1>1, <3>1, <3>4, <3>6, <4>2
      <4> QED BY <3>1, <3>2, <4>1, <4>2
    <3> QED BY <3>8, <3>9 DEF EventInv, Live
  <2>3. CASE yield(c, k)
    <3>1. /\ s' = yielded(s, c, Nil) /\ at[c] # "event" /\ UNCHANGED armed
          /\ at' = [at EXCEPT ![c] = "yield"]
      BY <2>3 DEF yield, Runs
    <3>2. PICK state \in States : state = Nil
      BY DEF States
    <3>5. PICK w : w = "yield" /\ w # "event"
      OBVIOUS
    <3>3. s'.registry = s.registry /\ SameThreads(s'.ctx, s.ctx)
      BY <1>1, <3>1, <3>2, YieldedKeeps
    <3>4. /\ \A d \in Ctxs \ {c} : s'.ctx[d].thread = s.ctx[d].thread /\ s'.ctx[d].tid = s.ctx[d].tid
          /\ \A tid \in armed : s'.registry.slot[tid] = s.registry.slot[tid]
      BY <3>3 DEF SameThreads
    <3> QED BY <1>1, <1>3, <3>1, <3>4, <3>5, KeepEvents
  <2>4. CASE (\E ds \in SUBSET (Ctxs \ {c}) : join(c, k, ds)) \/ joinReturns(c, k)
    <3>1. PICK w \in {"join", "run"} : at' = [at EXCEPT ![c] = w] /\ UNCHANGED <<s, armed>> /\ at[c] # "event"
      BY <2>4 DEF join, joinReturns, Runs
    <3>2. PICK v : v = w /\ v # "event"
      BY <3>1
    <3> QED BY <1>1, <1>3, <3>1, <3>2, KeepEvents
  <2>5. CASE return(c, k) \/ raise(c, k)
    <3>1. PICK pooled \in BOOLEAN, j \in {k, Nil} :
            s' = endOfThread(s, c, j, pooled) /\ (pooled => j = k)
      <4>1. threadRunLoop(k) \in BOOLEAN
        BY DEF threadRunLoop
      <4> QED BY <2>5, <4>1 DEF return, raise
    <3>2. /\ at' = [at EXCEPT ![c] = "over"] /\ UNCHANGED armed /\ at[c] = "run"
          /\ stack # <<>> /\ Head(stack) = <<c, k>>
      BY <2>5 DEF return, raise, Runs
    <3>3. /\ unref(s.registry, s.ctx[c].tid) \in AnyRegistry
          /\ (IF pooled /\ CanOffer(s.pool) THEN offer(s.pool, j) ELSE s.pool) \in RingBuffer
      BY <3>1, EndTypes
    <3>4. PICK b \in RingBuffer : b = IF pooled /\ CanOffer(s.pool) THEN offer(s.pool, j) ELSE s.pool
      BY <3>3
    <3>5. /\ s'.registry = unref(s.registry, s.ctx[c].tid)
          /\ \A d \in Ctxs : /\ s'.ctx[d].thread = IF d = c THEN Nil ELSE s.ctx[d].thread
                             /\ s'.ctx[d].tid = s.ctx[d].tid
      BY <1>1, <3>1, <3>3, <3>4, EndKeeps
    <3>6. Live(c)
      BY <1>1, <1>3, <3>2, TopIsLive
    <3>7. s.ctx[c].tid \in Slots /\ s.registry.slot[s.ctx[c].tid] = c
      BY <1>3, <3>6, LiveFound
    <3>8. ASSUME NEW tid \in armed PROVE s'.registry.slot[tid] = s.registry.slot[tid]
      <4>1. tid \in Slots /\ at[s.registry.slot[tid]] = "event"
        BY <1>3, ArmedFinds DEF EventInv
      <4>2. tid # s.ctx[c].tid
        BY <3>2, <3>7, <4>1
      <4>3. s.registry.slot \in [Slots -> Anything]
        BY <1>1 DEF State, AnyRegistry
      <4>4. s'.registry.slot = [s.registry.slot EXCEPT ![s.ctx[c].tid] = s.registry.head]
        BY <3>5 DEF unref
      <4> QED BY <4>1, <4>2, <4>3, <4>4
    <3>9. PICK w : w = "over" /\ w # "event"
      OBVIOUS
    <3> QED BY <1>1, <1>3, <3>2, <3>5, <3>8, <3>9, KeepEvents
  <2> QED BY <1>8, <2>1, <2>2, <2>3, <2>4, <2>5 DEF RunStep
<1> QED BY <1>4, <1>5, <1>6, <1>7, <1>8 DEF Next

\* However resumes are nested, a thread blocks on an event that carries its
\* own tid, and until the event has resumed it nothing takes the tid from it:
\* the event finds that thread, still blocked.  As for the registry, every event must
\* resume its tid once.
THEOREM EventsAreDelivered == Spec => []EventsFindTheirThread
<1>1. Init => EventInv
  BY DEF Init, EventInv
<1>2. PoolInv /\ AnchorInv /\ EventInv /\ [Next]_vars => EventInv'
  <2> SUFFICES ASSUME PoolInv, AnchorInv, EventInv, [Next]_vars PROVE EventInv'
    OBVIOUS
  <2>1. CASE UNCHANGED vars
    BY <2>1 DEF vars, EventInv, Live
  <2>2. CASE Next
    BY <2>2, EventStep
  <2> QED BY <2>1, <2>2
<1>3. PoolInv /\ AnchorInv /\ EventInv => EventsFindTheirThread
  <2> SUFFICES ASSUME AnchorInv, EventInv, ~stale
               PROVE  /\ \A c \in Ctxs : at[c] = "event" => s.ctx[c].tid \in armed
                      /\ \A tid \in armed : \E c \in Ctxs :
                           s.registry.slot[tid] = c /\ s.ctx[c].tid = tid /\ at[c] = "event"
    BY DEF EventsFindTheirThread
  <2> QED BY ArmedFinds DEF EventInv
<1> QED BY <1>1, <1>2, <1>3, AnchorInductive, PTL DEF Spec

=============================================================================
