-------------------------- MODULE UserTimerProofs --------------------------
(***************************************************************************)
(* Memory safety of user timers, the agreement of a timer's state with its *)
(* libuv handle, and the pairing of timers with the threads that wait on   *)
(* them, for every number of timers and threads.                           *)
(***************************************************************************)
EXTENDS UserTimer, TLAPS

-----------------------------------------------------------------------------
(* The stack *)

\* Pushing a frame keeps the stack's type and adds that frame only.
LEMMA PushLemma ==
  ASSUME NEW F, NEW f \in F, NEW s \in Seq(F)
  PROVE  /\ <<f>> \o s \in Seq(F)
         /\ \A g : InSeq(g, <<f>> \o s) <=> (g = f \/ InSeq(g, s))
<1> DEFINE u == <<f>> \o s
<1>1. u \in Seq(F) /\ Len(u) = Len(s) + 1
  OBVIOUS
<1>2. \A i \in 1 .. Len(u) : u[i] = IF i = 1 THEN f ELSE s[i - 1]
  OBVIOUS
<1>3. ASSUME NEW g PROVE InSeq(g, u) <=> (g = f \/ InSeq(g, s))
  <2>1. InSeq(g, u) => g = f \/ InSeq(g, s)
    BY <1>1, <1>2 DEF InSeq
  <2>2. g = f => InSeq(g, u)
    BY <1>1, <1>2 DEF InSeq
  <2>3. ASSUME InSeq(g, s) PROVE InSeq(g, u)
    <3>1. PICK i \in 1 .. Len(s) : s[i] = g
      BY <2>3 DEF InSeq
    <3>2. i + 1 \in 1 .. Len(u) /\ u[i + 1] = g
      BY <1>1, <1>2, <3>1
    <3> QED BY <3>2 DEF InSeq
  <2> QED BY <2>1, <2>2, <2>3
<1> QED BY <1>1, <1>3

\* Popping the top frame keeps the type and every other frame.
LEMMA PopLemma ==
  ASSUME NEW F, NEW s \in Seq(F), s # <<>>
  PROVE  /\ Head(s) \in F
         /\ Tail(s) \in Seq(F)
         /\ \A g : InSeq(g, s) <=> (g = Head(s) \/ InSeq(g, Tail(s)))
<1>1. Head(s) \in F /\ Tail(s) \in Seq(F) /\ Len(Tail(s)) = Len(s) - 1
  OBVIOUS
<1>2. \A i \in 1 .. Len(Tail(s)) : Tail(s)[i] = s[i + 1]
  OBVIOUS
<1>3. Head(s) = s[1] /\ Len(s) \in Nat \ {0}
  OBVIOUS
<1>4. ASSUME NEW g PROVE InSeq(g, s) <=> (g = Head(s) \/ InSeq(g, Tail(s)))
  <2>1. ASSUME InSeq(g, s), g # Head(s) PROVE InSeq(g, Tail(s))
    <3>1. PICK i \in 1 .. Len(s) : s[i] = g
      BY <2>1 DEF InSeq
    <3>2. i - 1 \in 1 .. Len(Tail(s)) /\ Tail(s)[i - 1] = g
      BY <1>1, <1>2, <1>3, <2>1, <3>1
    <3> QED BY <3>2 DEF InSeq
  <2>2. g = Head(s) => InSeq(g, s)
    BY <1>3 DEF InSeq
  <2>3. InSeq(g, Tail(s)) => InSeq(g, s)
    BY <1>1, <1>2, <1>3 DEF InSeq
  <2> QED BY <2>1, <2>2, <2>3
<1> QED BY <1>1, <1>4

\* The empty stack has no frame.
LEMMA EmptyLemma == \A g : ~InSeq(g, <<>>)
BY DEF InSeq

-----------------------------------------------------------------------------
(* Threads *)

\* resume_lua_thread keeps the types of the scheduler's state and adds no
\* frame but a thread's.
LEMMA ResumeTypes ==
  ASSUME NoTid \notin Tids, NEW F, NEW W,
         {"thread"} \X Tids \subseteq F, <<"running", Nothing>> \in W,
         wait \in [Tids -> W], registry \in SUBSET Tids, current \in OptTid,
         NEW t \in OptTid, NEW below \in Seq(F), resume_lua_thread(t, below)
  PROVE  /\ wait' \in [Tids -> W]
         /\ registry' \in SUBSET Tids
         /\ current' \in OptTid
         /\ stack' \in Seq(F)
         /\ \A g : g \notin {"thread"} \X Tids => (InSeq(g, stack') <=> InSeq(g, below))
<1>1. CASE ~(t # NoTid /\ t \in registry /\ ~OnStack(t))
  BY <1>1 DEF OptTid, resume_lua_thread
<1>2. CASE t # NoTid /\ t \in registry /\ ~OnStack(t)
  <2>1. t \in Tids /\ Run(t, below) /\ registry' = registry
    BY <1>2 DEF resume_lua_thread, OptTid
  <2>2. <<"thread", t>> \in F
    BY <2>1
  <2>3. stack' \in Seq(F) /\ \A g : InSeq(g, stack') <=> (g = <<"thread", t>> \/ InSeq(g, below))
    BY <2>1, <2>2, PushLemma DEF Run
  <2>4. wait' \in [Tids -> W] /\ current' \in OptTid
    BY <2>1 DEF Run, OptTid
  <2> QED BY <2>1, <2>3, <2>4
<1> QED BY <1>1, <1>2

\* A thread that yields pops its own frame.
LEMMA YieldTypes ==
  ASSUME NEW F, NEW W, wait \in [Tids -> W], stack \in Seq(F),
         NEW t \in Tids, NEW doing, NEW x, <<doing, x>> \in W,
         Executes(t), Yield(t, doing, x)
  PROVE  /\ wait' \in [Tids -> W]
         /\ current' \in OptTid
         /\ stack' \in Seq(F)
         /\ \A g : g \notin {"thread"} \X Tids => (InSeq(g, stack') <=> InSeq(g, stack))
<1>1. stack' \in Seq(F) /\ \A g : InSeq(g, stack) <=> (g = <<"thread", t>> \/ InSeq(g, stack'))
  BY PopLemma DEF Executes, Yield
<1>2. wait' \in [Tids -> W] /\ current' \in OptTid
  BY DEF Yield, OptTid
<1> QED BY <1>1, <1>2

-----------------------------------------------------------------------------
(* The inductive invariant *)

\* A single luaw_timer_t.  An open timer's handle is never being closed.
Sound(r) ==
  /\ r.mem = "live" => r.ref_count = Refs(r) /\ Refs(r) > 0
  /\ r.mem # "live" => Refs(r) = 0
  /\ r.lua_ref => r.uv \in {"idle", "active"} /\ (r.state = "TICKING" <=> r.uv = "active")

Stopping(x, s) == InSeq(<<"stop", x>>, s)
Deleting(x, s) == InSeq(<<"close_timer", x>>, s)

\* What a pending stop or close_timer relies on: its timer is not freed, and
\* a timer that is being deleted is no longer open.
Framed(r, x, s) ==
  /\ Stopping(x, s) \/ Deleting(x, s) => r.mem = "live"
  /\ Deleting(x, s) => ~r.lua_ref

IndInv ==
  /\ TypeOK
  /\ \A x \in Timers : Sound(timer[x]) /\ Framed(timer[x], x, stack)

-----------------------------------------------------------------------------
(* The operators on a luaw_timer_t *)

\* A slot that was never allocated and a new timer are sound.
LEMMA SoundNew ==
  /\ Unallocated \in luaw_timer_t /\ Sound(Unallocated)
  /\ new_timer \in luaw_timer_t /\ Sound(new_timer)
BY DEF luaw_timer_t, OptTid, Unallocated, new_timer, Sound, Refs, Count

\* An open timer is allocated and has both of its references.
LEMMA OpenTimer ==
  ASSUME NEW r \in luaw_timer_t, Sound(r), r.lua_ref
  PROVE  r.mem = "live" /\ r.uv \in {"idle", "active"} /\ r.ref_count = 2
<1>1. r.uv \in {"idle", "active"}
  BY DEF Sound
<1>2. Refs(r) = 2
  BY <1>1 DEF Refs, Count
<1> QED BY <1>1, <1>2 DEF Sound

\* Starting an open timer, noting who waits on it and clearing it when it is
\* not ticking (or has just been stopped) keep it sound.
LEMMA SoundTouch ==
  ASSUME NEW r \in luaw_timer_t, Sound(r), NEW tid \in OptTid
  PROVE  /\ LET s == [r EXCEPT !.lua_tid = tid]
            IN  s \in luaw_timer_t /\ Sound(s) /\ s.mem = r.mem /\ s.lua_ref = r.lua_ref
         /\ r.lua_ref =>
              LET s == [r EXCEPT !.state = "TICKING", !.uv = "active"]
              IN  s \in luaw_timer_t /\ Sound(s) /\ s.mem = r.mem /\ s.lua_ref = r.lua_ref
         /\ r.state = "ELAPSED" =>
              LET s == clear_user_timer(r)
              IN  s \in luaw_timer_t /\ Sound(s) /\ s.mem = r.mem /\ s.lua_ref = r.lua_ref
         /\ LET s == uv_timer_stop(clear_user_timer(r))
            IN  s \in luaw_timer_t /\ Sound(s) /\ s.mem = r.mem /\ s.lua_ref = r.lua_ref
         /\ r.uv = "active" =>
              LET s == [r EXCEPT !.uv = "idle"]
              IN  /\ clear_user_timer(s) \in luaw_timer_t /\ Sound(clear_user_timer(s))
                  /\ clear_user_timer(s).mem = r.mem /\ clear_user_timer(s).lua_ref = r.lua_ref
                  /\ [s EXCEPT !.state = "ELAPSED"] \in luaw_timer_t
                  /\ Sound([s EXCEPT !.state = "ELAPSED"])
<1> USE DEF luaw_timer_t, OptTid, clear_user_timer, uv_timer_stop, Sound, Refs, Count
<1>1. LET s == [r EXCEPT !.lua_tid = tid]
      IN  s \in luaw_timer_t /\ Sound(s) /\ s.mem = r.mem /\ s.lua_ref = r.lua_ref
  OBVIOUS
<1>2. r.lua_ref =>
        LET s == [r EXCEPT !.state = "TICKING", !.uv = "active"]
        IN  s \in luaw_timer_t /\ Sound(s) /\ s.mem = r.mem /\ s.lua_ref = r.lua_ref
  <2> DEFINE s == [r EXCEPT !.state = "TICKING", !.uv = "active"]
  <2>1. s \in luaw_timer_t
    OBVIOUS
  <2>2. /\ s.mem = r.mem /\ s.lua_ref = r.lua_ref /\ s.ref_count = r.ref_count
        /\ s.state = "TICKING" /\ s.uv = "active"
    OBVIOUS
  <2>3. r.lua_ref => Sound(s)
    <3> HIDE DEF s
    <3> QED BY <2>1, <2>2
  <2> QED BY <2>1, <2>2, <2>3
<1>3. r.state = "ELAPSED" =>
        LET s == clear_user_timer(r)
        IN  s \in luaw_timer_t /\ Sound(s) /\ s.mem = r.mem /\ s.lua_ref = r.lua_ref
  OBVIOUS
<1>4. LET s == uv_timer_stop(clear_user_timer(r))
      IN  s \in luaw_timer_t /\ Sound(s) /\ s.mem = r.mem /\ s.lua_ref = r.lua_ref
  <2>1. PICK u \in {"idle", "active", "closing", "closed"} :
          u = IF r.uv = "active" THEN "idle" ELSE r.uv
    OBVIOUS
  <2>2. uv_timer_stop(clear_user_timer(r))
          = [r EXCEPT !.state = "INIT", !.lua_tid = NoTid, !.uv = u]
    BY <2>1
  <2> DEFINE s == [r EXCEPT !.state = "INIT", !.lua_tid = NoTid, !.uv = u]
  <2>3. s \in luaw_timer_t
    OBVIOUS
  <2>4. Sound(s) /\ s.mem = r.mem /\ s.lua_ref = r.lua_ref
    BY <2>1
  <2> QED BY <2>2, <2>3, <2>4
<1>5. r.uv = "active" =>
        LET s == [r EXCEPT !.uv = "idle"]
        IN  /\ clear_user_timer(s) \in luaw_timer_t /\ Sound(clear_user_timer(s))
            /\ clear_user_timer(s).mem = r.mem /\ clear_user_timer(s).lua_ref = r.lua_ref
            /\ [s EXCEPT !.state = "ELAPSED"] \in luaw_timer_t
            /\ Sound([s EXCEPT !.state = "ELAPSED"])
  OBVIOUS
<1> QED BY <1>1, <1>2, <1>3, <1>4, <1>5

\* close_timer drops the userdata's reference; the handle's one remains.
LEMMA SoundDelink ==
  ASSUME NEW r \in luaw_timer_t, Sound(r), r.lua_ref
  PROVE  /\ delink(r) \in luaw_timer_t /\ Sound(delink(r))
         /\ delink(r).mem = "live" /\ ~delink(r).lua_ref
<1>1. PICK v \in Int : v = r.ref_count - 1
  BY DEF luaw_timer_t
<1> DEFINE s == [r EXCEPT !.lua_ref = FALSE, !.ref_count = v, !.lua_tid = NoTid]
<1>2. delink(r) = s
  BY <1>1 DEF delink
<1>3. s \in luaw_timer_t
  BY DEF luaw_timer_t, OptTid
<1>4. s.mem = r.mem /\ ~s.lua_ref /\ s.ref_count = v /\ s.uv = r.uv
  BY DEF luaw_timer_t
<1> HIDE DEF s
<1>5. Sound(s) /\ s.mem = "live"
  BY <1>1, <1>4 DEF luaw_timer_t, Sound, Refs, Count
<1> QED BY <1>2, <1>3, <1>4, <1>5

\* The end of close_timer on a timer that is not open any more.
LEMMA SoundClose ==
  ASSUME NEW r \in luaw_timer_t, Sound(r), ~r.lua_ref
  PROVE  LET s == close_if_active(r)
         IN  s \in luaw_timer_t /\ Sound(s) /\ s.mem = r.mem /\ ~s.lua_ref
BY DEF luaw_timer_t, close_if_active, Sound, Refs, Count

\* free_user_timer drops the last reference.
LEMMA SoundFree ==
  ASSUME NEW r \in luaw_timer_t, Sound(r), r.uv = "closing"
  PROVE  LET s == GC_REF([r EXCEPT !.uv = "closed"])
         IN  s \in luaw_timer_t /\ Sound(s)
<1>1. PICK q \in luaw_timer_t : q = [r EXCEPT !.uv = "closed"]
  BY DEF luaw_timer_t
<1>2. q.mem = "live" /\ ~q.lua_ref /\ q.uv = "closed" /\ q.ref_count = 1
  BY <1>1 DEF luaw_timer_t, Sound, Refs, Count
<1>3. PICK m \in {"none", "live", "freed"}, v \in Int : m = "freed" /\ v = 0
  OBVIOUS
<1> DEFINE s == [q EXCEPT !.ref_count = v, !.mem = m]
<1>6. GC_REF(q) = s
  BY <1>2, <1>3 DEF GC_REF
<1>4. s \in luaw_timer_t
  BY DEF luaw_timer_t
<1>5. Sound(s)
  BY <1>2, <1>3 DEF luaw_timer_t, Sound, Refs, Count
<1> QED BY <1>1, <1>6, <1>4, <1>5

-----------------------------------------------------------------------------
(* Control *)

SchedulerTypes ==
  /\ wait' \in [Tids -> Doing \X (Timers \cup {Nothing})]
  /\ registry' \in SUBSET Tids
  /\ current' \in OptTid

\* Stack s has the stop and close_timer frames of stack b, for every timer
\* but those in X.
SameFrames(s, b, X) ==
  \A y \in Timers \ X : /\ Stopping(y, s) <=> Stopping(y, b)
                        /\ Deleting(y, s) <=> Deleting(y, b)

\* Resuming a thread keeps the types and adds no frame of a timer.
LEMMA ResumeLemma ==
  ASSUME TypeOK, NEW t \in OptTid, NEW below \in Seq(Frame),
         resume_lua_thread(t, below)
  PROVE  SchedulerTypes /\ stack' \in Seq(Frame) /\ SameFrames(stack', below, {})
<1> DEFINE W == Doing \X (Timers \cup {Nothing})
<1>1. /\ {"thread"} \X Tids \subseteq Frame
      /\ <<"running", Nothing>> \in W
      /\ wait \in [Tids -> W] /\ registry \in SUBSET Tids /\ current \in OptTid
  BY DEF Frame, Doing, TypeOK
<1> HIDE DEF W
<1>2. /\ wait' \in [Tids -> W] /\ registry' \in SUBSET Tids
      /\ current' \in OptTid /\ stack' \in Seq(Frame)
      /\ \A g : g \notin {"thread"} \X Tids => (InSeq(g, stack') <=> InSeq(g, below))
  BY <1>1, TimerAssumption, ResumeTypes
<1>3. SameFrames(stack', below, {})
  BY <1>2 DEF SameFrames, Stopping, Deleting
<1> QED BY <1>2, <1>3 DEF W, SchedulerTypes

\* Yielding keeps the types and the frames of timers.
LEMMA YieldLemma ==
  ASSUME TypeOK, NEW t \in Tids, NEW doing \in Doing, NEW x \in Timers \cup {Nothing},
         Executes(t), Yield(t, doing, x), registry' \in SUBSET Tids
  PROVE  SchedulerTypes /\ stack' \in Seq(Frame) /\ SameFrames(stack', stack, {})
<1> DEFINE W == Doing \X (Timers \cup {Nothing})
<1>1. wait \in [Tids -> W] /\ stack \in Seq(Frame) /\ <<doing, x>> \in W
  BY DEF TypeOK
<1> HIDE DEF W
<1>2. /\ wait' \in [Tids -> W] /\ current' \in OptTid /\ stack' \in Seq(Frame)
      /\ \A g : g \notin {"thread"} \X Tids => (InSeq(g, stack') <=> InSeq(g, stack))
  BY <1>1, YieldTypes
<1>3. SameFrames(stack', stack, {})
  BY <1>2 DEF SameFrames, Stopping, Deleting
<1> QED BY <1>2, <1>3 DEF W, SchedulerTypes

\* A step that changes one timer, and the frames of no other, keeps the
\* invariant if that timer stays sound and its frames are justified.
LEMMA Assemble ==
  ASSUME IndInv, NEW x \in Timers, NEW s \in luaw_timer_t,
         timer' = [timer EXCEPT ![x] = s], Sound(s), Framed(s, x, stack'),
         SchedulerTypes, stack' \in Seq(Frame), SameFrames(stack', stack, {x}),
         held' \in [Timers -> SUBSET Tids],
         scheduler' \in BOOLEAN, reentered' \in BOOLEAN
  PROVE  IndInv'
<1>1. timer' \in [Timers -> luaw_timer_t] /\ timer'[x] = s /\ \A y \in Timers \ {x} : timer'[y] = timer[y]
  BY DEF IndInv, TypeOK
<1>2. TypeOK'
  BY <1>1 DEF TypeOK, SchedulerTypes
<1>3. ASSUME NEW y \in Timers \ {x} PROVE Sound(timer[y]) /\ Framed(timer[y], y, stack')
  BY DEF IndInv, Framed, SameFrames
<1>4. \A y \in Timers : Sound(timer'[y]) /\ Framed(timer'[y], y, stack')
  BY <1>1, <1>3
<1> QED BY <1>2, <1>4 DEF IndInv

\* A step that changes no timer and no frame of a timer keeps the invariant.
LEMMA Keep ==
  ASSUME IndInv, timer' = timer, SchedulerTypes, stack' \in Seq(Frame),
         SameFrames(stack', stack, {}), held' \in [Timers -> SUBSET Tids],
         scheduler' \in BOOLEAN, reentered' \in BOOLEAN
  PROVE  IndInv'
<1>1. TypeOK'
  BY DEF IndInv, TypeOK, SchedulerTypes
<1>2. ASSUME NEW y \in Timers PROVE Sound(timer[y]) /\ Framed(timer[y], y, stack')
  BY DEF IndInv, Framed, SameFrames
<1> QED BY <1>1, <1>2 DEF IndInv

\* close_timer on an open timer pushes its frame and resumes the waiter.
LEMMA CloseLemma ==
  ASSUME IndInv, NEW x \in Timers, timer[x].lua_ref, close_timer(x),
         held' \in [Timers -> SUBSET Tids],
         scheduler' \in BOOLEAN, reentered' \in BOOLEAN
  PROVE  IndInv'
<1> DEFINE below == <<<<"close_timer", x>>>> \o stack
<1>1. TypeOK /\ timer[x] \in luaw_timer_t /\ Sound(timer[x]) /\ timer[x].lua_tid \in OptTid
  BY DEF IndInv, TypeOK, luaw_timer_t
<1>2. PICK s \in luaw_timer_t : s = delink(timer[x])
  BY <1>1, SoundDelink
<1>3. Sound(s) /\ s.mem = "live" /\ ~s.lua_ref
  BY <1>1, <1>2, SoundDelink
<1>4. <<"close_timer", x>> \in Frame /\ stack \in Seq(Frame)
  BY <1>1 DEF Frame, TypeOK
<1>5. /\ below \in Seq(Frame)
      /\ \A g : InSeq(g, below) <=> (g = <<"close_timer", x>> \/ InSeq(g, stack))
  BY <1>4, PushLemma
<1>6. resume_lua_thread(timer[x].lua_tid, below) /\ timer' = [timer EXCEPT ![x] = s]
  BY <1>2 DEF close_timer
<1> HIDE DEF below
<1>7. SchedulerTypes /\ stack' \in Seq(Frame) /\ SameFrames(stack', below, {})
  BY <1>1, <1>5, <1>6, ResumeLemma
<1>8. SameFrames(stack', stack, {x})
  BY <1>5, <1>7 DEF SameFrames, Stopping, Deleting
<1>9. Framed(s, x, stack')
  BY <1>3 DEF Framed
<1> QED BY <1>3, <1>6, <1>7, <1>8, <1>9, Assemble

\* The callbacks and the collector keep the invariant.
LEMMA LoopPreserves ==
  ASSUME IndInv, NEW x \in Timers, LoopStep(x)
  PROVE  IndInv'
<1>1. /\ TypeOK /\ timer[x] \in luaw_timer_t /\ Sound(timer[x])
      /\ timer[x].lua_tid \in OptTid /\ stack \in Seq(Frame)
  BY DEF IndInv, TypeOK, luaw_timer_t
<1>2. \A s, y : Framed(s, y, <<>>)
  BY EmptyLemma DEF Framed, Stopping, Deleting
<1>3. SameFrames(<<>>, <<>>, {x}) /\ <<>> \in Seq(Frame)
  BY DEF SameFrames
<1>4. CASE on_user_timer_timeout(x) /\ timer[x].lua_tid = NoTid
  <2>1. PICK s \in luaw_timer_t : s = [timer[x] EXCEPT !.uv = "idle", !.state = "ELAPSED"]
    BY <1>1 DEF luaw_timer_t
  <2>2. Sound(s)
    BY <1>1, <1>4, <2>1, SoundTouch DEF on_user_timer_timeout
  <2>3. timer' = [timer EXCEPT ![x] = s] /\ stack = <<>> /\ stack' = stack
    BY <1>4, <2>1 DEF on_user_timer_timeout, Idle
  <2>4. SchedulerTypes /\ held' = held /\ scheduler' = scheduler /\ reentered' = reentered
    BY <1>1, <1>4 DEF on_user_timer_timeout, SchedulerTypes, TypeOK
  <2> QED BY <1>1, <1>2, <1>3, <2>2, <2>3, <2>4, Assemble DEF TypeOK
<1>5. CASE on_user_timer_timeout(x) /\ timer[x].lua_tid # NoTid
  <2>1. PICK s \in luaw_timer_t : s = clear_user_timer([timer[x] EXCEPT !.uv = "idle"])
    BY <1>1, <1>5, SoundTouch, ZenonT(40) DEF on_user_timer_timeout
  <2>2. Sound(s)
    BY <1>1, <1>5, <2>1, SoundTouch DEF on_user_timer_timeout
  <2>3. /\ timer' = [timer EXCEPT ![x] = s] /\ stack = <<>>
        /\ resume_lua_thread(timer[x].lua_tid, <<>>)
    BY <1>1, <1>5, <2>1 DEF on_user_timer_timeout, Idle, luaw_timer_t
  <2>4. SchedulerTypes /\ stack' \in Seq(Frame) /\ SameFrames(stack', <<>>, {})
    BY <1>1, <1>3, <2>3, ResumeLemma
  <2>5. held' = held /\ scheduler' = scheduler /\ reentered' = reentered
    BY <1>5 DEF on_user_timer_timeout
  <2>6. SameFrames(stack', stack, {x}) /\ Framed(s, x, stack')
    BY <1>2, <2>3, <2>4 DEF SameFrames, Framed
  <2> QED BY <1>1, <2>2, <2>3, <2>4, <2>5, <2>6, Assemble DEF TypeOK
<1>6. CASE free_user_timer(x)
  <2>1. PICK s \in luaw_timer_t : s = GC_REF([timer[x] EXCEPT !.uv = "closed"])
    BY <1>1, <1>6, SoundFree DEF free_user_timer
  <2>2. Sound(s)
    BY <1>1, <1>6, <2>1, SoundFree DEF free_user_timer
  <2>3. timer' = [timer EXCEPT ![x] = s] /\ stack = <<>> /\ stack' = stack
    BY <1>6, <2>1 DEF free_user_timer, Idle
  <2>4. SchedulerTypes /\ held' = held /\ scheduler' = scheduler /\ reentered' = reentered
    BY <1>1, <1>6 DEF free_user_timer, SchedulerTypes, TypeOK
  <2> QED BY <1>1, <1>2, <1>3, <2>2, <2>3, <2>4, Assemble DEF TypeOK
<1>7. CASE timer_gc(x)
  BY <1>1, <1>7, CloseLemma DEF timer_gc, TypeOK
<1> QED BY <1>4, <1>5, <1>6, <1>7 DEF LoopStep

\* The ends of stop and close_timer keep the invariant.
LEMMA ControlPreserves ==
  ASSUME IndInv, ControlStep
  PROVE  IndInv'
<1>1. PICK x \in Timers : stop_return(x) \/ close_timer_return(x)
  BY DEF ControlStep
<1>2. /\ TypeOK /\ timer[x] \in luaw_timer_t /\ Sound(timer[x])
      /\ timer[x].lua_tid \in OptTid
      /\ Framed(timer[x], x, stack) /\ stack \in Seq(Frame) /\ stack # <<>>
  BY <1>1 DEF IndInv, TypeOK, luaw_timer_t, stop_return, close_timer_return
<1>3. /\ Head(stack) \in {<<"stop", x>>, <<"close_timer", x>>} /\ stack' = Tail(stack)
      /\ held' = held /\ scheduler' = scheduler /\ reentered' = reentered
      /\ wait' = wait /\ registry' = registry /\ current' = current
  BY <1>1 DEF stop_return, close_timer_return
<1>4. /\ stack' \in Seq(Frame)
      /\ \A g : InSeq(g, stack) <=> (g = Head(stack) \/ InSeq(g, stack'))
  BY <1>2, <1>3, PopLemma
<1>5. SameFrames(stack', stack, {x})
  BY <1>3, <1>4 DEF SameFrames, Stopping, Deleting
<1>6. SchedulerTypes
  BY <1>2, <1>3 DEF SchedulerTypes, TypeOK
<1>7. CASE stop_return(x)
  <2>1. PICK s \in luaw_timer_t :
          s = uv_timer_stop(clear_user_timer(timer[x]))
    BY <1>2, SoundTouch
  <2>2. Sound(s) /\ s.mem = timer[x].mem /\ s.lua_ref = timer[x].lua_ref
    BY <1>2, <2>1, SoundTouch
  <2>3. timer' = [timer EXCEPT ![x] = s]
    BY <1>7, <2>1 DEF stop_return
  <2>4. Framed(s, x, stack')
    BY <1>2, <1>4, <2>2 DEF Framed, Stopping, Deleting
  <2> QED BY <1>2, <1>3, <1>4, <1>5, <1>6, <2>2, <2>3, <2>4, Assemble DEF TypeOK
<1>8. CASE close_timer_return(x)
  <2>1. Head(stack) = <<"close_timer", x>> /\ timer' = [timer EXCEPT ![x] = close_if_active(timer[x])]
    BY <1>8 DEF close_timer_return
  <2>2. ~timer[x].lua_ref /\ timer[x].mem = "live"
    BY <1>2, <1>4, <2>1 DEF Framed, Deleting
  <2>3. PICK s \in luaw_timer_t : s = close_if_active(timer[x])
    BY <1>2, <2>2, SoundClose
  <2>4. Sound(s) /\ s.mem = "live" /\ ~s.lua_ref
    BY <1>2, <2>2, <2>3, SoundClose
  <2>5. Framed(s, x, stack')
    BY <2>4 DEF Framed
  <2> QED BY <1>2, <1>3, <1>4, <1>5, <1>6, <2>1, <2>3, <2>4, <2>5, Assemble DEF TypeOK
<1> QED BY <1>1, <1>7, <1>8

\* The calls of a thread that name a timer keep the invariant.
LEMMA CallPreserves ==
  ASSUME IndInv, NEW t \in Tids, NEW x \in Timers, CallStep(t, x)
  PROVE  IndInv'
<1>1. /\ TypeOK /\ timer[x] \in luaw_timer_t /\ Sound(timer[x])
      /\ timer[x].lua_tid \in OptTid /\ stack \in Seq(Frame)
      /\ Framed(timer[x], x, stack)
  BY DEF IndInv, TypeOK, luaw_timer_t
<1>2. SameFrames(stack, stack, {x}) /\ SameFrames(stack, stack, {})
  BY DEF SameFrames
<1>3. UNCHANGED <<wait, registry, current>> => SchedulerTypes
  BY <1>1 DEF SchedulerTypes, TypeOK
<1>4. Uses(t, x) => reentered' \in BOOLEAN
  BY <1>1 DEF Uses
<1>5. CASE new_user_timer(t, x)
  <2>1. timer' = [timer EXCEPT ![x] = new_timer] /\ timer[x].mem = "none"
    BY <1>5 DEF new_user_timer
  <2>2. Framed(new_timer, x, stack)
    BY <1>1, <2>1 DEF Framed
  <2>3. held' \in [Timers -> SUBSET Tids]
    BY <1>1, <1>5 DEF new_user_timer, TypeOK
  <2>4. UNCHANGED <<wait, registry, current, stack, scheduler, reentered>>
    BY <1>5 DEF new_user_timer
  <2> QED BY <1>1, <1>2, <1>3, <2>1, <2>2, <2>3, <2>4, SoundNew, Assemble DEF TypeOK
<1>6. CASE start_user_timer(t, x)
  <2>1. timer[x].lua_ref
    BY <1>6 DEF start_user_timer, Uses
  <2>2. PICK s \in luaw_timer_t : s = [timer[x] EXCEPT !.state = "TICKING", !.uv = "active"]
    BY <1>1 DEF luaw_timer_t
  <2>3. Sound(s) /\ s.mem = timer[x].mem /\ s.lua_ref = timer[x].lua_ref
    BY <1>1, <2>1, <2>2, SoundTouch
  <2>4. timer' = [timer EXCEPT ![x] = s]
    BY <1>6, <2>2 DEF start_user_timer
  <2>5. UNCHANGED <<wait, registry, current, stack, held, scheduler>> /\ Uses(t, x)
    BY <1>6 DEF start_user_timer
  <2>6. Framed(s, x, stack')
    BY <1>1, <2>3, <2>5 DEF Framed
  <2> QED BY <1>1, <1>2, <1>3, <1>4, <2>3, <2>4, <2>5, <2>6, Assemble DEF TypeOK
<1>7. CASE wait_elapsed(t, x)
  <2>1. PICK s \in luaw_timer_t : s = clear_user_timer(timer[x])
    BY <1>1, <1>7, SoundTouch DEF wait_elapsed
  <2>2. Sound(s) /\ s.mem = timer[x].mem /\ s.lua_ref = timer[x].lua_ref
    BY <1>1, <1>7, <2>1, SoundTouch DEF wait_elapsed
  <2>3. timer' = [timer EXCEPT ![x] = s]
    BY <1>7, <2>1 DEF wait_elapsed
  <2>4. UNCHANGED <<wait, registry, current, stack, held, scheduler>> /\ Uses(t, x)
    BY <1>7 DEF wait_elapsed
  <2>5. Framed(s, x, stack')
    BY <1>1, <2>2, <2>4 DEF Framed
  <2> QED BY <1>1, <1>2, <1>3, <1>4, <2>2, <2>3, <2>4, <2>5, Assemble DEF TypeOK
<1>8. CASE wait_user_timer(t, x)
  <2>1. PICK s \in luaw_timer_t : s = [timer[x] EXCEPT !.lua_tid = current]
    BY <1>1 DEF TypeOK, luaw_timer_t
  <2>2. Sound(s) /\ s.mem = timer[x].mem /\ s.lua_ref = timer[x].lua_ref
    BY <1>1, <2>1, SoundTouch DEF TypeOK
  <2>3. timer' = [timer EXCEPT ![x] = s]
    BY <1>8, <2>1 DEF wait_user_timer
  <2>4. /\ Uses(t, x) /\ Executes(t) /\ Yield(t, "timer", x)
        /\ UNCHANGED <<registry, held, scheduler>> /\ registry' \in SUBSET Tids
    BY <1>1, <1>8 DEF wait_user_timer, Uses, TypeOK
  <2>5. SchedulerTypes /\ stack' \in Seq(Frame) /\ SameFrames(stack', stack, {})
    BY <1>1, <2>4, YieldLemma DEF Doing
  <2>6. Framed(s, x, stack') /\ SameFrames(stack', stack, {x})
    BY <1>1, <2>2, <2>5 DEF Framed, SameFrames
  <2> QED BY <1>1, <1>4, <2>2, <2>3, <2>4, <2>5, <2>6, Assemble DEF TypeOK
<1>9. CASE stop_user_timer(t, x)
  <2> DEFINE below == <<<<"stop", x>>>> \o stack
  <2>1. /\ resume_lua_thread(timer[x].lua_tid, below) /\ UNCHANGED <<timer, held, scheduler>>
        /\ Uses(t, x) /\ timer[x].lua_ref
    BY <1>9 DEF stop_user_timer, Uses
  <2>2. <<"stop", x>> \in Frame
    BY DEF Frame
  <2>3. /\ below \in Seq(Frame)
        /\ \A g : InSeq(g, below) <=> (g = <<"stop", x>> \/ InSeq(g, stack))
    BY <1>1, <2>2, PushLemma
  <2> HIDE DEF below
  <2>4. SchedulerTypes /\ stack' \in Seq(Frame) /\ SameFrames(stack', below, {})
    BY <1>1, <2>1, <2>3, ResumeLemma
  <2>5. SameFrames(stack', stack, {x})
    BY <2>3, <2>4 DEF SameFrames, Stopping, Deleting
  <2>6. Deleting(x, stack') <=> Deleting(x, stack)
    BY <2>3, <2>4 DEF SameFrames, Deleting
  <2>7. Framed(timer[x], x, stack')
    BY <1>1, <2>1, <2>6, OpenTimer DEF Framed
  <2>8. timer' = [timer EXCEPT ![x] = timer[x]]
    BY <1>1, <2>1 DEF TypeOK
  <2> QED BY <1>1, <1>4, <2>1, <2>4, <2>5, <2>7, <2>8, Assemble DEF TypeOK
<1>10. CASE close_timer_lua(t, x)
  BY <1>1, <1>4, <1>10, CloseLemma DEF close_timer_lua, Uses, TypeOK
<1>11. CASE wait_raises(t, x)
  <2>1. finish(t)
    BY <1>11 DEF wait_raises
  <2>2. /\ Executes(t) /\ Yield(t, "free", Nothing)
        /\ registry' \in SUBSET Tids /\ held' \in [Timers -> SUBSET Tids]
        /\ UNCHANGED <<timer, scheduler, reentered>>
    BY <1>1, <2>1 DEF finish, TypeOK
  <2>3. SchedulerTypes /\ stack' \in Seq(Frame) /\ SameFrames(stack', stack, {})
    BY <1>1, <2>2, YieldLemma DEF Doing
  <2> QED BY <1>1, <2>2, <2>3, Keep DEF TypeOK
<1>12. CASE (\E u \in Tids : share(t, u, x)) \/ forget(t, x)
  <2>1. /\ held' \in [Timers -> SUBSET Tids]
        /\ UNCHANGED <<timer, wait, registry, current, stack, scheduler, reentered>>
    BY <1>1, <1>12 DEF share, forget, TypeOK
  <2> QED BY <1>1, <1>2, <1>3, <2>1, Keep DEF TypeOK
<1> QED BY <1>5, <1>6, <1>7, <1>8, <1>9, <1>10, <1>11, <1>12 DEF CallStep

\* Starting, waking, blocking and ending a thread keep the invariant.
LEMMA ThreadPreserves ==
  ASSUME IndInv, NEW t \in Tids, ThreadStep(t)
  PROVE  IndInv'
<1>1. TypeOK /\ stack \in Seq(Frame)
  BY DEF IndInv, TypeOK
<1>2. CASE start_thread(t)
  <2>1. stack = <<>> /\ Run(t, <<>>) /\ UNCHANGED <<timer, held, scheduler, reentered>>
    BY <1>2 DEF start_thread, Idle
  <2>2. <<"thread", t>> \in Frame /\ <<>> \in Seq(Frame)
    BY DEF Frame
  <2>3. /\ stack' \in Seq(Frame)
        /\ \A g : InSeq(g, stack') <=> (g = <<"thread", t>> \/ InSeq(g, stack))
    BY <2>1, <2>2, PushLemma DEF Run
  <2>4. SameFrames(stack', stack, {})
    BY <2>3 DEF SameFrames, Stopping, Deleting
  <2>5. SchedulerTypes
    BY <1>1, <1>2 DEF start_thread, Run, SchedulerTypes, TypeOK, OptTid, Doing
  <2> QED BY <1>1, <2>1, <2>3, <2>4, <2>5, Keep DEF TypeOK
<1>3. CASE on_event(t)
  <2>1. /\ stack = <<>> /\ resume_lua_thread(t, stack) /\ t \in OptTid
        /\ UNCHANGED <<timer, held, scheduler, reentered>>
    BY <1>3 DEF on_event, Idle, OptTid
  <2>2. SchedulerTypes /\ stack' \in Seq(Frame) /\ SameFrames(stack', stack, {})
    BY <1>1, <2>1, ResumeLemma
  <2> QED BY <1>1, <2>1, <2>2, Keep DEF TypeOK
<1>4. CASE define_scheduler(t)
  <2>1. /\ SchedulerTypes /\ SameFrames(stack', stack, {}) /\ stack' = stack
        /\ timer' = timer /\ held' = held /\ scheduler' = TRUE /\ reentered' = reentered
    BY <1>1, <1>4 DEF define_scheduler, SchedulerTypes, SameFrames, TypeOK
  <2> QED BY <1>1, <2>1, Keep DEF TypeOK
<1>5. CASE block(t) \/ finish(t)
  <2>1. PICK doing \in {"event", "free"} :
          /\ Executes(t) /\ Yield(t, doing, Nothing)
          /\ registry' \in SUBSET Tids /\ held' \in [Timers -> SUBSET Tids]
          /\ UNCHANGED <<timer, scheduler, reentered>>
    BY <1>1, <1>5 DEF block, finish, TypeOK
  <2>2. SchedulerTypes /\ stack' \in Seq(Frame) /\ SameFrames(stack', stack, {})
    BY <1>1, <2>1, YieldLemma DEF Doing
  <2> QED BY <1>1, <2>1, <2>2, Keep DEF TypeOK
<1> QED BY <1>2, <1>3, <1>4, <1>5 DEF ThreadStep

-----------------------------------------------------------------------------
(* The theorems *)

\* The invariant holds in every reachable state.
THEOREM Inductive == Spec => []IndInv
<1>1. Init => IndInv
  <2> SUFFICES ASSUME Init PROVE IndInv
    OBVIOUS
  <2>1. TypeOK
    <3>1. timer \in [Timers -> luaw_timer_t] /\ held \in [Timers -> SUBSET Tids]
      BY SoundNew DEF Init
    <3>2. wait \in [Tids -> Doing \X (Timers \cup {Nothing})]
      BY DEF Init, Doing
    <3>3. registry \in SUBSET Tids /\ current \in OptTid /\ stack \in Seq(Frame)
      BY DEF Init, OptTid
    <3>4. scheduler \in BOOLEAN /\ reentered \in BOOLEAN
      BY DEF Init
    <3> QED BY <3>1, <3>2, <3>3, <3>4 DEF TypeOK
  <2>2. \A x \in Timers : Sound(timer[x]) /\ Framed(timer[x], x, stack)
    BY SoundNew, EmptyLemma DEF Init, Framed, Stopping, Deleting
  <2> QED BY <2>1, <2>2 DEF IndInv
<1>2. IndInv /\ [Next]_vars => IndInv'
  <2> SUFFICES ASSUME IndInv, [Next]_vars PROVE IndInv'
    OBVIOUS
  <2>1. CASE UNCHANGED vars
    <3>1. /\ SchedulerTypes /\ SameFrames(stack', stack, {}) /\ stack' = stack
          /\ UNCHANGED <<timer, held, scheduler, reentered>>
      BY <2>1 DEF vars, IndInv, TypeOK, SchedulerTypes, SameFrames
    <3> QED BY <3>1, Keep DEF IndInv, TypeOK
  <2>2. CASE \E x \in Timers : LoopStep(x)
    BY <2>2, LoopPreserves
  <2>3. CASE ControlStep
    BY <2>3, ControlPreserves
  <2>4. ASSUME NEW t \in Tids, ThreadStep(t) PROVE IndInv'
    BY <2>4, ThreadPreserves
  <2>5. ASSUME NEW t \in Tids, NEW x \in Timers, CallStep(t, x) PROVE IndInv'
    BY <2>5, CallPreserves
  <2> QED BY <2>1, <2>2, <2>3, <2>4, <2>5 DEF Next
<1> QED BY <1>1, <1>2, PTL DEF Spec

\* Every reachable state is well typed (luaw_timer.c and the frames its calls
\* leave on the C stack), for any sets of timers and threads.
THEOREM TimerTypes == Spec => []TypeOK
BY Inductive, PTL DEF IndInv

\* A timer's reference count is exact and no pending stop or close_timer uses
\* a freed timer, whatever the threads they resume do.
THEOREM TimersAreMemorySafe == Spec => []TimerMemorySafe
<1>1. IndInv => TimerMemorySafe
  BY DEF IndInv, Sound, Framed, Stopping, Deleting, TimerMemorySafe
<1> QED BY <1>1, Inductive, PTL

\* An open timer is TICKING exactly while its libuv handle will fire, across
\* start, the timeout, wait and nested stops.
THEOREM StateAgreesWithHandle == Spec => []TickingMeansActive
<1>1. IndInv => TickingMeansActive
  BY DEF IndInv, Sound, TickingMeansActive
<1> QED BY <1>1, Inductive, PTL

-----------------------------------------------------------------------------
(* Waiting threads.  As long as no thread uses a timer that is just being   *)
(* stopped, threads and timers name each other: the thread blocked in wait  *)
(* is the one its timer will resume.  That a resume always finds its thread *)
(* suspended rests on the C stack: each thread is on it at most once, the   *)
(* current thread is the topmost one, and a timer that is being stopped is  *)
(* held by the thread that stops it, so the collector does not take it.     *)

\* A thread is registered until it ends, and runs while it is on the stack.
ThreadsKnown ==
  \A t \in Tids : /\ wait[t][1] # "free" <=> t \in registry
                  /\ wait[t][1] = "running" <=> OnStack(t)

Distinct(s) == \A i, j \in 1 .. Len(s) : s[i] = s[j] => i = j

\* Thread t is the topmost thread of stack s.
TopThread(s, t) ==
  \E i \in 1 .. Len(s) : /\ s[i] = <<"thread", t>>
                         /\ \A j \in 1 .. (i - 1) : s[j] \notin {"thread"} \X Tids

\* The caller of every pending stop holds the timer, where h says who does.
StopsHeld(s, h) ==
  \A i \in 1 .. Len(s), x \in Timers :
    s[i] = <<"stop", x>> => /\ i + 1 \in 1 .. Len(s)
                            /\ \E t \in h[x] : s[i + 1] = <<"thread", t>>

StackSound(s, h, c) ==
  /\ Distinct(s)
  /\ StopsHeld(s, h)
  /\ c # NoTid => TopThread(s, c)

\* Nobody waits on timer x.
Unwaited(x) == \A t \in Tids : wait[t] # <<"timer", x>>

\* Timer x and the thread that waits on it name each other.
Paired(x) ==
  /\ \A t \in Tids : wait[t] = <<"timer", x>> =>
       /\ timer[x].lua_tid = t /\ timer[x].uv = "active" /\ timer[x].lua_ref
       /\ ~Stopping(x, stack)
  /\ timer[x].lua_tid # NoTid =>
       wait[timer[x].lua_tid] = <<"timer", x>> \/ Stopping(x, stack)

WaitsOnTimers == \A t \in Tids : wait[t][1] = "timer" => wait[t][2] \in Timers

\* What the invariant says of threads and the stack.
Controlled == ThreadsKnown /\ StackSound(stack, held, current)

Waiting ==
  /\ Controlled
  /\ WaitsOnTimers
  /\ \A x \in Timers : Paired(x)

WaitInv == ~reentered => Waiting

-----------------------------------------------------------------------------
(* The stack of waiting and stopping threads *)

\* Pushing a frame that is not on the stack keeps the stack sound, if it is a
\* thread's that becomes the current one, or a call of the topmost thread.
LEMMA PushSound ==
  ASSUME NEW s \in Seq(Frame), NEW h, NEW c, NEW d, StackSound(s, h, c),
         NEW f \in Frame, ~InSeq(f, s), NEW p, p = <<f>> \o s,
         \A x \in Timers : f = <<"stop", x>> =>
           s # <<>> /\ \E t \in h[x] : Head(s) = <<"thread", t>>,
         \/ f = <<"thread", d>>
         \/ f \notin {"thread"} \X Tids /\ d = c
         \/ d = NoTid
  PROVE  StackSound(p, h, d)
<1>1. p \in Seq(Frame) /\ Len(p) = Len(s) + 1 /\ Len(s) \in Nat
  OBVIOUS
<1>2. \A i \in 1 .. Len(p) : p[i] = IF i = 1 THEN f ELSE s[i - 1]
  OBVIOUS
<1>3. Distinct(p)
  <2> SUFFICES ASSUME NEW i \in 1 .. Len(p), NEW j \in 1 .. Len(p), p[i] = p[j]
               PROVE  i = j
    BY DEF Distinct
  <2>1. \A k \in 1 .. Len(s) : s[k] # f
    BY DEF InSeq
  <2>2. CASE i = 1
    BY <1>1, <1>2, <2>1, <2>2
  <2>3. CASE j = 1
    BY <1>1, <1>2, <2>1, <2>3
  <2>4. CASE i # 1 /\ j # 1
    <3>1. i - 1 \in 1 .. Len(s) /\ j - 1 \in 1 .. Len(s) /\ s[i - 1] = s[j - 1]
      BY <1>1, <1>2, <2>4
    <3>2. i - 1 = j - 1
      BY <3>1 DEF StackSound, Distinct
    <3> QED BY <3>2
  <2> QED BY <2>2, <2>3, <2>4
<1>4. StopsHeld(p, h)
  <2> SUFFICES ASSUME NEW i \in 1 .. Len(p), NEW x \in Timers, p[i] = <<"stop", x>>
               PROVE  i + 1 \in 1 .. Len(p) /\ \E t \in h[x] : p[i + 1] = <<"thread", t>>
    BY DEF StopsHeld
  <2>1. CASE i = 1
    <3>1. f = <<"stop", x>>
      BY <1>2, <2>1
    <3>2. s # <<>> /\ \E t \in h[x] : Head(s) = <<"thread", t>>
      BY <3>1
    <3>3. Len(s) # 0 /\ Head(s) = s[1]
      BY <3>2
    <3>4. 2 \in 1 .. Len(p) /\ p[2] = s[1]
      BY <1>1, <1>2, <3>3
    <3> QED BY <2>1, <3>2, <3>3, <3>4
  <2>2. CASE i # 1
    <3>1. i - 1 \in 1 .. Len(s) /\ s[i - 1] = <<"stop", x>>
      BY <1>1, <1>2, <2>2
    <3>2. (i - 1) + 1 \in 1 .. Len(s) /\ \E t \in h[x] : s[(i - 1) + 1] = <<"thread", t>>
      BY <3>1 DEF StackSound, StopsHeld
    <3>3. i \in 1 .. Len(s) /\ \E t \in h[x] : s[i] = <<"thread", t>>
      BY <3>2
    <3>4. i + 1 \in 1 .. Len(p) /\ p[i + 1] = s[i]
      BY <1>1, <1>2, <3>3
    <3> QED BY <3>3, <3>4
  <2> QED BY <2>1, <2>2
<1>5. d # NoTid => TopThread(p, d)
  <2>1. CASE f = <<"thread", d>>
    <3>1. 1 \in 1 .. Len(p) /\ p[1] = <<"thread", d>> /\ 1 .. (1 - 1) = {}
      BY <1>1, <1>2, <2>1
    <3> QED BY <3>1 DEF TopThread
  <2>2. CASE f \notin {"thread"} \X Tids /\ d = c /\ d # NoTid
    <3>1. PICK i \in 1 .. Len(s) : /\ s[i] = <<"thread", d>>
                                   /\ \A j \in 1 .. (i - 1) : s[j] \notin {"thread"} \X Tids
      BY <2>2 DEF StackSound, TopThread
    <3>2. i + 1 \in 1 .. Len(p) /\ p[i + 1] = <<"thread", d>>
      BY <1>1, <1>2, <3>1
    <3>3. ASSUME NEW j \in 1 .. ((i + 1) - 1) PROVE p[j] \notin {"thread"} \X Tids
      <4>1. CASE j = 1
        BY <1>1, <1>2, <2>2, <4>1
      <4>2. CASE j # 1
        <5>1. j - 1 \in 1 .. (i - 1) /\ j \in 1 .. Len(p)
          BY <1>1, <4>2
        <5> QED BY <1>2, <3>1, <4>2, <5>1
      <4> QED BY <4>1, <4>2
    <3> QED BY <3>2, <3>3 DEF TopThread
  <2> QED BY <2>1, <2>2
<1> QED BY <1>3, <1>4, <1>5 DEF StackSound

\* Popping a frame keeps the stack sound, if it was not a thread's or there
\* is no current thread any more.  The frame is then not on the stack.
LEMMA PopSound ==
  ASSUME NEW s \in Seq(Frame), s # <<>>, NEW h, NEW c, NEW d, StackSound(s, h, c),
         d = NoTid \/ (d = c /\ Head(s) \notin {"thread"} \X Tids)
  PROVE  StackSound(Tail(s), h, d) /\ ~InSeq(Head(s), Tail(s))
<1> DEFINE p == Tail(s)
<1>1. Len(p) = Len(s) - 1 /\ Len(s) \in Nat \ {0} /\ Head(s) = s[1]
  OBVIOUS
<1>2. \A i \in 1 .. Len(p) : p[i] = s[i + 1] /\ i + 1 \in 1 .. Len(s)
  BY <1>1
<1> HIDE DEF p
<1>3. Distinct(p)
  <2> SUFFICES ASSUME NEW i \in 1 .. Len(p), NEW j \in 1 .. Len(p), p[i] = p[j]
               PROVE  i = j
    BY DEF Distinct
  <2>1. i + 1 = j + 1
    BY <1>2 DEF StackSound, Distinct
  <2> QED BY <1>1, <2>1
<1>4. ~InSeq(Head(s), p)
  <2> SUFFICES ASSUME NEW i \in 1 .. Len(p), p[i] = s[1] PROVE FALSE
    BY <1>1 DEF InSeq
  <2>1. i + 1 = 1
    BY <1>1, <1>2 DEF StackSound, Distinct
  <2> QED BY <1>1, <2>1
<1>5. StopsHeld(p, h)
  <2> SUFFICES ASSUME NEW i \in 1 .. Len(p), NEW x \in Timers, p[i] = <<"stop", x>>
               PROVE  i + 1 \in 1 .. Len(p) /\ \E t \in h[x] : p[i + 1] = <<"thread", t>>
    BY DEF StopsHeld
  <2>1. (i + 1) + 1 \in 1 .. Len(s) /\ \E t \in h[x] : s[(i + 1) + 1] = <<"thread", t>>
    BY <1>2 DEF StackSound, StopsHeld
  <2>2. i + 1 \in 1 .. Len(p)
    BY <1>1, <2>1
  <2>3. p[i + 1] = s[(i + 1) + 1]
    BY <1>2, <2>2
  <2> QED BY <2>1, <2>2, <2>3
<1>6. ASSUME d # NoTid PROVE TopThread(p, d)
  <2>1. PICK i \in 1 .. Len(s) : /\ s[i] = <<"thread", d>>
                                 /\ \A j \in 1 .. (i - 1) : s[j] \notin {"thread"} \X Tids
    BY <1>6 DEF StackSound, TopThread
  <2>2. i # 1
    <3>1. CASE i = 1 /\ d \in Tids
      <4>1. <<"thread", d>> \in {"thread"} \X Tids
        BY <3>1
      <4>2. Head(s) = <<"thread", d>> /\ Head(s) \notin {"thread"} \X Tids
        BY <1>1, <1>6, <2>1, <3>1
      <4> QED BY <4>1, <4>2
    <3>2. CASE i = 1 /\ d \notin Tids
      <4>1. s[1] \in Frame
        BY <1>1
      <4> QED BY <2>1, <3>2, <4>1 DEF Frame
    <3> QED BY <3>1, <3>2
  <2>3. i - 1 \in 1 .. Len(p) /\ p[i - 1] = s[i]
    BY <1>1, <1>2, <2>2
  <2>4. ASSUME NEW j \in 1 .. ((i - 1) - 1) PROVE p[j] \notin {"thread"} \X Tids
    <3>1. j + 1 \in 1 .. (i - 1) /\ j \in 1 .. Len(p)
      BY <1>1
    <3> QED BY <1>2, <2>1, <3>1
  <2> QED BY <2>1, <2>3, <2>4 DEF TopThread
<1> QED BY <1>3, <1>4, <1>5, <1>6 DEF StackSound, p

\* The executing thread may let go of its timers: it stops none of them.
LEMMA HeldSound ==
  ASSUME NEW s \in Seq(Frame), s # <<>>, NEW h, NEW g, NEW c, StackSound(s, h, c),
         NEW t \in Tids, Head(s) = <<"thread", t>>,
         \A x \in Timers : InSeq(<<"stop", x>>, s) => h[x] \ {t} \subseteq g[x]
  PROVE  StackSound(s, g, c)
<1>1. Len(s) \in Nat \ {0} /\ s[1] = <<"thread", t>>
  OBVIOUS
<1>2. ASSUME NEW i \in 1 .. Len(s), NEW x \in Timers, s[i] = <<"stop", x>>
      PROVE  i + 1 \in 1 .. Len(s) /\ \E u \in g[x] : s[i + 1] = <<"thread", u>>
  <2>1. i + 1 \in 1 .. Len(s) /\ \E u \in h[x] : s[i + 1] = <<"thread", u>>
    BY <1>2 DEF StackSound, StopsHeld
  <2>2. PICK u \in h[x] : s[i + 1] = <<"thread", u>>
    BY <2>1
  <2>3. u # t
    <3>1. 1 \in 1 .. Len(s) /\ i + 1 # 1
      BY <1>1
    <3>2. s[i + 1] # s[1]
      BY <2>1, <3>1 DEF StackSound, Distinct
    <3> QED BY <1>1, <2>2, <3>2
  <2>4. u \in g[x]
    BY <1>2, <2>2, <2>3 DEF InSeq
  <2> QED BY <2>1, <2>2, <2>4
<1> QED BY <1>2 DEF StackSound, StopsHeld

\* The current thread, if there is one, is the one that executes.
LEMMA ExecutesCurrent ==
  ASSUME NEW s \in Seq(Frame), s # <<>>, NEW h, NEW c \in OptTid, c # NoTid,
         StackSound(s, h, c), NEW t \in Tids, Head(s) = <<"thread", t>>
  PROVE  c = t
<1>1. PICK i \in 1 .. Len(s) : /\ s[i] = <<"thread", c>>
                               /\ \A j \in 1 .. (i - 1) : s[j] \notin {"thread"} \X Tids
  BY DEF StackSound, TopThread
<1>2. Len(s) \in Nat \ {0} /\ s[1] = <<"thread", t>>
  OBVIOUS
<1>3. i = 1
  <2>1. ASSUME i # 1 PROVE FALSE
    <3>1. 1 \in 1 .. (i - 1)
      BY <1>2, <2>1
    <3>2. s[1] \notin {"thread"} \X Tids
      BY <1>1, <3>1
    <3>3. <<"thread", t>> \in {"thread"} \X Tids
      OBVIOUS
    <3> QED BY <1>2, <3>2, <3>3
  <2> QED BY <2>1
<1> QED BY <1>1, <1>2, <1>3

\* The empty stack is sound.
LEMMA EmptySound == \A h : StackSound(<<>>, h, NoTid)
BY DEF StackSound, Distinct, StopsHeld

-----------------------------------------------------------------------------
(* Resuming, yielding and returning *)

\* Resuming a suspended thread, or no thread, on top of a sound stack.
LEMMA ResumeSound ==
  ASSUME TypeOK, ThreadsKnown, NEW u \in OptTid,
         u # NoTid => wait[u][1] \in {"timer", "event"},
         NEW below \in Seq(Frame), StackSound(below, held, current),
         \A t \in Tids : InSeq(<<"thread", t>>, below) <=> OnStack(t),
         resume_lua_thread(u, below), held' = held
  PROVE  /\ Controlled'
         /\ \A t \in Tids : wait'[t] = IF t = u THEN <<"running", Nothing>> ELSE wait[t]
<1>1. CASE u = NoTid
  <2>1. stack' = below /\ wait' = wait /\ registry' = registry /\ current' = current
    BY <1>1 DEF resume_lua_thread
  <2>2. \A t \in Tids : t # u
    BY <1>1, TimerAssumption
  <2>3. ThreadsKnown'
    BY <2>1 DEF ThreadsKnown, OnStack
  <2> QED BY <2>1, <2>2, <2>3 DEF Controlled
<1>2. CASE u # NoTid
  <2>1. u \in Tids /\ u \in registry /\ ~OnStack(u)
    BY <1>2 DEF OptTid, ThreadsKnown
  <2>2. Run(u, below) /\ registry' = registry
    BY <1>2, <2>1 DEF resume_lua_thread
  <2>3. <<"thread", u>> \in Frame /\ \A x : <<"thread", u>> # <<"stop", x>>
    BY <2>1 DEF Frame
  <2>4. /\ stack' = <<<<"thread", u>>>> \o below /\ current' = u
        /\ wait' = [wait EXCEPT ![u] = <<"running", Nothing>>]
    BY <2>2 DEF Run
  <2>5. \A g : InSeq(g, stack') <=> (g = <<"thread", u>> \/ InSeq(g, below))
    BY <2>3, <2>4, PushLemma
  <2>6. \A t \in Tids : wait'[t] = IF t = u THEN <<"running", Nothing>> ELSE wait[t]
    BY <2>1, <2>4 DEF TypeOK
  <2>7. StackSound(stack', held', current')
    <3>1. ~InSeq(<<"thread", u>>, below)
      BY <2>1
    <3>2. PICK f \in Frame : f = <<"thread", u>>
      BY <2>3
    <3>3. /\ ~InSeq(f, below) /\ stack' = <<f>> \o below
          /\ \A x \in Timers : f # <<"stop", x>>
      BY <2>3, <2>4, <3>1, <3>2
    <3>4. StackSound(stack', held, u)
      BY ONLY below \in Seq(Frame), StackSound(below, held, current), f \in Frame,
              <3>2, <3>3, PushSound
    <3> QED BY <2>4, <3>4
  <2>8. ThreadsKnown'
    <3> SUFFICES ASSUME NEW t \in Tids
                 PROVE  /\ wait'[t][1] # "free" <=> t \in registry'
                        /\ wait'[t][1] = "running" <=> InSeq(<<"thread", t>>, stack')
      BY DEF ThreadsKnown, OnStack
    <3>1. InSeq(<<"thread", t>>, stack') <=> (t = u \/ OnStack(t))
      BY <2>5
    <3>2. CASE t = u
      BY <2>1, <2>2, <2>6, <3>1, <3>2
    <3>3. CASE t # u
      BY <2>2, <2>6, <3>1, <3>3 DEF ThreadsKnown
    <3> QED BY <3>2, <3>3
  <2> QED BY <2>6, <2>7, <2>8 DEF Controlled
<1> QED BY <1>1, <1>2

\* A thread that yields or ends, and may then no longer hold its timers.
LEMMA YieldSound ==
  ASSUME TypeOK, Controlled, NEW t \in Tids, NEW doing \in {"free", "timer", "event"},
         NEW x, Executes(t), Yield(t, doing, x),
         registry' = IF doing = "free" THEN registry \ {t} ELSE registry,
         \A y \in Timers : held[y] \ {t} \subseteq held'[y]
  PROVE  /\ Controlled'
         /\ wait[t][1] = "running"
         /\ \A u \in Tids : wait'[u] = IF u = t THEN <<doing, x>> ELSE wait[u]
<1>1. stack \in Seq(Frame) /\ stack # <<>> /\ Head(stack) = <<"thread", t>>
  BY DEF TypeOK, Executes
<1>2. /\ stack' = Tail(stack) /\ current' = NoTid
      /\ wait' = [wait EXCEPT ![t] = <<doing, x>>]
  BY DEF Yield
<1>3. \A g : InSeq(g, stack) <=> (g = <<"thread", t>> \/ InSeq(g, stack'))
  BY <1>1, <1>2, PopLemma
<1>4. \A u \in Tids : wait'[u] = IF u = t THEN <<doing, x>> ELSE wait[u]
  BY <1>2 DEF TypeOK
<1>5. StackSound(stack, held', current)
  BY <1>1, HeldSound DEF Controlled
<1>6. StackSound(stack', held', current') /\ ~InSeq(<<"thread", t>>, stack')
  BY <1>1, <1>2, <1>5, PopSound
<1>7. wait[t][1] = "running"
  BY <1>3 DEF Controlled, ThreadsKnown, OnStack
<1>8. ThreadsKnown'
  <2> SUFFICES ASSUME NEW u \in Tids
               PROVE  /\ wait'[u][1] # "free" <=> u \in registry'
                      /\ wait'[u][1] = "running" <=> InSeq(<<"thread", u>>, stack')
    BY DEF ThreadsKnown, OnStack
  <2>1. CASE u = t
    <3>1. t \in registry
      BY <1>7 DEF Controlled, ThreadsKnown
    <3>2. wait'[u] = <<doing, x>>
      BY <1>4, <2>1
    <3> QED BY <1>6, <2>1, <3>1, <3>2
  <2>2. CASE u # t
    <3>1. wait'[u] = wait[u] /\ (u \in registry' <=> u \in registry)
      BY <1>4, <2>2
    <3>2. InSeq(<<"thread", u>>, stack') <=> OnStack(u)
      BY <1>3, <2>2 DEF OnStack
    <3> QED BY <3>1, <3>2 DEF Controlled, ThreadsKnown
  <2> QED BY <2>1, <2>2
<1> QED BY <1>4, <1>6, <1>7, <1>8 DEF Controlled

\* A call returns to the thread that made it.
LEMMA ReturnSound ==
  ASSUME TypeOK, Controlled, stack # <<>>, Head(stack) \notin {"thread"} \X Tids,
         stack' = Tail(stack), UNCHANGED <<wait, registry, current, held>>
  PROVE  Controlled'
<1>1. stack \in Seq(Frame)
  BY DEF TypeOK
<1>2. StackSound(stack', held', current')
  BY <1>1, PopSound DEF Controlled
<1>3. \A g : InSeq(g, stack) <=> (g = Head(stack) \/ InSeq(g, stack'))
  BY <1>1, PopLemma
<1>4. ASSUME NEW t \in Tids PROVE InSeq(<<"thread", t>>, stack') <=> OnStack(t)
  <2>1. <<"thread", t>> \in {"thread"} \X Tids
    OBVIOUS
  <2> QED BY <1>3, <2>1 DEF OnStack
<1>5. ThreadsKnown'
  BY <1>4 DEF Controlled, ThreadsKnown, OnStack
<1> QED BY <1>2, <1>5 DEF Controlled

\* A call that leaves control as it is; only the executing thread may cease
\* to hold a timer, or one that nobody stops changes hands.
LEMMA CallSound ==
  ASSUME TypeOK, Controlled, NEW t \in Tids, Executes(t),
         UNCHANGED <<wait, registry, current, stack>>,
         \A y \in Timers : Stopping(y, stack) => held[y] \ {t} \subseteq held'[y]
  PROVE  Controlled'
<1>1. stack \in Seq(Frame) /\ stack # <<>> /\ Head(stack) = <<"thread", t>>
  BY DEF TypeOK, Executes
<1>2. StackSound(stack, held', current)
  BY <1>1, HeldSound DEF Controlled, Stopping
<1> QED BY <1>2 DEF Controlled, ThreadsKnown, OnStack

\* A stop or close_timer that is not pending yet is pushed by the executing
\* thread, or by the collector.
LEMMA PushCall ==
  ASSUME TypeOK, Controlled, NEW f \in {"stop", "close_timer"} \X Timers, ~InSeq(f, stack),
         \A y \in Timers : f = <<"stop", y>> => \E t \in held[y] : Executes(t),
         NEW below, below = <<f>> \o stack
  PROVE  /\ below \in Seq(Frame) /\ StackSound(below, held, current)
         /\ \A t \in Tids : InSeq(<<"thread", t>>, below) <=> OnStack(t)
<1>1. stack \in Seq(Frame) /\ f \in Frame /\ f \notin {"thread"} \X Tids
  BY DEF TypeOK, Frame
<1>2. below \in Seq(Frame) /\ \A g : InSeq(g, below) <=> (g = f \/ InSeq(g, stack))
  BY <1>1, PushLemma
<1>3. StackSound(below, held, current)
  <2>1. \A y \in Timers : f = <<"stop", y>> =>
          stack # <<>> /\ \E t \in held[y] : Head(stack) = <<"thread", t>>
    BY DEF Executes
  <2>2. StackSound(stack, held, current)
    BY DEF Controlled
  <2> QED BY <1>1, <2>1, <2>2, PushSound
<1>4. \A t \in Tids : InSeq(<<"thread", t>>, below) <=> OnStack(t)
  <2>1. \A t \in Tids : f # <<"thread", t>>
    BY <1>1
  <2> QED BY <1>2, <2>1 DEF OnStack
<1> QED BY <1>2, <1>3, <1>4

-----------------------------------------------------------------------------
(* Timers and their waiters *)

\* A timer that does not tick, is not open, is being stopped or names nobody
\* has no waiter, and names a thread only while it is being stopped.
LEMMA NobodyWaits ==
  ASSUME TypeOK, NEW x \in Timers, Paired(x),
         \/ timer[x].uv # "active" \/ ~timer[x].lua_ref
         \/ Stopping(x, stack) \/ timer[x].lua_tid = NoTid
  PROVE  /\ Unwaited(x)
         /\ timer[x].lua_tid # NoTid => Stopping(x, stack)
<1>1. Unwaited(x)
  BY TimerAssumption DEF Paired, Unwaited
<1>2. timer[x].lua_tid \in OptTid
  BY DEF TypeOK, luaw_timer_t
<1>3. timer[x].lua_tid # NoTid => wait[timer[x].lua_tid] # <<"timer", x>>
  BY <1>1, <1>2 DEF Unwaited, OptTid
<1> QED BY <1>1, <1>3 DEF Paired

\* A timer that a step does not touch, and that gains and loses no waiter.
LEMMA PairStays ==
  ASSUME TypeOK, NEW y \in Timers, Paired(y), timer'[y] = timer[y],
         Stopping(y, stack') <=> Stopping(y, stack),
         \A t \in Tids : (wait'[t] = <<"timer", y>>) <=> (wait[t] = <<"timer", y>>)
  PROVE  Paired(y)'
<1>1. timer[y].lua_tid \in OptTid
  BY DEF TypeOK, luaw_timer_t
<1>2. timer[y].lua_tid # NoTid =>
        wait'[timer[y].lua_tid] = <<"timer", y>> \/ Stopping(y, stack')
  BY <1>1 DEF Paired, OptTid
<1> QED BY <1>2 DEF Paired

\* A timer that no thread waits on, and that names one only in a stop.
LEMMA PairQuiet ==
  ASSUME NEW x \in Timers, Unwaited(x)',
         timer'[x].lua_tid # NoTid => Stopping(x, stack')
  PROVE  Paired(x)'
BY DEF Paired, Unwaited

\* stop, delete, the collector and the timeout resume the thread that waits on
\* their timer, if there is one.  It is suspended, and no thread waits on the
\* timer afterwards.
LEMMA ResumeWaiter ==
  ASSUME TypeOK, Waiting, NEW x \in Timers, ~Stopping(x, stack),
         NEW below \in Seq(Frame), StackSound(below, held, current),
         \A t \in Tids : InSeq(<<"thread", t>>, below) <=> OnStack(t),
         SameFrames(below, stack, {x}),
         resume_lua_thread(timer[x].lua_tid, below), held' = held,
         \A y \in Timers \ {x} : timer'[y] = timer[y]
  PROVE  /\ Controlled' /\ WaitsOnTimers' /\ Unwaited(x)'
         /\ \A y \in Timers \ {x} : Paired(y)'
<1>1. PICK u \in OptTid : u = timer[x].lua_tid
  BY DEF TypeOK, luaw_timer_t
<1>2. u # NoTid => wait[u] = <<"timer", x>>
  BY <1>1 DEF Waiting, Paired
<1>3. u # NoTid => wait[u][1] \in {"timer", "event"}
  BY <1>2
<1>4. resume_lua_thread(u, below) /\ ThreadsKnown
  BY <1>1 DEF Waiting, Controlled
<1>5. /\ Controlled'
      /\ \A t \in Tids : wait'[t] = IF t = u THEN <<"running", Nothing>> ELSE wait[t]
  BY <1>3, <1>4, ResumeSound
<1>6. ASSUME NEW y, NEW t \in Tids
      PROVE  /\ t = u => wait'[t] # <<"timer", y>> /\ wait'[t][1] # "timer"
             /\ t # u => wait'[t] = wait[t]
  BY <1>5
<1>7. WaitsOnTimers'
  BY <1>6 DEF Waiting, WaitsOnTimers
<1>8. Unwaited(x)'
  <2> SUFFICES ASSUME NEW t \in Tids, wait'[t] = <<"timer", x>> PROVE FALSE
    BY DEF Unwaited
  <2>1. t # u /\ wait[t] = <<"timer", x>>
    BY <1>6
  <2> QED BY <1>1, <2>1 DEF Waiting, Paired
<1>9. ASSUME NEW y \in Timers \ {x} PROVE Paired(y)'
  <2>1. SameFrames(stack', below, {})
    BY <1>4, ResumeLemma
  <2>2. Stopping(y, stack') <=> Stopping(y, stack)
    BY <2>1 DEF SameFrames
  <2>3. ASSUME NEW t \in Tids
        PROVE  (wait'[t] = <<"timer", y>>) <=> (wait[t] = <<"timer", y>>)
    <3>1. CASE t = u
      <4>1. wait[t] = <<"timer", x>> /\ x # y
        BY <1>2, <3>1, TimerAssumption
      <4>2. wait[t] # <<"timer", y>>
        BY <4>1
      <4> QED BY <1>6, <3>1, <4>2
    <3>2. CASE t # u
      BY <1>6, <3>2
    <3> QED BY <3>1, <3>2
  <2> QED BY <2>2, <2>3, PairStays DEF Waiting
<1> QED BY <1>5, <1>7, <1>8, <1>9

\* A step that changes what no thread waits for keeps the other timers paired.
LEMMA OthersStay ==
  ASSUME TypeOK, Waiting, NEW X, wait' = wait, SameFrames(stack', stack, X),
         \A y \in Timers \ X : timer'[y] = timer[y]
  PROVE  WaitsOnTimers' /\ \A y \in Timers \ X : Paired(y)'
<1>1. WaitsOnTimers'
  BY DEF Waiting, WaitsOnTimers
<1>2. ASSUME NEW y \in Timers \ X PROVE Paired(y)'
  <2>1. Stopping(y, stack') <=> Stopping(y, stack)
    BY DEF SameFrames
  <2>2. \A t \in Tids : (wait'[t] = <<"timer", y>>) <=> (wait[t] = <<"timer", y>>)
    OBVIOUS
  <2> QED BY <2>1, <2>2, PairStays DEF Waiting
<1> QED BY <1>1, <1>2

\* A step that starts, resumes, blocks or ends a thread that is in no wait.
LEMMA ThreadMoves ==
  ASSUME TypeOK, Waiting, SameFrames(stack', stack, {}), timer' = timer,
         NEW t \in Tids, wait[t][1] # "timer", NEW doing \in Doing, doing # "timer",
         \A u \in Tids : wait'[u] = IF u = t THEN <<doing, Nothing>> ELSE wait[u]
  PROVE  WaitsOnTimers' /\ \A y \in Timers : Paired(y)'
<1>1. ASSUME NEW u \in Tids
      PROVE  /\ u = t => wait'[u][1] # "timer"
             /\ u # t => wait'[u] = wait[u]
  OBVIOUS
<1>2. WaitsOnTimers'
  BY <1>1 DEF Waiting, WaitsOnTimers
<1>3. ASSUME NEW y \in Timers PROVE Paired(y)'
  <2>1. Stopping(y, stack') <=> Stopping(y, stack)
    BY DEF SameFrames
  <2>2. ASSUME NEW u \in Tids
        PROVE  (wait'[u] = <<"timer", y>>) <=> (wait[u] = <<"timer", y>>)
    BY <1>1
  <2> QED BY <2>1, <2>2, PairStays DEF Waiting
<1> QED BY <1>2, <1>3

-----------------------------------------------------------------------------
(* The steps.  Each is taken without re-entering a stop. *)

\* A thread that uses a timer without re-entering a stop.
LEMMA UsesOpen ==
  ASSUME TypeOK, NEW t \in Tids, NEW x \in Timers, Uses(t, x), ~reentered'
  PROVE  /\ ~reentered /\ ~Stopping(x, stack) /\ Executes(t)
         /\ t \in held[x] /\ timer[x].lua_ref
BY DEF Uses, Stopping

\* close_timer keeps the pairing, called by a thread or by the collector.
LEMMA CloseWaits ==
  ASSUME IndInv, Waiting, NEW x \in Timers, ~Stopping(x, stack),
         timer[x].lua_ref, close_timer(x), held' = held
  PROVE  Waiting'
<1>1. TypeOK /\ Sound(timer[x]) /\ Framed(timer[x], x, stack) /\ timer[x] \in luaw_timer_t
  BY DEF IndInv, TypeOK
<1>2. PICK f \in {"stop", "close_timer"} \X Timers : f = <<"close_timer", x>>
  OBVIOUS
<1>3. ~InSeq(f, stack) /\ \A y \in Timers : f # <<"stop", y>>
  BY <1>1, <1>2 DEF Framed, Deleting
<1>4. PICK below : below = <<f>> \o stack
  OBVIOUS
<1>5. /\ below \in Seq(Frame) /\ StackSound(below, held, current)
      /\ \A t \in Tids : InSeq(<<"thread", t>>, below) <=> OnStack(t)
  BY <1>1, <1>3, <1>4, PushCall DEF Waiting
<1>6. f \in Frame /\ stack \in Seq(Frame)
  BY <1>1 DEF Frame, TypeOK
<1>7. \A g : InSeq(g, below) <=> (g = f \/ InSeq(g, stack))
  BY <1>4, <1>6, PushLemma
<1>8. SameFrames(below, stack, {x})
  BY <1>2, <1>7 DEF SameFrames, Stopping, Deleting
<1>9. /\ resume_lua_thread(timer[x].lua_tid, below)
      /\ timer' = [timer EXCEPT ![x] = delink(timer[x])]
  BY <1>2, <1>4 DEF close_timer
<1>10. /\ \A y \in Timers \ {x} : timer'[y] = timer[y]
       /\ timer'[x].lua_tid = NoTid
  BY <1>1, <1>9 DEF TypeOK, delink, luaw_timer_t
<1>11. /\ Controlled' /\ WaitsOnTimers' /\ Unwaited(x)'
       /\ \A y \in Timers \ {x} : Paired(y)'
  BY <1>1, <1>5, <1>8, <1>9, <1>10, ResumeWaiter
<1>12. Paired(x)'
  BY <1>10, <1>11, PairQuiet
<1> QED BY <1>11, <1>12 DEF Waiting

\* A timer that is being stopped is held by a thread.
LEMMA StoppedIsHeld ==
  ASSUME TypeOK, Controlled, NEW x \in Timers, held[x] = {}
  PROVE  ~Stopping(x, stack)
BY DEF Controlled, StackSound, StopsHeld, Stopping, InSeq

\* The callbacks and the collector.
LEMMA LoopWaits ==
  ASSUME IndInv, Waiting, NEW x \in Timers, LoopStep(x)
  PROVE  Waiting'
<1>1. /\ TypeOK /\ Sound(timer[x]) /\ timer[x] \in luaw_timer_t
      /\ Controlled /\ Paired(x)
  BY DEF IndInv, TypeOK, Waiting
<1>2. CASE timer_gc(x)
  <2>1. ~Stopping(x, stack)
    BY <1>1, <1>2, StoppedIsHeld DEF timer_gc
  <2> QED BY <1>2, <2>1, CloseWaits DEF timer_gc
<1>3. CASE on_user_timer_timeout(x) \/ free_user_timer(x)
  <2>1. stack = <<>> /\ held' = held /\ ~Stopping(x, stack)
    BY <1>3, EmptyLemma DEF on_user_timer_timeout, free_user_timer, Idle, Stopping
  <2>2. CASE /\ on_user_timer_timeout(x) /\ timer[x].lua_tid # NoTid
    <3>1. /\ timer' = [timer EXCEPT ![x] = clear_user_timer([timer[x] EXCEPT !.uv = "idle"])]
          /\ resume_lua_thread(timer[x].lua_tid, stack)
      BY <1>1, <2>1, <2>2 DEF on_user_timer_timeout, luaw_timer_t
    <3>2. /\ \A y \in Timers \ {x} : timer'[y] = timer[y]
          /\ timer'[x].lua_tid = NoTid
      BY <1>1, <3>1 DEF TypeOK, clear_user_timer, luaw_timer_t
    <3>3. stack \in Seq(Frame) /\ StackSound(stack, held, current)
      BY <1>1 DEF TypeOK, Controlled
    <3>4. SameFrames(stack, stack, {x})
      BY DEF SameFrames
    <3>5. \A t \in Tids : InSeq(<<"thread", t>>, stack) <=> OnStack(t)
      BY DEF OnStack
    <3>6. /\ Controlled' /\ WaitsOnTimers' /\ Unwaited(x)'
          /\ \A y \in Timers \ {x} : Paired(y)'
      BY <1>1, <2>1, <3>1, <3>2, <3>3, <3>4, <3>5, ResumeWaiter
    <3>7. Paired(x)'
      BY <3>2, <3>6, PairQuiet
    <3> QED BY <3>6, <3>7 DEF Waiting
  <2>3. CASE \/ on_user_timer_timeout(x) /\ timer[x].lua_tid = NoTid
             \/ free_user_timer(x)
    <3>1. UNCHANGED <<wait, registry, current, stack>>
      BY <1>1, <2>3 DEF on_user_timer_timeout, free_user_timer, luaw_timer_t
    <3>2. timer[x].uv # "active" \/ timer[x].lua_tid = NoTid
      BY <2>3 DEF free_user_timer
    <3>3. Unwaited(x) /\ timer[x].lua_tid = NoTid
      BY <1>1, <2>1, <3>2, NobodyWaits
    <3>4. /\ timer'[x].lua_tid = timer[x].lua_tid
          /\ \A y \in Timers \ {x} : timer'[y] = timer[y]
      <4>1. CASE on_user_timer_timeout(x) /\ timer[x].lua_tid = NoTid
        <5>1. timer' = [timer EXCEPT ![x] = [timer[x] EXCEPT !.uv = "idle", !.state = "ELAPSED"]]
          BY <1>1, <4>1 DEF on_user_timer_timeout, luaw_timer_t
        <5> QED BY <1>1, <5>1 DEF TypeOK, luaw_timer_t
      <4>2. CASE free_user_timer(x)
        <5>1. PICK q \in luaw_timer_t : q = [timer[x] EXCEPT !.uv = "closed"]
          BY <1>1 DEF luaw_timer_t
        <5>2. timer' = [timer EXCEPT ![x] = GC_REF(q)] /\ q.lua_tid = timer[x].lua_tid
          BY <1>1, <4>2, <5>1 DEF free_user_timer, luaw_timer_t
        <5>3. GC_REF(q).lua_tid = q.lua_tid
          BY DEF GC_REF, luaw_timer_t
        <5> QED BY <1>1, <5>2, <5>3 DEF TypeOK
      <4> QED BY <2>3, <4>1, <4>2
    <3>5. Controlled'
      BY <1>1, <2>1, <3>1 DEF Controlled, ThreadsKnown, OnStack
    <3>6. SameFrames(stack', stack, {x})
      BY <3>1 DEF SameFrames
    <3>7. WaitsOnTimers' /\ \A y \in Timers \ {x} : Paired(y)'
      BY <1>1, <3>1, <3>4, <3>6, OthersStay
    <3>8. Unwaited(x)'
      BY <3>1, <3>3 DEF Unwaited
    <3>9. Paired(x)'
      BY <3>3, <3>4, <3>8, PairQuiet
    <3> QED BY <3>5, <3>7, <3>9 DEF Waiting
  <2> QED BY <1>3, <2>2, <2>3
<1> QED BY <1>2, <1>3 DEF LoopStep

\* The ends of stop and close_timer.
LEMMA ControlWaits ==
  ASSUME IndInv, Waiting, ControlStep
  PROVE  Waiting'
<1>1. PICK x \in Timers : stop_return(x) \/ close_timer_return(x)
  BY DEF ControlStep
<1>2. /\ TypeOK /\ timer[x] \in luaw_timer_t /\ Framed(timer[x], x, stack)
      /\ stack \in Seq(Frame) /\ stack # <<>> /\ Controlled /\ Paired(x)
  BY <1>1 DEF IndInv, TypeOK, Waiting, stop_return, close_timer_return
<1>3. /\ Head(stack) \in {<<"stop", x>>, <<"close_timer", x>>} /\ stack' = Tail(stack)
      /\ UNCHANGED <<wait, registry, current, held>>
  BY <1>1 DEF stop_return, close_timer_return
<1>4. \A g : InSeq(g, stack) <=> (g = Head(stack) \/ InSeq(g, stack'))
  BY <1>2, <1>3, PopLemma
<1>5. Controlled'
  <2>1. Head(stack) \notin {"thread"} \X Tids
    BY <1>3
  <2> QED BY <1>2, <1>3, <2>1, ReturnSound
<1>6. SameFrames(stack', stack, {x})
  BY <1>3, <1>4 DEF SameFrames, Stopping, Deleting
<1>7. \A y \in Timers \ {x} : timer'[y] = timer[y]
  BY <1>1, <1>2 DEF stop_return, close_timer_return, TypeOK
<1>8. WaitsOnTimers' /\ \A y \in Timers \ {x} : Paired(y)'
  BY <1>2, <1>3, <1>6, <1>7, OthersStay
<1>9. Stopping(x, stack) \/ ~timer[x].lua_ref
  BY <1>2, <1>3, <1>4 DEF Framed, Stopping, Deleting
<1>10. Unwaited(x) /\ (timer[x].lua_tid # NoTid => Stopping(x, stack))
  BY <1>2, <1>9, NobodyWaits
<1>11. Unwaited(x)'
  BY <1>3, <1>10 DEF Unwaited
<1>12. timer'[x].lua_tid # NoTid => Stopping(x, stack')
  <2>1. CASE stop_return(x)
    <3>1. timer' = [timer EXCEPT ![x] = uv_timer_stop(clear_user_timer(timer[x]))]
      BY <2>1 DEF stop_return
    <3>2. timer'[x].lua_tid = NoTid
      BY <1>2, <3>1 DEF TypeOK, uv_timer_stop, clear_user_timer, luaw_timer_t
    <3> QED BY <3>2
  <2>2. CASE close_timer_return(x)
    <3>1. /\ timer' = [timer EXCEPT ![x] = close_if_active(timer[x])]
          /\ Head(stack) = <<"close_timer", x>>
      BY <2>2 DEF close_timer_return
    <3>2. timer'[x].lua_tid = timer[x].lua_tid
      BY <1>2, <3>1 DEF TypeOK, close_if_active, luaw_timer_t
    <3>3. Stopping(x, stack) => Stopping(x, stack')
      BY <1>4, <3>1 DEF Stopping
    <3> QED BY <1>10, <3>2, <3>3
  <2> QED BY <1>1, <2>1, <2>2
<1>13. Paired(x)'
  BY <1>11, <1>12, PairQuiet
<1> QED BY <1>5, <1>8, <1>13 DEF Waiting

\* Calls that leave control as it is and touch a timer nobody waits on.
LEMMA TouchWaits ==
  ASSUME TypeOK, Waiting, NEW t \in Tids, NEW x \in Timers, Executes(t),
         UNCHANGED <<wait, registry, current, stack>>,
         \A y \in Timers : Stopping(y, stack) => held[y] \ {t} \subseteq held'[y],
         \A y \in Timers \ {x} : timer'[y] = timer[y],
         \/ timer[x].uv # "active" \/ ~timer[x].lua_ref,
         timer'[x].lua_tid \in {NoTid, timer[x].lua_tid}
  PROVE  Waiting'
<1>1. Controlled'
  BY CallSound DEF Waiting
<1>2. SameFrames(stack', stack, {x})
  BY DEF SameFrames
<1>3. WaitsOnTimers' /\ \A y \in Timers \ {x} : Paired(y)'
  BY <1>2, OthersStay
<1>4. Unwaited(x) /\ (timer[x].lua_tid # NoTid => Stopping(x, stack))
  BY NobodyWaits DEF Waiting
<1>5. Unwaited(x)' /\ (timer'[x].lua_tid # NoTid => Stopping(x, stack'))
  BY <1>4 DEF Unwaited
<1>6. Paired(x)'
  BY <1>5, PairQuiet
<1> QED BY <1>1, <1>3, <1>6 DEF Waiting

\* A thread that blocks in something other than a wait, or ends.
LEMMA LeaveWaits ==
  ASSUME TypeOK, Waiting, NEW t \in Tids, block(t) \/ finish(t)
  PROVE  Waiting'
<1>1. PICK doing \in {"free", "event"} :
        /\ Executes(t) /\ Yield(t, doing, Nothing) /\ timer' = timer
        /\ registry' = IF doing = "free" THEN registry \ {t} ELSE registry
        /\ \A y \in Timers : held[y] \ {t} \subseteq held'[y]
  BY DEF block, finish, TypeOK
<1>2. registry' \in SUBSET Tids /\ doing \in Doing /\ Controlled
  BY <1>1 DEF TypeOK, Doing, Waiting
<1>3. /\ Controlled' /\ wait[t][1] = "running"
      /\ \A u \in Tids : wait'[u] = IF u = t THEN <<doing, Nothing>> ELSE wait[u]
  BY <1>1, <1>2, YieldSound
<1>4. SameFrames(stack', stack, {})
  BY <1>1, <1>2, YieldLemma
<1>5. WaitsOnTimers' /\ \A y \in Timers : Paired(y)'
  <2>1. wait[t][1] # "timer" /\ doing # "timer"
    BY <1>1, <1>3
  <2> QED BY <1>1, <1>2, <1>3, <1>4, <2>1, ThreadMoves
<1> QED BY <1>3, <1>5 DEF Waiting

\* timer:wait on a ticking timer: the timer names the current thread, which is
\* the one that yields.
LEMMA BlockWaits ==
  ASSUME IndInv, Waiting, NEW t \in Tids, NEW x \in Timers,
         ~reentered', wait_user_timer(t, x)
  PROVE  Waiting'
<1>1. /\ TypeOK /\ Sound(timer[x]) /\ timer[x] \in luaw_timer_t
      /\ Controlled /\ Paired(x) /\ stack \in Seq(Frame) /\ current \in OptTid
  BY DEF IndInv, TypeOK, Waiting
<1>2. /\ Uses(t, x) /\ timer[x].state = "TICKING" /\ timer[x].lua_tid = NoTid
      /\ current # NoTid /\ timer' = [timer EXCEPT ![x].lua_tid = current]
      /\ Yield(t, "timer", x) /\ registry' = registry /\ held' = held
  BY DEF wait_user_timer
<1>3. ~Stopping(x, stack) /\ Executes(t) /\ timer[x].lua_ref
  BY <1>1, <1>2, UsesOpen
<1>4. current = t
  BY <1>1, <1>2, <1>3, ExecutesCurrent DEF Controlled, Executes
<1>5. /\ Controlled' /\ wait[t][1] = "running"
      /\ \A u \in Tids : wait'[u] = IF u = t THEN <<"timer", x>> ELSE wait[u]
  BY <1>1, <1>2, <1>3, YieldSound
<1>6. SameFrames(stack', stack, {})
  <2>1. registry' \in SUBSET Tids /\ "timer" \in Doing
    BY <1>1, <1>2 DEF TypeOK, Doing
  <2> QED BY <1>1, <1>2, <1>3, <2>1, YieldLemma
<1>7. WaitsOnTimers'
  BY <1>5 DEF Waiting, WaitsOnTimers
<1>8. /\ \A y \in Timers \ {x} : timer'[y] = timer[y]
      /\ timer'[x].lua_tid = t /\ timer'[x].uv = "active" /\ timer'[x].lua_ref
  BY <1>1, <1>2, <1>3, <1>4 DEF TypeOK, Sound, luaw_timer_t
<1>9. ASSUME NEW y \in Timers \ {x} PROVE Paired(y)'
  <2>1. Stopping(y, stack') <=> Stopping(y, stack)
    BY <1>6 DEF SameFrames
  <2>2. ASSUME NEW u \in Tids
        PROVE  (wait'[u] = <<"timer", y>>) <=> (wait[u] = <<"timer", y>>)
    <3>1. CASE u = t
      <4>1. wait[u] # <<"timer", y>>
        BY <1>5, <3>1
      <4>2. wait'[u] = <<"timer", x>> /\ x # y
        BY <1>5, <3>1
      <4> QED BY <4>1, <4>2
    <3>2. CASE u # t
      BY <1>5, <3>2
    <3> QED BY <3>1, <3>2
  <2> QED BY <1>1, <1>8, <2>1, <2>2, PairStays DEF Waiting
<1>10. Paired(x)'
  <2>1. Unwaited(x)
    BY <1>1, <1>2, NobodyWaits
  <2>2. ~Stopping(x, stack')
    BY <1>3, <1>6 DEF SameFrames
  <2>3. ASSUME NEW u \in Tids, wait'[u] = <<"timer", x>> PROVE u = t
    BY <1>5, <2>1, <2>3 DEF Unwaited
  <2>4. wait'[timer'[x].lua_tid] = <<"timer", x>>
    BY <1>5, <1>8
  <2> QED BY <1>8, <2>2, <2>3, <2>4 DEF Paired
<1> QED BY <1>5, <1>7, <1>9, <1>10 DEF Waiting

\* timer:stop on a ticking timer resumes its waiter.
LEMMA StopWaits ==
  ASSUME IndInv, Waiting, NEW t \in Tids, NEW x \in Timers,
         ~reentered', stop_user_timer(t, x)
  PROVE  Waiting'
<1>1. TypeOK /\ Controlled
  BY DEF IndInv, Waiting
<1>2. /\ Uses(t, x) /\ timer' = timer /\ held' = held
      /\ resume_lua_thread(timer[x].lua_tid, <<<<"stop", x>>>> \o stack)
  BY DEF stop_user_timer
<1>3. ~Stopping(x, stack) /\ Executes(t) /\ t \in held[x]
  BY <1>1, <1>2, UsesOpen
<1>4. PICK f \in {"stop", "close_timer"} \X Timers : f = <<"stop", x>>
  OBVIOUS
<1>5. /\ ~InSeq(f, stack)
      /\ \A y \in Timers : f = <<"stop", y>> => \E u \in held[y] : Executes(u)
  BY <1>3, <1>4 DEF Stopping
<1>6. PICK below : below = <<f>> \o stack
  OBVIOUS
<1>7. /\ below \in Seq(Frame) /\ StackSound(below, held, current)
      /\ \A u \in Tids : InSeq(<<"thread", u>>, below) <=> OnStack(u)
  BY <1>1, <1>5, <1>6, PushCall
<1>8. f \in Frame /\ stack \in Seq(Frame)
  BY <1>1 DEF Frame, TypeOK
<1>9. \A g : InSeq(g, below) <=> (g = f \/ InSeq(g, stack))
  BY <1>6, <1>8, PushLemma
<1>10. SameFrames(below, stack, {x})
  BY <1>4, <1>9 DEF SameFrames, Stopping, Deleting
<1>11. resume_lua_thread(timer[x].lua_tid, below)
  BY <1>2, <1>4, <1>6
<1>12. /\ Controlled' /\ WaitsOnTimers' /\ Unwaited(x)'
       /\ \A y \in Timers \ {x} : Paired(y)'
  BY <1>1, <1>2, <1>3, <1>7, <1>10, <1>11, ResumeWaiter
<1>13. Stopping(x, stack')
  <2>1. timer[x].lua_tid \in OptTid
    BY <1>1 DEF TypeOK, luaw_timer_t
  <2>2. SameFrames(stack', below, {})
    BY <1>1, <1>7, <1>11, <2>1, ResumeLemma
  <2> QED BY <1>4, <1>9, <2>2 DEF SameFrames, Stopping
<1>14. Paired(x)'
  BY <1>12, <1>13, PairQuiet
<1> QED BY <1>12, <1>14 DEF Waiting

\* The calls of a thread that name a timer.
LEMMA CallWaits ==
  ASSUME IndInv, Waiting, NEW t \in Tids, NEW x \in Timers,
         ~reentered', CallStep(t, x)
  PROVE  Waiting'
<1>1. /\ TypeOK /\ Sound(timer[x]) /\ timer[x] \in luaw_timer_t
      /\ Framed(timer[x], x, stack)
  BY DEF IndInv, TypeOK
<1>2. CASE new_user_timer(t, x)
  <2>1. /\ Executes(t) /\ timer[x].mem = "none" /\ timer' = [timer EXCEPT ![x] = new_timer]
        /\ held' = [held EXCEPT ![x] = {t}] /\ UNCHANGED <<wait, registry, current, stack>>
    BY <1>2 DEF new_user_timer
  <2>2. ~timer[x].lua_ref /\ ~Stopping(x, stack)
    BY <1>1, <2>1 DEF Sound, Refs, Count, Framed, luaw_timer_t
  <2>3. /\ \A y \in Timers \ {x} : timer'[y] = timer[y] /\ held'[y] = held[y]
        /\ timer'[x].lua_tid = NoTid
    BY <1>1, <2>1 DEF TypeOK, new_timer
  <2>4. \A y \in Timers : Stopping(y, stack) => held[y] \ {t} \subseteq held'[y]
    BY <2>2, <2>3
  <2> QED BY <1>1, <2>1, <2>2, <2>3, <2>4, TouchWaits
<1>3. CASE start_user_timer(t, x) \/ wait_elapsed(t, x)
  <2>1. /\ Uses(t, x) /\ timer[x].state \in {"INIT", "ELAPSED"}
        /\ UNCHANGED <<wait, registry, current, stack, held>>
    BY <1>3 DEF start_user_timer, wait_elapsed
  <2>2. Executes(t) /\ timer[x].uv # "active"
    BY <1>1, <2>1 DEF Uses, Sound
  <2>3. /\ \A y \in Timers \ {x} : timer'[y] = timer[y]
        /\ timer'[x].lua_tid \in {NoTid, timer[x].lua_tid}
    <3>1. CASE start_user_timer(t, x)
      <4>1. timer' = [timer EXCEPT ![x] = [timer[x] EXCEPT !.state = "TICKING", !.uv = "active"]]
        BY <1>1, <3>1 DEF start_user_timer, TypeOK
      <4>2. [timer[x] EXCEPT !.state = "TICKING", !.uv = "active"].lua_tid = timer[x].lua_tid
        BY <1>1 DEF luaw_timer_t
      <4> QED BY <1>1, <4>1, <4>2 DEF TypeOK
    <3>2. CASE wait_elapsed(t, x)
      <4>1. timer' = [timer EXCEPT ![x] = clear_user_timer(timer[x])]
        BY <3>2 DEF wait_elapsed
      <4>2. clear_user_timer(timer[x]).lua_tid = NoTid
        BY <1>1 DEF clear_user_timer, luaw_timer_t
      <4> QED BY <1>1, <4>1, <4>2 DEF TypeOK
    <3> QED BY <1>3, <3>1, <3>2
  <2> QED BY <1>1, <2>1, <2>2, <2>3, TouchWaits
<1>4. CASE wait_user_timer(t, x)
  BY <1>4, BlockWaits
<1>5. CASE wait_raises(t, x)
  BY <1>1, <1>5, LeaveWaits DEF wait_raises
<1>6. CASE stop_user_timer(t, x)
  BY <1>6, StopWaits
<1>7. CASE close_timer_lua(t, x)
  <2>1. Uses(t, x) /\ close_timer(x) /\ held' = held
    BY <1>7 DEF close_timer_lua
  <2>2. ~Stopping(x, stack) /\ timer[x].lua_ref
    BY <1>1, <2>1, UsesOpen
  <2> QED BY <2>1, <2>2, CloseWaits
<1>8. CASE (\E u \in Tids : share(t, u, x)) \/ forget(t, x)
  <2>1. /\ Executes(t) /\ UNCHANGED <<timer, wait, registry, current, stack>>
        /\ \A y \in Timers : held[y] \ {t} \subseteq held'[y]
    BY <1>1, <1>8 DEF share, forget, TypeOK
  <2>2. Controlled'
    BY <1>1, <2>1, CallSound DEF Waiting
  <2>3. SameFrames(stack', stack, {})
    BY <2>1 DEF SameFrames
  <2>4. WaitsOnTimers' /\ \A y \in Timers : Paired(y)'
    BY <1>1, <2>1, <2>3, OthersStay
  <2> QED BY <2>2, <2>4 DEF Waiting
<1> QED BY <1>2, <1>3, <1>4, <1>5, <1>6, <1>7, <1>8 DEF CallStep

\* Starting, waking, blocking and ending a thread.
LEMMA ThreadWaits ==
  ASSUME IndInv, Waiting, NEW t \in Tids, ThreadStep(t)
  PROVE  Waiting'
<1>1. /\ TypeOK /\ stack \in Seq(Frame) /\ ThreadsKnown
      /\ StackSound(stack, held, current) /\ Controlled
  BY DEF IndInv, TypeOK, Waiting, Controlled
<1>2. CASE start_thread(t)
  <2>1. /\ stack = <<>> /\ wait[t][1] = "free" /\ t \notin registry
        /\ registry' = registry \cup {t} /\ Run(t, stack) /\ timer' = timer /\ held' = held
    BY <1>2 DEF start_thread, Idle
  <2>2. /\ stack' = <<<<"thread", t>>>> \o stack /\ current' = t
        /\ wait' = [wait EXCEPT ![t] = <<"running", Nothing>>]
    BY <2>1 DEF Run
  <2>3. PICK f \in Frame : f = <<"thread", t>>
    BY DEF Frame
  <2>4. /\ f \in Frame /\ stack' = <<f>> \o stack /\ ~InSeq(f, stack)
        /\ \A x \in Timers : f # <<"stop", x>>
    BY <2>1, <2>2, <2>3, EmptyLemma
  <2>5. StackSound(stack', held, t)
    BY ONLY <1>1, <2>3, <2>4, PushSound
  <2>6. \A g : InSeq(g, stack') <=> (g = <<"thread", t>> \/ InSeq(g, stack))
    BY <1>1, <2>3, <2>4, PushLemma
  <2>7. \A u \in Tids : wait'[u] = IF u = t THEN <<"running", Nothing>> ELSE wait[u]
    BY <1>1, <2>2 DEF TypeOK
  <2>8. ThreadsKnown'
    <3> SUFFICES ASSUME NEW u \in Tids
                 PROVE  /\ wait'[u][1] # "free" <=> u \in registry'
                        /\ wait'[u][1] = "running" <=> InSeq(<<"thread", u>>, stack')
      BY DEF ThreadsKnown, OnStack
    <3>1. CASE u = t
      BY <2>1, <2>6, <2>7, <3>1
    <3>2. CASE u # t
      <4>1. InSeq(<<"thread", u>>, stack') <=> OnStack(u)
        BY <2>6, <3>2 DEF OnStack
      <4> QED BY <1>1, <2>1, <2>7, <3>2, <4>1 DEF ThreadsKnown
    <3> QED BY <3>1, <3>2
  <2>9. SameFrames(stack', stack, {})
    BY <2>6 DEF SameFrames, Stopping, Deleting
  <2>10. "running" \in Doing /\ wait[t][1] # "timer" /\ "running" # "timer"
    BY <2>1 DEF Doing
  <2>11. WaitsOnTimers' /\ \A y \in Timers : Paired(y)'
    BY <1>1, <2>1, <2>7, <2>9, <2>10, ThreadMoves
  <2> QED BY <2>1, <2>2, <2>5, <2>8, <2>11 DEF Waiting, Controlled
<1>3. CASE on_event(t)
  <2>1. /\ stack = <<>> /\ wait[t][1] = "event" /\ resume_lua_thread(t, stack)
        /\ t \in OptTid /\ timer' = timer /\ held' = held
    BY <1>3 DEF on_event, Idle, OptTid
  <2>2. \A u \in Tids : InSeq(<<"thread", u>>, stack) <=> OnStack(u)
    BY DEF OnStack
  <2>3. /\ Controlled'
        /\ \A u \in Tids : wait'[u] = IF u = t THEN <<"running", Nothing>> ELSE wait[u]
    BY <1>1, <2>1, <2>2, ResumeSound
  <2>4. SameFrames(stack', stack, {})
    BY <1>1, <2>1, ResumeLemma
  <2>5. "running" \in Doing /\ wait[t][1] # "timer" /\ "running" # "timer"
    BY <2>1 DEF Doing
  <2>6. WaitsOnTimers' /\ \A y \in Timers : Paired(y)'
    BY <1>1, <2>1, <2>3, <2>4, <2>5, ThreadMoves
  <2> QED BY <2>3, <2>6 DEF Waiting
<1>4. CASE define_scheduler(t)
  <2>1. Executes(t) /\ UNCHANGED <<timer, wait, registry, current, stack, held>>
    BY <1>4 DEF define_scheduler
  <2>2. Controlled'
    BY <1>1, <2>1, CallSound
  <2>3. SameFrames(stack', stack, {})
    BY <2>1 DEF SameFrames
  <2>4. WaitsOnTimers' /\ \A y \in Timers : Paired(y)'
    BY <1>1, <2>1, <2>3, OthersStay
  <2> QED BY <2>2, <2>4 DEF Waiting
<1>5. CASE block(t) \/ finish(t)
  BY <1>1, <1>5, LeaveWaits
<1> QED BY <1>2, <1>3, <1>4, <1>5 DEF ThreadStep

-----------------------------------------------------------------------------
(* The theorems about waiting threads *)

\* The pairing of timers and threads holds in every reachable state.
THEOREM WaitInductive == Spec => []WaitInv
<1>1. Init => WaitInv
  <2> SUFFICES ASSUME Init PROVE Waiting
    BY DEF WaitInv
  <2>1. /\ \A t \in Tids : wait[t] = <<"free", Nothing>>
        /\ \A x \in Timers : timer[x].lua_tid = NoTid
        /\ registry = {} /\ current = NoTid /\ stack = <<>>
    BY DEF Init, Unallocated
  <2>2. ThreadsKnown
    <3>1. ASSUME NEW t \in Tids PROVE wait[t][1] = "free" /\ t \notin registry /\ ~OnStack(t)
      BY <2>1, EmptyLemma DEF OnStack
    <3> QED BY <3>1 DEF ThreadsKnown
  <2>3. StackSound(stack, held, current)
    BY <2>1, EmptySound
  <2>4. WaitsOnTimers /\ \A x \in Timers : Paired(x)
    BY <2>1 DEF WaitsOnTimers, Paired
  <2> QED BY <2>2, <2>3, <2>4 DEF Waiting, Controlled
<1>2. IndInv /\ WaitInv /\ [Next]_vars => WaitInv'
  <2> SUFFICES ASSUME IndInv, WaitInv, [Next]_vars, ~reentered' PROVE Waiting'
    BY DEF WaitInv
  <2>1. ~reentered
    <3>1. reentered' = reentered \/ \E t \in Tids, x \in Timers : Uses(t, x)
      BY ZenonT(60)
         DEF Next, vars, LoopStep, ControlStep, ThreadStep, CallStep, on_user_timer_timeout,
             free_user_timer, timer_gc, stop_return, close_timer_return, start_thread, on_event,
             define_scheduler, block, finish, new_user_timer, start_user_timer, wait_elapsed,
             wait_user_timer, wait_raises, stop_user_timer, close_timer_lua, share, forget
    <3> QED BY <3>1 DEF Uses
  <2>2. Waiting
    BY <2>1 DEF WaitInv
  <2>3. CASE UNCHANGED vars
    <3>1. UNCHANGED <<timer, wait, registry, current, stack, held>>
      BY <2>3 DEF vars
    <3>2. TypeOK /\ SameFrames(stack', stack, {})
      BY <3>1 DEF IndInv, SameFrames
    <3>3. Controlled'
      BY <2>2, <3>1 DEF Waiting, Controlled, ThreadsKnown, OnStack
    <3>4. WaitsOnTimers' /\ \A y \in Timers : Paired(y)'
      BY <2>2, <3>1, <3>2, OthersStay
    <3> QED BY <3>3, <3>4 DEF Waiting
  <2>4. CASE \E x \in Timers : LoopStep(x)
    BY <2>2, <2>4, LoopWaits
  <2>5. CASE ControlStep
    BY <2>2, <2>5, ControlWaits
  <2>6. ASSUME NEW t \in Tids, ThreadStep(t) PROVE Waiting'
    BY <2>2, <2>6, ThreadWaits
  <2>7. ASSUME NEW t \in Tids, NEW x \in Timers, CallStep(t, x) PROVE Waiting'
    BY <2>2, <2>7, CallWaits
  <2> QED BY <2>3, <2>4, <2>5, <2>6, <2>7 DEF Next
<1> QED BY <1>1, <1>2, Inductive, PTL DEF Spec

\* As long as no thread uses a timer that is just being stopped, no thread is
\* cut off: one that has not ended is registered, and one blocked in wait is
\* named by its timer, whose handle is active (wait_user_timer, stop_user_timer
\* and close_timer in luaw_timer.c), for any number of timers and threads.
THEOREM WaitersWillBeResumed == Spec => []WaiterWillBeResumed
<1>1. IndInv /\ WaitInv => WaiterWillBeResumed
  <2> SUFFICES ASSUME TypeOK, Waiting, NEW t \in Tids
               PROVE  /\ wait[t][1] # "free" => t \in registry
                      /\ wait[t][1] = "timer" =>
                           timer[wait[t][2]].lua_tid = t /\ timer[wait[t][2]].uv = "active"
    BY DEF IndInv, WaitInv, WaiterWillBeResumed
  <2>1. wait[t][1] # "free" => t \in registry
    BY DEF Waiting, Controlled, ThreadsKnown
  <2>2. ASSUME wait[t][1] = "timer"
        PROVE  timer[wait[t][2]].lua_tid = t /\ timer[wait[t][2]].uv = "active"
    <3>1. PICK x \in Timers : x = wait[t][2]
      BY <2>2 DEF Waiting, WaitsOnTimers
    <3>2. wait[t] = <<"timer", x>>
      BY <2>2, <3>1 DEF TypeOK
    <3> QED BY <3>1, <3>2 DEF Waiting, Paired
  <2> QED BY <2>1, <2>2
<1> QED BY <1>1, Inductive, WaitInductive, PTL

\* As long as no thread uses a timer that is just being stopped, the tid a
\* timer keeps (lua_tid) is that of the thread that waits on it, or its stop is
\* under way: neither the timeout nor delete resumes a thread that has moved on.
THEOREM TidsNameWaiters == Spec => []TidNamesWaiter
<1>1. WaitInv => TidNamesWaiter
  BY DEF WaitInv, Waiting, Paired, Stopping, TidNamesWaiter
<1> QED BY <1>1, WaitInductive, PTL

============================================================================
