-------------------------- MODULE ConnectionProofs --------------------------
(***************************************************************************)
(* Memory safety of connections, for every number of connections and       *)
(* threads, with or without sharing, outgoing connections and empty reads; *)
(* and for the connections a server accepts, each used by one thread, the  *)
(* exact reference counts and that no wake-up is lost or goes astray.      *)
(***************************************************************************)
EXTENDS Connection, TLAPS

-----------------------------------------------------------------------------
(* The stack *)

\* Pushing a frame keeps the stack's type and adds that frame only.
LEMMA PushLemma ==
  ASSUME NEW F, NEW f \in F, NEW s \in Seq(F)
  PROVE  /\ <<f>> \o s \in Seq(F)
         /\ \A g : InSeq(g, <<f>> \o s) <=> (g = f \/ InSeq(g, s))
<1> DEFINE u == <<f>> \o s
<1>1. u \in Seq(F) /\ Len(u) = Len(s) + 1
  OBVIOUS
<1>2. \A i \in 1 .. Len(u) : u[i] = IF i = 1 THEN f ELSE s[i - 1]
  OBVIOUS
<1>3. ASSUME NEW g PROVE InSeq(g, u) <=> (g = f \/ InSeq(g, s))
  <2>1. InSeq(g, u) => g = f \/ InSeq(g, s)
    BY <1>1, <1>2 DEF InSeq
  <2>2. g = f => InSeq(g, u)
    BY <1>1, <1>2 DEF InSeq
  <2>3. ASSUME InSeq(g, s) PROVE InSeq(g, u)
    <3>1. PICK i \in 1 .. Len(s) : s[i] = g
      BY <2>3 DEF InSeq
    <3>2. i + 1 \in 1 .. Len(u) /\ u[i + 1] = g
      BY <1>1, <1>2, <3>1
    <3> QED BY <3>2 DEF InSeq
  <2> QED BY <2>1, <2>2, <2>3
<1> QED BY <1>1, <1>3

\* Popping the top frame keeps the type and every other frame.
LEMMA PopLemma ==
  ASSUME NEW F, NEW s \in Seq(F), s # <<>>
  PROVE  /\ Head(s) \in F
         /\ Tail(s) \in Seq(F)
         /\ \A g : InSeq(g, s) <=> (g = Head(s) \/ InSeq(g, Tail(s)))
<1>1. Head(s) \in F /\ Tail(s) \in Seq(F) /\ Len(Tail(s)) = Len(s) - 1
  OBVIOUS
<1>2. \A i \in 1 .. Len(Tail(s)) : Tail(s)[i] = s[i + 1]
  OBVIOUS
<1>3. Head(s) = s[1] /\ Len(s) \in Nat \ {0}
  OBVIOUS
<1>4. ASSUME NEW g PROVE InSeq(g, s) <=> (g = Head(s) \/ InSeq(g, Tail(s)))
  <2>1. ASSUME InSeq(g, s), g # Head(s) PROVE InSeq(g, Tail(s))
    <3>1. PICK i \in 1 .. Len(s) : s[i] = g
      BY <2>1 DEF InSeq
    <3>2. i - 1 \in 1 .. Len(Tail(s)) /\ Tail(s)[i - 1] = g
      BY <1>1, <1>2, <1>3, <2>1, <3>1
    <3> QED BY <3>2 DEF InSeq
  <2>2. g = Head(s) => InSeq(g, s)
    BY <1>3 DEF InSeq
  <2>3. InSeq(g, Tail(s)) => InSeq(g, s)
    BY <1>1, <1>2, <1>3 DEF InSeq
  <2> QED BY <2>1, <2>2, <2>3
<1> QED BY <1>1, <1>4

\* The empty stack has no frame.
LEMMA EmptyLemma == \A g : ~InSeq(g, <<>>)
BY DEF InSeq

-----------------------------------------------------------------------------
(* Threads *)

\* resume_lua_thread keeps the types of the scheduler's state and adds no
\* frame but a thread's.
LEMMA ResumeTypes ==
  ASSUME NoTid \notin Tids, NEW F, NEW W,
         {"thread"} \X Tids \subseteq F, <<"running", Nothing>> \in W,
         wait \in [Tids -> W], registry \in SUBSET Tids, current \in OptTid,
         NEW t \in OptTid, NEW below \in Seq(F), resume_lua_thread(t, below)
  PROVE  /\ wait' \in [Tids -> W]
         /\ registry' \in SUBSET Tids
         /\ current' \in OptTid
         /\ stack' \in Seq(F)
         /\ \A g : g \notin {"thread"} \X Tids => (InSeq(g, stack') <=> InSeq(g, below))
<1>1. CASE ~(t # NoTid /\ t \in registry /\ ~OnStack(t))
  BY <1>1 DEF OptTid, resume_lua_thread
<1>2. CASE t # NoTid /\ t \in registry /\ ~OnStack(t)
  <2>1. t \in Tids /\ Run(t, below) /\ registry' = registry
    BY <1>2 DEF resume_lua_thread, OptTid
  <2>2. <<"thread", t>> \in F
    BY <2>1
  <2>3. stack' \in Seq(F) /\ \A g : InSeq(g, stack') <=> (g = <<"thread", t>> \/ InSeq(g, below))
    BY <2>1, <2>2, PushLemma DEF Run
  <2>4. wait' \in [Tids -> W] /\ current' \in OptTid
    BY <2>1 DEF Run, OptTid
  <2> QED BY <2>1, <2>3, <2>4
<1> QED BY <1>1, <1>2

\* A thread that yields pops its own frame.
LEMMA YieldTypes ==
  ASSUME NEW F, NEW W, wait \in [Tids -> W], stack \in Seq(F),
         NEW t \in Tids, NEW doing, NEW x, <<doing, x>> \in W,
         Executes(t), Yield(t, doing, x)
  PROVE  /\ wait' \in [Tids -> W]
         /\ current' \in OptTid
         /\ stack' \in Seq(F)
         /\ \A g : g \notin {"thread"} \X Tids => (InSeq(g, stack') <=> InSeq(g, stack))
<1>1. stack' \in Seq(F) /\ \A g : InSeq(g, stack) <=> (g = <<"thread", t>> \/ InSeq(g, stack'))
  BY PopLemma DEF Executes, Yield
<1>2. wait' \in [Tids -> W] /\ current' \in OptTid
  BY DEF Yield, OptTid
<1> QED BY <1>1, <1>2

-----------------------------------------------------------------------------
(* The inductive invariant *)

\* A single connection_t, and whether an on_write that will drop a reference
\* to it is still running.
Sound(r, in_on_write) ==
  /\ r.mem = "live" => r.ref_count >= RefsOf(r, in_on_write)
  /\ r.mem # "live" => RefsOf(r, in_on_write) = 0
  /\ r.lua_ref => \A h \in Handles : ~IsClosing(r, h)
  /\ r.uv["handle"] = "closed" => ~r.connect_req /\ r.writes = 0

AllSound == \A c \in Conns : Sound(conn[c], callback = <<"on_write", c>>)

FramesLive ==
  \A c \in Conns : InSeq(<<"close_connection", c>>, stack) => conn[c].mem = "live"

IndInv == TypeOK /\ AllSound /\ FramesLive /\ ClosedNamesNoThread

-----------------------------------------------------------------------------
(* The operators on a connection_t *)

\* GC_REF returns a connection_t.
LEMMA GCRefType ==
  ASSUME NEW r \in connection_t PROVE GC_REF(r) \in connection_t
<1>1. PICK m \in {"none", "live", "freed"} :
        m = IF r.ref_count - 1 <= 0 THEN "freed" ELSE r.mem
  BY DEF connection_t
<1>2. PICK v \in Int : v = r.ref_count - 1
  BY DEF connection_t
<1>3. GC_REF(r) = [r EXCEPT !.ref_count = v, !.mem = m]
  BY <1>1, <1>2 DEF GC_REF
<1>4. [r EXCEPT !.ref_count = v, !.mem = m] \in connection_t
  BY DEF connection_t
<1> QED BY <1>3, <1>4

\* So does the first part of close_connection.
LEMMA DelinkType ==
  ASSUME NEW r \in connection_t PROVE delink(r) \in connection_t
<1> DEFINE closed == [h \in Handles |-> IF IsClosing(r, h) THEN r.uv[h] ELSE "closing"]
<1>1. PICK u \in [Handles -> HandleState] : u = closed
  BY DEF connection_t, HandleState, Handles
<1>2. PICK v \in Int : v = r.ref_count - 1
  BY DEF connection_t
<1>3. delink(r) = [r EXCEPT !.lua_ref = FALSE, !.ref_count = v, !.uv = u]
  BY <1>1, <1>2 DEF delink
<1>4. [r EXCEPT !.lua_ref = FALSE, !.ref_count = v, !.uv = u] \in connection_t
  BY DEF connection_t
<1> QED BY <1>3, <1>4

\* So does the bookkeeping of a write.
LEMMA QueueWriteType ==
  ASSUME NEW r \in connection_t, NEW n \in Nat, NEW tid \in OptTid
  PROVE  queue_write(r, n, tid) \in connection_t
<1>1. PICK v \in Int : v = r.ref_count + 1
  BY DEF connection_t
<1>2. queue_write(r, n, tid) = [r EXCEPT !.writes = n, !.write_data = TRUE,
                                  !.lua_writer_tid = tid, !.ref_count = v]
  BY <1>1 DEF queue_write
<1>3. [r EXCEPT !.writes = n, !.write_data = TRUE,
                !.lua_writer_tid = tid, !.ref_count = v] \in connection_t
  BY DEF connection_t
<1> QED BY <1>2, <1>3

\* So do the operators on timers and thread ids.
LEMMA TouchTypes ==
  ASSUME NEW r \in connection_t, NEW h \in Handles, NEW timeout \in BOOLEAN
  PROVE  /\ stop_timer(r, h) \in connection_t
         /\ start_timer(r, h, timeout) \in connection_t
         /\ write_done(r) \in connection_t
         /\ read_done(r) \in connection_t
         /\ forget_tids(r) \in connection_t
<1> USE DEF connection_t, HandleState, Handles, OptTid
<1>1. stop_timer(r, h) \in connection_t
  BY DEF stop_timer
<1>2. start_timer(r, h, timeout) \in connection_t
  BY DEF start_timer
<1>3. write_done(r) \in connection_t /\ read_done(r) \in connection_t
  BY DEF write_done, read_done, stop_timer
<1>4. forget_tids(r) \in connection_t
  BY DEF forget_tids
<1> QED BY <1>1, <1>2, <1>3, <1>4

\* A slot that was never allocated and a new connection are well typed.
LEMMA NewTypes == new_connection \in connection_t /\ Unallocated \in connection_t
BY DEF connection_t, HandleState, Handles, OptTid, Unallocated, new_connection

\* The operators that only touch timers and thread ids keep a connection sound.
LEMMA SoundTouch ==
  ASSUME NEW r \in connection_t, NEW p \in BOOLEAN, Sound(r, p),
         NEW h \in Handles, NEW timeout \in BOOLEAN
  PROVE  /\ Sound(stop_timer(r, h), p)
         /\ Sound(start_timer(r, h, timeout), p)
         /\ Sound(write_done(r), p)
         /\ Sound(read_done(r), p)
         /\ Sound(forget_tids(r), p)
<1> USE DEF connection_t, HandleState, Handles, Sound, RefsOf, Count, IsClosing
<1>1. Sound(stop_timer(r, h), p)
  BY DEF stop_timer
<1>2. Sound(start_timer(r, h, timeout), p)
  BY DEF start_timer
<1>3. Sound(write_done(r), p) /\ Sound(read_done(r), p)
  BY DEF write_done, read_done, stop_timer
<1>4. Sound(forget_tids(r), p)
  BY DEF forget_tids
<1> QED BY <1>1, <1>2, <1>3, <1>4

\* Delinking drops the userdata's reference and its count together.
LEMMA SoundDelink ==
  ASSUME NEW r \in connection_t, NEW p \in BOOLEAN, Sound(r, p), r.lua_ref
  PROVE  Sound(delink(r), p) /\ delink(r).mem = "live"
BY DEF connection_t, HandleState, Handles, Sound, RefsOf, Count, IsClosing, delink

Fresh(r) == r \in connection_t /\ r.lua_ref /\ r.mem = "live" /\ Sound(r, FALSE)

\* A new connection is sound: as new_connection returns it, accepted, and
\* with its connect request queued.
LEMMA SoundNew ==
  ASSUME NEW tid \in OptTid
  PROVE  /\ Fresh(new_connection)
         /\ Fresh([new_connection EXCEPT !.uv["handle"] = "idle"])
         /\ Fresh([new_connection EXCEPT !.uv["handle"] = "idle",
                     !.connect_req = TRUE, !.lua_writer_tid = tid])
<1>1. PICK n \in connection_t : n = new_connection
  BY NewTypes
<1>2. PICK w \in [Handles -> HandleState] : w = [n.uv EXCEPT !["handle"] = "idle"]
  BY DEF connection_t, HandleState, Handles
<1> DEFINE accepted == [n EXCEPT !.uv = w]
           connecting == [n EXCEPT !.uv = w, !.connect_req = TRUE, !.lua_writer_tid = tid]
<1>3. accepted \in connection_t /\ connecting \in connection_t
  BY DEF connection_t
<1>4. /\ n.mem = "live" /\ n.lua_ref = TRUE /\ n.ref_count = 4 /\ n.write_data = FALSE
      /\ n.uv["handle"] = "init" /\ n.uv["read_timer"] = "idle" /\ n.uv["write_timer"] = "idle"
  BY <1>1 DEF new_connection, Handles
<1>5. w["handle"] = "idle" /\ w["read_timer"] = "idle" /\ w["write_timer"] = "idle"
  BY <1>2, <1>4 DEF connection_t, Handles
<1> USE DEF connection_t, Sound, RefsOf, Count, IsClosing, Handles
<1>6. n.lua_ref /\ n.mem = "live" /\ Sound(n, FALSE)
  BY <1>4
<1>7. accepted.lua_ref /\ accepted.mem = "live" /\ Sound(accepted, FALSE)
  BY <1>4, <1>5
<1>8. connecting.lua_ref /\ connecting.mem = "live" /\ Sound(connecting, FALSE)
  BY <1>4, <1>5
<1>9. /\ [n EXCEPT !.uv["handle"] = "idle"] = accepted
      /\ [n EXCEPT !.uv["handle"] = "idle", !.connect_req = TRUE, !.lua_writer_tid = tid]
           = connecting
  BY <1>2
<1> HIDE DEF accepted, connecting, Sound
<1> QED BY <1>1, <1>3, <1>6, <1>7, <1>8, <1>9 DEF Fresh

\* Queueing a write adds a reference and counts it.
LEMMA SoundQueueWrite ==
  ASSUME NEW r \in connection_t, NEW p \in BOOLEAN, Sound(r, p), r.lua_ref,
         NEW n \in Nat, NEW tid \in OptTid
  PROVE  Sound(queue_write(r, n, tid), p) /\ queue_write(r, n, tid).lua_ref
BY DEF connection_t, HandleState, Handles, Sound, RefsOf, Count, IsClosing, queue_write

\* A write that completes turns the request's reference into on_write's.
LEMMA SoundOnWrite ==
  ASSUME NEW r \in connection_t, Sound(r, FALSE), r.write_data, r.writes > 0
  PROVE  LET s == [r EXCEPT !.writes = @ - 1, !.write_data = FALSE]
         IN  s \in connection_t /\ Sound(s, TRUE) /\ s.mem = "live"
<1>1. PICK n \in Nat : n = r.writes - 1
  BY DEF connection_t
<1> DEFINE s == [r EXCEPT !.writes = n, !.write_data = FALSE]
<1>2. s \in connection_t
  BY DEF connection_t
<1>3. Sound(s, TRUE) /\ s.mem = "live"
  BY <1>1 DEF connection_t, HandleState, Handles, Sound, RefsOf, Count, IsClosing
<1> QED BY <1>1, <1>2, <1>3

\* A write callback that finds write_req.data = NULL changes no reference.
LEMMA SoundOnWriteNull ==
  ASSUME NEW r \in connection_t, Sound(r, FALSE), ~r.write_data, r.writes > 0
  PROVE  LET s == [r EXCEPT !.writes = @ - 1, !.write_data = FALSE]
         IN  s \in connection_t /\ Sound(s, FALSE)
<1>1. PICK n \in Nat : n = r.writes - 1
  BY DEF connection_t
<1> DEFINE s == [r EXCEPT !.writes = n, !.write_data = FALSE]
<1>2. s \in connection_t
  BY DEF connection_t
<1>3. Sound(s, FALSE)
  BY <1>1 DEF connection_t, HandleState, Handles, Sound, RefsOf, Count, IsClosing
<1> QED BY <1>1, <1>2, <1>3

\* on_write's reference is dropped: the object is freed only when nothing
\* else refers to it.
LEMMA SoundOnWriteReturn ==
  ASSUME NEW r \in connection_t, Sound(r, TRUE)
  PROVE  Sound(GC_REF(r), FALSE)
BY DEF connection_t, HandleState, Handles, Sound, RefsOf, Count, IsClosing, GC_REF

\* A handle's close callback drops the handle's reference.
LEMMA SoundFreeHandle ==
  ASSUME NEW r \in connection_t, NEW p \in BOOLEAN, Sound(r, p), NEW h \in Handles,
         r.uv[h] = "closing", h = "handle" => ~r.connect_req /\ r.writes = 0
  PROVE  LET s == [r EXCEPT !.uv[h] = "closed"]
         IN  s \in connection_t /\ Sound(GC_REF(s), p)
<1> DEFINE s == [r EXCEPT !.uv[h] = "closed"]
<1>1. s \in connection_t
  BY DEF connection_t, HandleState
<1>2. /\ s.mem = r.mem /\ s.lua_ref = r.lua_ref /\ s.ref_count = r.ref_count
      /\ s.connect_req = r.connect_req /\ s.write_data = r.write_data
      /\ s.writes = r.writes /\ s.uv[h] = "closed"
      /\ \A k \in Handles \ {h} : s.uv[k] = r.uv[k]
  BY DEF connection_t
<1>3. r.mem = "live" /\ ~r.lua_ref
  BY DEF connection_t, HandleState, Handles, Sound, RefsOf, Count, IsClosing
<1>4. RefsOf(s, p) = RefsOf(r, p) - 1 /\ RefsOf(s, p) \in Nat /\ RefsOf(r, p) \in Nat
  BY <1>2 DEF connection_t, Handles, RefsOf, Count
<1>5. PICK g \in connection_t : g = GC_REF(s)
  BY <1>1, GCRefType
<1>6. /\ g.ref_count = s.ref_count - 1 /\ g.uv = s.uv /\ g.lua_ref = s.lua_ref
      /\ g.connect_req = s.connect_req /\ g.writes = s.writes
      /\ g.write_data = s.write_data
      /\ g.mem = IF s.ref_count - 1 <= 0 THEN "freed" ELSE s.mem
  BY <1>1, <1>5 DEF GC_REF, connection_t
<1>7. RefsOf(g, p) = RefsOf(s, p)
  BY <1>6 DEF RefsOf
<1>8. r.ref_count >= RefsOf(r, p) /\ r.ref_count \in Int
  BY <1>3 DEF Sound, connection_t
<1>9. g.uv["handle"] = "closed" => ~g.connect_req /\ g.writes = 0
  BY <1>2, <1>6 DEF Sound, Handles
<1>10. /\ g.mem = "live" => g.ref_count >= RefsOf(g, p)
       /\ g.mem # "live" => RefsOf(g, p) = 0
  <2> HIDE DEF s
  <2> QED BY <1>2, <1>3, <1>4, <1>6, <1>7, <1>8
<1>11. ~g.lua_ref
  BY <1>2, <1>3, <1>6
<1>12. Sound(g, p)
  BY <1>9, <1>10, <1>11 DEF Sound
<1> QED BY <1>1, <1>5, <1>12

-----------------------------------------------------------------------------
(* Control *)

Framed(d, s) == InSeq(<<"close_connection", d>>, s)

\* Resuming a thread keeps the types and adds no close_connection frame.
LEMMA ResumeLemma ==
  ASSUME TypeOK, NEW t \in OptTid, NEW below \in Seq(Frame),
         resume_lua_thread(t, below)
  PROVE  /\ wait' \in [Tids -> Doing \X (Conns \cup {Nothing})]
         /\ registry' \in SUBSET Tids
         /\ current' \in OptTid
         /\ stack' \in Seq(Frame)
         /\ \A d \in Conns : Framed(d, stack') <=> Framed(d, below)
<1> DEFINE W == Doing \X (Conns \cup {Nothing})
<1>1. /\ {"thread"} \X Tids \subseteq Frame
      /\ <<"running", Nothing>> \in W
      /\ wait \in [Tids -> W] /\ registry \in SUBSET Tids /\ current \in OptTid
  BY DEF Frame, Doing, TypeOK
<1> HIDE DEF W
<1>2. /\ wait' \in [Tids -> W] /\ registry' \in SUBSET Tids
      /\ current' \in OptTid /\ stack' \in Seq(Frame)
      /\ \A g : g \notin {"thread"} \X Tids => (InSeq(g, stack') <=> InSeq(g, below))
  BY <1>1, ConnAssumption, ResumeTypes
<1>3. \A d \in Conns : Framed(d, stack') <=> Framed(d, below)
  BY <1>2 DEF Framed
<1> QED BY <1>2, <1>3 DEF W

\* A thread that yields pops its own frame.
LEMMA YieldLemma ==
  ASSUME TypeOK, NEW t \in Tids, NEW doing \in Doing, NEW c \in Conns \cup {Nothing},
         Executes(t), Yield(t, doing, c)
  PROVE  /\ wait' \in [Tids -> Doing \X (Conns \cup {Nothing})]
         /\ current' \in OptTid
         /\ stack' \in Seq(Frame)
         /\ \A d \in Conns : Framed(d, stack') <=> Framed(d, stack)
<1> DEFINE W == Doing \X (Conns \cup {Nothing})
<1>1. wait \in [Tids -> W] /\ stack \in Seq(Frame) /\ <<doing, c>> \in W
  BY DEF TypeOK
<1> HIDE DEF W
<1>2. /\ wait' \in [Tids -> W] /\ current' \in OptTid /\ stack' \in Seq(Frame)
      /\ \A g : g \notin {"thread"} \X Tids => (InSeq(g, stack') <=> InSeq(g, stack))
  BY <1>1, YieldTypes
<1>3. \A d \in Conns : Framed(d, stack') <=> Framed(d, stack)
  BY <1>2 DEF Framed
<1> QED BY <1>2, <1>3 DEF W

\* What close_connection leaves behind.
LEMMA CloseLemma ==
  ASSUME TypeOK, NEW c \in Conns, NEW r \in connection_t, NEW below \in Seq(Frame),
         NEW p \in BOOLEAN, Sound(r, p),
         Framed(c, below) => r.mem = "live",
         \/ r.lua_ref \/ Framed(c, below)
         \/ r.lua_reader_tid = NoTid /\ r.lua_writer_tid = NoTid,
         close_connection(c, r, below)
  PROVE  \E s \in connection_t :
           /\ conn' = [conn EXCEPT ![c] = s]
           /\ Sound(s, p)
           /\ stack' \in Seq(Frame)
           /\ Framed(c, stack') => s.mem = "live"
           /\ \/ s.lua_ref \/ Framed(c, stack')
              \/ s.lua_reader_tid = NoTid /\ s.lua_writer_tid = NoTid
           /\ \A d \in Conns \ {c} : Framed(d, stack') <=> Framed(d, below)
<1>1. CASE ~r.lua_ref
  BY <1>1 DEF close_connection
<1>2. CASE r.lua_ref
  <2> DEFINE s == delink(r)
  <2>1. s \in connection_t /\ Sound(s, p) /\ s.mem = "live"
    BY <1>2, DelinkType, SoundDelink
  <2>2. s.lua_reader_tid = r.lua_reader_tid /\ s.lua_writer_tid = r.lua_writer_tid
    BY DEF delink, connection_t
  <2>3. conn' = [conn EXCEPT ![c] = s]
    BY <1>2 DEF close_connection
  <2>4. CASE r.lua_reader_tid = NoTid /\ r.lua_writer_tid = NoTid
    <3>1. stack' = below
      BY <1>2, <2>4 DEF close_connection
    <3> HIDE DEF s
    <3> QED BY <2>1, <2>2, <2>3, <2>4, <3>1
  <2>5. CASE ~(r.lua_reader_tid = NoTid /\ r.lua_writer_tid = NoTid)
    <3>1. stack' = <<<<"close_connection", c>>>> \o below
      BY <1>2, <2>5 DEF close_connection
    <3>2. <<"close_connection", c>> \in Frame
      BY DEF Frame
    <3>3. stack' \in Seq(Frame) /\ \A g : InSeq(g, stack') <=> (g = <<"close_connection", c>> \/ InSeq(g, below))
      BY <3>1, <3>2, PushLemma
    <3>4. Framed(c, stack') /\ \A d \in Conns \ {c} : Framed(d, stack') <=> Framed(d, below)
      BY <3>3 DEF Framed
    <3> HIDE DEF s
    <3> QED BY <2>1, <2>3, <3>3, <3>4
  <2> QED BY <2>4, <2>5
<1> QED BY <1>1, <1>2

\* A step that changes one connection, and the frames of no other, keeps the
\* invariant if it leaves that connection sound and accounted for.
LEMMA Assemble ==
  ASSUME IndInv, NEW c \in Conns, NEW s \in connection_t,
         conn' = [conn EXCEPT ![c] = s],
         Sound(s, callback' = <<"on_write", c>>),
         Framed(c, stack') => s.mem = "live",
         \/ s.lua_ref \/ Framed(c, stack')
         \/ s.lua_reader_tid = NoTid /\ s.lua_writer_tid = NoTid,
         \A d \in Conns \ {c} : Framed(d, stack') <=> Framed(d, stack),
         \A d \in Conns \ {c} : (callback' = <<"on_write", d>>) <=> (callback = <<"on_write", d>>),
         wait' \in [Tids -> Doing \X (Conns \cup {Nothing})],
         registry' \in SUBSET Tids, current' \in OptTid, stack' \in Seq(Frame),
         callback' \in Callback, held' \in [Conns -> SUBSET Tids]
  PROVE  IndInv'
<1>1. conn' \in [Conns -> connection_t] /\ conn'[c] = s /\ \A d \in Conns \ {c} : conn'[d] = conn[d]
  BY DEF IndInv, TypeOK
<1>2. TypeOK'
  BY <1>1 DEF TypeOK
<1>3. AllSound'
  <2> SUFFICES ASSUME NEW d \in Conns PROVE Sound(conn'[d], callback' = <<"on_write", d>>)
    BY DEF AllSound
  <2>1. CASE d = c
    BY <1>1, <2>1
  <2>2. CASE d # c
    <3>1. (callback' = <<"on_write", d>>) = (callback = <<"on_write", d>>)
      BY <2>2
    <3>2. Sound(conn[d], callback = <<"on_write", d>>)
      BY DEF IndInv, AllSound
    <3> QED BY <1>1, <2>2, <3>1, <3>2
  <2> QED BY <2>1, <2>2
<1>4. FramesLive'
  BY <1>1 DEF IndInv, FramesLive, Framed
<1>5. ClosedNamesNoThread'
  BY <1>1 DEF IndInv, ClosedNamesNoThread, Framed
<1> QED BY <1>2, <1>3, <1>4, <1>5 DEF IndInv

\* The same when no connection changes.
LEMMA AssembleSame ==
  ASSUME IndInv, conn' = conn,
         \A d \in Conns : Framed(d, stack') <=> Framed(d, stack),
         \A d \in Conns : (callback' = <<"on_write", d>>) <=> (callback = <<"on_write", d>>),
         wait' \in [Tids -> Doing \X (Conns \cup {Nothing})],
         registry' \in SUBSET Tids, current' \in OptTid, stack' \in Seq(Frame),
         callback' \in Callback, held' \in [Conns -> SUBSET Tids]
  PROVE  IndInv'
<1>1. TypeOK'
  BY DEF IndInv, TypeOK
<1>2. AllSound'
  <2> SUFFICES ASSUME NEW d \in Conns PROVE Sound(conn'[d], callback' = <<"on_write", d>>)
    BY DEF AllSound
  <2>1. (callback' = <<"on_write", d>>) = (callback = <<"on_write", d>>)
    OBVIOUS
  <2> QED BY <2>1 DEF IndInv, AllSound
<1>3. FramesLive'
  BY DEF IndInv, FramesLive, Framed
<1>4. ClosedNamesNoThread'
  BY DEF IndInv, ClosedNamesNoThread, Framed
<1> QED BY <1>1, <1>2, <1>3, <1>4 DEF IndInv

\* A step that ends in close_connection keeps the invariant if the caller
\* hands it a sound connection.
LEMMA CloseStep ==
  ASSUME IndInv, NEW c \in Conns, NEW r \in connection_t, NEW below \in Seq(Frame),
         close_connection(c, r, below),
         Sound(r, callback' = <<"on_write", c>>),
         \A d \in Conns : Framed(d, below) <=> Framed(d, stack),
         Framed(c, stack) => r.mem = "live",
         \/ r.lua_ref \/ Framed(c, stack)
         \/ r.lua_reader_tid = NoTid /\ r.lua_writer_tid = NoTid,
         \A d \in Conns \ {c} : (callback' = <<"on_write", d>>) <=> (callback = <<"on_write", d>>),
         UNCHANGED <<wait, registry, current, held>>, callback' \in Callback
  PROVE  IndInv'
<1> DEFINE p == callback' = <<"on_write", c>>
<1>1. PICK s \in connection_t :
        /\ conn' = [conn EXCEPT ![c] = s]
        /\ Sound(s, p)
        /\ stack' \in Seq(Frame)
        /\ Framed(c, stack') => s.mem = "live"
        /\ \/ s.lua_ref \/ Framed(c, stack')
           \/ s.lua_reader_tid = NoTid /\ s.lua_writer_tid = NoTid
        /\ \A d \in Conns \ {c} : Framed(d, stack') <=> Framed(d, below)
  <2>1. p \in BOOLEAN /\ Sound(r, p)
    OBVIOUS
  <2> HIDE DEF p
  <2> QED BY <2>1, CloseLemma DEF IndInv
<1>2. TypeOK /\ Sound(s, callback' = <<"on_write", c>>)
  BY <1>1 DEF IndInv
<1> HIDE DEF p
<1> QED BY <1>1, <1>2, Assemble DEF TypeOK

\* What the invariant says of one connection.
LEMMA ConnFacts ==
  ASSUME IndInv, NEW c \in Conns
  PROVE  /\ conn[c] \in connection_t
         /\ Sound(conn[c], callback = <<"on_write", c>>)
         /\ Framed(c, stack) => conn[c].mem = "live"
         /\ \/ conn[c].lua_ref \/ Framed(c, stack)
            \/ conn[c].lua_reader_tid = NoTid /\ conn[c].lua_writer_tid = NoTid
BY DEF IndInv, TypeOK, AllSound, FramesLive, ClosedNamesNoThread, Framed

\* When the loop is idle no frame and no callback refers to a connection.
LEMMA IdleFacts ==
  ASSUME IndInv, Idle
  PROVE  /\ stack = <<>> /\ <<>> \in Seq(Frame)
         /\ callback = NoCallback /\ NoCallback \in Callback
         /\ \A d \in Conns : callback # <<"on_write", d>>
         /\ \A d \in Conns : ~Framed(d, <<>>)
BY EmptyLemma DEF Idle, NoCallback, Callback, Framed

-----------------------------------------------------------------------------
(* The libuv callbacks preserve the invariant *)

\* on_server_connect preserves the invariant: the accepted connection starts
\* with four references, a refused one loses the userdata's at once.
LEMMA OnServerConnectInv ==
  ASSUME IndInv, NEW c \in Conns, NEW t \in Tids, NEW accepted \in BOOLEAN,
         on_server_connect(c, t, accepted)
  PROVE  IndInv'
<1>1. Idle /\ callback' = callback
  BY DEF on_server_connect
<1>2. CASE accepted
  <2> DEFINE s == [new_connection EXCEPT !.uv["handle"] = "idle"]
  <2>1. /\ conn' = [conn EXCEPT ![c] = s] /\ Run(t, <<>>)
        /\ registry' = registry \cup {t} /\ held' = [held EXCEPT ![c] = {t}]
    BY <1>2 DEF on_server_connect
  <2>3. s \in connection_t /\ s.lua_ref /\ s.mem = "live" /\ Sound(s, FALSE)
    BY SoundNew DEF OptTid, Fresh
  <2>4. <<"thread", t>> \in Frame
    BY DEF Frame
  <2>5. stack' \in Seq(Frame) /\ \A g : InSeq(g, stack') <=> (g = <<"thread", t>> \/ InSeq(g, <<>>))
    BY <1>1, <2>1, <2>4, IdleFacts, PushLemma DEF Run
  <2>6. \A d \in Conns : Framed(d, stack') <=> Framed(d, stack)
    BY <1>1, <2>5, IdleFacts DEF Framed
  <2>7. /\ wait' \in [Tids -> Doing \X (Conns \cup {Nothing})]
        /\ registry' \in SUBSET Tids /\ current' \in OptTid
        /\ held' \in [Conns -> SUBSET Tids]
    BY <2>1 DEF IndInv, TypeOK, Run, Doing, OptTid
  <2>8. (callback' = <<"on_write", c>>) = FALSE
    BY <1>1, IdleFacts
  <2> HIDE DEF s
  <2> QED BY <1>1, <2>1, <2>3, <2>5, <2>6, <2>7, <2>8, IdleFacts, Assemble
<1>3. CASE ~accepted
  <2>1. close_connection(c, new_connection, <<>>) /\ UNCHANGED <<wait, registry, current, held>>
    BY <1>3 DEF on_server_connect
  <2>3. new_connection \in connection_t /\ new_connection.lua_ref /\ Sound(new_connection, FALSE)
    BY SoundNew DEF OptTid, Fresh
  <2>4. (callback' = <<"on_write", c>>) = FALSE
    BY <1>1, IdleFacts
  <2>5. PICK s \in connection_t :
           /\ conn' = [conn EXCEPT ![c] = s]
           /\ Sound(s, FALSE)
           /\ stack' \in Seq(Frame)
           /\ Framed(c, stack') => s.mem = "live"
           /\ \/ s.lua_ref \/ Framed(c, stack')
              \/ s.lua_reader_tid = NoTid /\ s.lua_writer_tid = NoTid
           /\ \A d \in Conns \ {c} : Framed(d, stack') <=> Framed(d, <<>>)
    BY <1>1, <2>1, <2>3, IdleFacts, CloseLemma DEF IndInv
  <2> QED BY <1>1, <2>1, <2>4, <2>5, IdleFacts, Assemble DEF IndInv, TypeOK
<1> QED BY <1>2, <1>3

\* The three outcomes of on_read preserve it: data resumes the reader, an
\* empty read only stops the timer, end of file closes.
LEMMA OnReadInv ==
  ASSUME IndInv, NEW c \in Conns, on_read_data(c) \/ on_read_nothing(c) \/ on_read_end(c)
  PROVE  IndInv'
<1>0. Idle /\ TypeOK /\ callback' = callback /\ held' = held /\ conn[c].uv["handle"] = "active"
  BY DEF on_read_data, on_read_nothing, on_read_end, IndInv
<1>1. (callback' = <<"on_write", c>>) = FALSE /\ (callback = <<"on_write", c>>) = FALSE
  BY <1>0, IdleFacts
<1>2. conn[c] \in connection_t /\ Sound(conn[c], FALSE)
  BY <1>1, ConnFacts
<1>3. "read_timer" \in Handles
  BY DEF Handles
<1>4. CASE on_read_data(c)
  <2> DEFINE s == read_done(conn[c])
  <2>1. conn' = [conn EXCEPT ![c] = s] /\ resume_lua_thread(conn[c].lua_reader_tid, <<>>)
    BY <1>4 DEF on_read_data
  <2>2. s \in connection_t /\ Sound(s, FALSE)
    BY <1>2, <1>3, SoundTouch, TouchTypes
  <2>3. s.lua_ref = conn[c].lua_ref /\ s.lua_reader_tid = NoTid /\ s.lua_writer_tid = conn[c].lua_writer_tid
    BY <1>2 DEF read_done, stop_timer, connection_t
  <2>4. conn[c].lua_reader_tid \in OptTid
    BY <1>2 DEF connection_t
  <2> HIDE DEF s
  <2> QED BY <1>0, <1>1, <2>1, <2>2, <2>3, <2>4, ConnFacts, IdleFacts, ResumeLemma, Assemble DEF TypeOK
<1> DEFINE s == stop_timer(conn[c], "read_timer")
<1>5. s \in connection_t /\ Sound(s, FALSE)
  BY <1>2, <1>3, SoundTouch, TouchTypes
<1>6. /\ s.lua_ref = conn[c].lua_ref /\ s.lua_reader_tid = conn[c].lua_reader_tid
      /\ s.lua_writer_tid = conn[c].lua_writer_tid
  BY <1>2 DEF stop_timer, connection_t
<1>7. CASE on_read_nothing(c)
  <2>1. conn' = [conn EXCEPT ![c] = s] /\ UNCHANGED <<wait, registry, current, stack>>
    BY <1>7 DEF on_read_nothing
  <2> HIDE DEF s
  <2> QED BY <1>0, <1>1, <1>5, <1>6, <2>1, ConnFacts, IdleFacts, Assemble DEF TypeOK
<1>8. CASE on_read_end(c)
  <2>1. close_connection(c, s, <<>>) /\ UNCHANGED <<wait, registry, current>>
    BY <1>8 DEF on_read_end
  <2> HIDE DEF s
  <2> QED BY <1>0, <1>1, <1>5, <1>6, <2>1, ConnFacts, IdleFacts, CloseStep DEF TypeOK
<1> QED BY <1>4, <1>7, <1>8

\* on_conn_timeout preserves it: the timer is stopped, the connection closed.
LEMMA OnConnTimeoutInv ==
  ASSUME IndInv, NEW c \in Conns, NEW h \in Handles, on_conn_timeout(c, h)
  PROVE  IndInv'
<1>1. Idle /\ TypeOK /\ UNCHANGED <<wait, registry, current, callback, held>>
  BY DEF on_conn_timeout, IndInv
<1>2. (callback' = <<"on_write", c>>) = FALSE /\ (callback = <<"on_write", c>>) = FALSE
  BY <1>1, IdleFacts
<1> DEFINE s == stop_timer(conn[c], h)
<1>3. close_connection(c, s, <<>>)
  BY DEF on_conn_timeout
<1>4. s \in connection_t /\ Sound(s, FALSE)
  BY <1>2, ConnFacts, SoundTouch, TouchTypes
<1>5. /\ s.lua_ref = conn[c].lua_ref /\ s.lua_reader_tid = conn[c].lua_reader_tid
      /\ s.lua_writer_tid = conn[c].lua_writer_tid
  BY ConnFacts DEF stop_timer, connection_t
<1> HIDE DEF s
<1> QED BY <1>1, <1>2, <1>3, <1>4, <1>5, ConnFacts, IdleFacts, CloseStep DEF TypeOK

\* on_write preserves it: the request's reference moves to the callback.
LEMMA OnWriteInv ==
  ASSUME IndInv, NEW c \in Conns, NEW ok \in BOOLEAN, on_write(c, ok)
  PROVE  IndInv'
<1> DEFINE r == [conn[c] EXCEPT !.writes = @ - 1, !.write_data = FALSE]
<1>1. Idle /\ TypeOK /\ held' = held /\ conn[c].writes > 0
  BY DEF on_write, IndInv
<1>2. (callback = <<"on_write", c>>) = FALSE
  BY <1>1, IdleFacts
<1>3. conn[c] \in connection_t /\ Sound(conn[c], FALSE)
  BY <1>2, ConnFacts
<1>4. /\ r.lua_ref = conn[c].lua_ref /\ r.lua_reader_tid = conn[c].lua_reader_tid
      /\ r.lua_writer_tid = conn[c].lua_writer_tid
  BY <1>3 DEF connection_t
<1>5. CASE ~conn[c].write_data
  <2>1. conn' = [conn EXCEPT ![c] = r] /\ UNCHANGED <<wait, registry, current, stack, callback>>
    BY <1>5 DEF on_write
  <2>2. r \in connection_t /\ Sound(r, FALSE)
    BY <1>1, <1>3, <1>5, SoundOnWriteNull
  <2> HIDE DEF r
  <2> QED BY <1>1, <1>2, <1>4, <2>1, <2>2, ConnFacts, IdleFacts, Assemble DEF TypeOK
<1>6. CASE conn[c].write_data
  <2>1. r \in connection_t /\ Sound(r, TRUE) /\ r.mem = "live"
    BY <1>1, <1>3, <1>6, SoundOnWrite
  <2>2. callback' = <<"on_write", c>> /\ callback' \in Callback
    BY <1>6 DEF on_write, Callback
  <2>3. (callback' = <<"on_write", c>>) = TRUE /\ \A d \in Conns \ {c} : callback' # <<"on_write", d>>
    BY <2>2
  <2>4. CASE ~ok
    <3>1. close_connection(c, r, <<>>) /\ UNCHANGED <<wait, registry, current>>
      BY <1>6, <2>4 DEF on_write
    <3> HIDE DEF r
    <3> QED BY <1>1, <1>4, <2>1, <2>2, <2>3, <3>1, ConnFacts, IdleFacts, CloseStep DEF TypeOK
  <2>5. CASE ok
    <3> DEFINE s == write_done(r)
    <3>1. conn' = [conn EXCEPT ![c] = s] /\ resume_lua_thread(conn[c].lua_writer_tid, <<>>)
      BY <1>6, <2>5 DEF on_write
    <3>2. s \in connection_t /\ Sound(s, TRUE)
      BY <2>1, SoundTouch, TouchTypes DEF Handles
    <3>3. s.lua_ref = r.lua_ref /\ s.lua_reader_tid = r.lua_reader_tid /\ s.lua_writer_tid = NoTid
      BY <2>1 DEF write_done, stop_timer, connection_t
    <3>4. conn[c].lua_writer_tid \in OptTid
      BY <1>3 DEF connection_t
    <3>5. /\ wait' \in [Tids -> Doing \X (Conns \cup {Nothing})] /\ registry' \in SUBSET Tids
          /\ current' \in OptTid /\ stack' \in Seq(Frame)
          /\ \A d \in Conns : Framed(d, stack') <=> Framed(d, stack)
      BY <1>1, <3>1, <3>4, IdleFacts, ResumeLemma
    <3>6. s.lua_ref \/ (s.lua_reader_tid = NoTid /\ s.lua_writer_tid = NoTid)
      BY <1>1, <1>4, <3>3, ConnFacts, IdleFacts
    <3>7. ~Framed(c, stack') /\ held' \in [Conns -> SUBSET Tids]
      BY <1>1, <3>5, IdleFacts DEF TypeOK
    <3> HIDE DEF s, r
    <3> QED BY <1>1, <2>2, <2>3, <3>1, <3>2, <3>5, <3>6, <3>7, IdleFacts, Assemble
  <2> QED BY <2>4, <2>5
<1> QED BY <1>5, <1>6

\* The end of on_write preserves it: the callback's reference is dropped and
\* the object freed if it was the last one.
LEMMA OnWriteReturnInv ==
  ASSUME IndInv, NEW c \in Conns, on_write_return(c)
  PROVE  IndInv'
<1> DEFINE s == GC_REF(conn[c])
<1>1. /\ TypeOK /\ stack = <<>> /\ callback = <<"on_write", c>> /\ callback' = NoCallback
      /\ conn' = [conn EXCEPT ![c] = s] /\ UNCHANGED <<wait, registry, current, stack, held>>
  BY DEF on_write_return, IndInv
<1>2. (callback = <<"on_write", c>>) = TRUE /\ (callback' = <<"on_write", c>>) = FALSE
  BY <1>1 DEF NoCallback
<1>3. conn[c] \in connection_t /\ Sound(conn[c], TRUE)
  BY <1>2, ConnFacts
<1>4. s \in connection_t /\ Sound(s, FALSE)
  BY <1>3, GCRefType, SoundOnWriteReturn
<1>5. /\ s.lua_ref = conn[c].lua_ref /\ s.lua_reader_tid = conn[c].lua_reader_tid
      /\ s.lua_writer_tid = conn[c].lua_writer_tid
  BY <1>3 DEF GC_REF, connection_t
<1>6. callback' \in Callback /\ \A d \in Conns \ {c} : callback' # <<"on_write", d>> /\ callback # <<"on_write", d>>
  BY <1>1 DEF Callback, NoCallback
<1>7. ~Framed(c, stack)
  BY <1>1, EmptyLemma DEF Framed
<1> HIDE DEF s
<1> QED BY <1>1, <1>2, <1>4, <1>5, <1>6, <1>7, ConnFacts, Assemble DEF TypeOK

\* on_client_connect preserves it, whether the connect succeeded or failed.
LEMMA OnClientConnectInv ==
  ASSUME IndInv, NEW c \in Conns, NEW ok \in BOOLEAN, on_client_connect(c, ok)
  PROVE  IndInv'
<1> DEFINE q == stop_timer(conn[c], "write_timer")
           r == [q EXCEPT !.connect_req = FALSE]
<1>1. Idle /\ TypeOK /\ held' = held /\ callback' = callback
  BY DEF on_client_connect, IndInv
<1>2. (callback = <<"on_write", c>>) = FALSE
  BY <1>1, IdleFacts
<1>3. q \in connection_t /\ Sound(q, FALSE)
  BY <1>2, ConnFacts, SoundTouch, TouchTypes DEF Handles
<1>4. r \in connection_t /\ Sound(r, FALSE)
  <2> HIDE DEF q
  <2>1. r \in connection_t
    BY <1>3 DEF connection_t
  <2>2. Sound(r, FALSE)
    BY <1>3 DEF connection_t, Sound, RefsOf, IsClosing
  <2> QED BY <2>1, <2>2
<1>5. /\ r.lua_ref = conn[c].lua_ref /\ r.lua_reader_tid = conn[c].lua_reader_tid
      /\ r.lua_writer_tid = conn[c].lua_writer_tid
  BY ConnFacts DEF stop_timer, connection_t
<1>6. r.lua_writer_tid \in OptTid
  BY <1>4 DEF connection_t
<1>7. CASE ok
  <2>1. conn' = [conn EXCEPT ![c] = r] /\ resume_lua_thread(r.lua_writer_tid, <<>>)
    BY <1>7 DEF on_client_connect
  <2>2. (callback' = <<"on_write", c>>) = FALSE
    BY <1>1, <1>2
  <2> HIDE DEF q, r
  <2>3. /\ wait' \in [Tids -> Doing \X (Conns \cup {Nothing})] /\ registry' \in SUBSET Tids
        /\ current' \in OptTid /\ stack' \in Seq(Frame)
        /\ \A d \in Conns : Framed(d, stack') <=> Framed(d, stack)
    BY <1>1, <1>6, <2>1, IdleFacts, ResumeLemma
  <2> QED BY <1>1, <1>4, <1>5, <2>1, <2>2, <2>3, ConnFacts, IdleFacts, Assemble DEF TypeOK
<1>8. CASE ~ok
  <2>1. close_connection(c, r, <<>>) /\ UNCHANGED <<wait, registry, current>>
    BY <1>8 DEF on_client_connect
  <2>2. callback' \in Callback
    BY <1>1 DEF TypeOK
  <2>3. (callback' = <<"on_write", c>>) = FALSE
    BY <1>1, <1>2
  <2> HIDE DEF q, r
  <2> QED BY <1>1, <1>4, <1>5, <2>1, <2>2, <2>3, ConnFacts, IdleFacts, CloseStep DEF TypeOK
<1> QED BY <1>7, <1>8

\* When the process is aborted nothing else changes.
LEMMA OnServerConnectFailsInv ==
  ASSUME IndInv, on_server_connect_fails
  PROVE  IndInv'
<1>1. /\ TypeOK /\ Idle /\ callback' = Aborted
      /\ UNCHANGED <<conn, wait, registry, current, stack, held>>
  BY DEF on_server_connect_fails, IndInv
<1>2. \A d \in Conns : callback # <<"on_write", d>>
  BY <1>1, IdleFacts
<1>3. callback' \in Callback /\ \A d \in Conns : callback' # <<"on_write", d>>
  BY <1>1 DEF Callback, Aborted
<1> QED BY <1>1, <1>2, <1>3, AssembleSame DEF TypeOK

\* A close callback preserves it: the handle's reference goes with the handle.
LEMMA FreeHandleInv ==
  ASSUME IndInv, NEW c \in Conns, NEW h \in Handles, free_handle(c, h)
  PROVE  IndInv'
<1> DEFINE r == [conn[c] EXCEPT !.uv[h] = "closed"]
           s == GC_REF(r)
<1>1. /\ Idle /\ TypeOK /\ conn' = [conn EXCEPT ![c] = s] /\ conn[c].uv[h] = "closing"
      /\ h = "handle" => ~conn[c].connect_req /\ conn[c].writes = 0
      /\ UNCHANGED <<wait, registry, current, stack, callback, held>>
  BY DEF free_handle, IndInv
<1>2. (callback = <<"on_write", c>>) = FALSE /\ (callback' = <<"on_write", c>>) = FALSE
  BY <1>1, IdleFacts
<1>3. r \in connection_t /\ Sound(s, FALSE)
  BY <1>1, <1>2, ConnFacts, SoundFreeHandle
<1>4. s \in connection_t
  BY <1>3, GCRefType
<1>5. /\ s.lua_ref = r.lua_ref /\ s.lua_reader_tid = r.lua_reader_tid
      /\ s.lua_writer_tid = r.lua_writer_tid
  <2> HIDE DEF r
  <2> QED BY <1>3 DEF GC_REF, connection_t
<1>6. /\ r.lua_ref = conn[c].lua_ref /\ r.lua_reader_tid = conn[c].lua_reader_tid
      /\ r.lua_writer_tid = conn[c].lua_writer_tid
  BY ConnFacts DEF connection_t
<1> HIDE DEF r, s
<1> QED BY <1>1, <1>2, <1>3, <1>4, <1>5, <1>6, ConnFacts, IdleFacts, Assemble DEF TypeOK

\* on_resolved touches no connection.
LEMMA OnResolvedInv ==
  ASSUME IndInv, NEW t \in Tids, on_resolved(t)
  PROVE  IndInv'
<1>1. Idle /\ TypeOK /\ resume_lua_thread(t, <<>>) /\ UNCHANGED <<conn, callback, held>>
  BY DEF on_resolved, IndInv
<1>2. /\ wait' \in [Tids -> Doing \X (Conns \cup {Nothing})] /\ registry' \in SUBSET Tids
      /\ current' \in OptTid /\ stack' \in Seq(Frame)
      /\ \A d \in Conns : Framed(d, stack') <=> Framed(d, stack)
  BY <1>1, IdleFacts, ResumeLemma DEF OptTid
<1> QED BY <1>1, <1>2, AssembleSame DEF TypeOK

\* connection_gc preserves it: nobody is resumed for a collected userdata.
LEMMA ConnectionGCInv ==
  ASSUME IndInv, NEW c \in Conns, connection_gc(c)
  PROVE  IndInv'
<1> DEFINE r == forget_tids(conn[c])
           p == callback = <<"on_write", c>>
<1>1. /\ TypeOK /\ close_connection(c, r, stack) /\ conn[c].lua_ref
      /\ UNCHANGED <<wait, registry, current, callback, held>>
  BY DEF connection_gc, IndInv
<1>2. p \in BOOLEAN /\ Sound(conn[c], p) /\ conn[c] \in connection_t
  BY ConnFacts
<1>3. r \in connection_t /\ Sound(r, p)
  <2> HIDE DEF p
  <2> QED BY <1>2, SoundTouch, TouchTypes DEF Handles
<1>4. r.mem = conn[c].mem /\ r.lua_ref
  BY <1>1, <1>2 DEF forget_tids, connection_t
<1>5. Sound(r, callback' = <<"on_write", c>>)
  BY <1>1, <1>3
<1> HIDE DEF r, p
<1> QED BY <1>1, <1>3, <1>4, <1>5, ConnFacts, CloseStep DEF TypeOK

\* The end of close_connection.
LEMMA UnblockInv ==
  ASSUME IndInv, NEW c \in Conns, Unblock(c)
  PROVE  IndInv'
<1>1. TypeOK /\ stack # <<>> /\ Head(stack) = <<"close_connection", c>> /\ UNCHANGED <<callback, held>>
  BY DEF Unblock, IndInv
<1>2. /\ Tail(stack) \in Seq(Frame) /\ stack \in Seq(Frame) /\ Framed(c, stack)
      /\ \A d \in Conns \ {c} : Framed(d, Tail(stack)) <=> Framed(d, stack)
      /\ Framed(c, Tail(stack)) => Framed(c, stack)
  <2>1. stack \in Seq(Frame)
    BY <1>1 DEF TypeOK
  <2>2. /\ Tail(stack) \in Seq(Frame)
        /\ \A g : InSeq(g, stack) <=> (g = <<"close_connection", c>> \/ InSeq(g, Tail(stack)))
    BY <1>1, <2>1, PopLemma
  <2>3. \A d \in Conns \ {c} : <<"close_connection", d>> # <<"close_connection", c>>
    OBVIOUS
  <2> QED BY <2>1, <2>2, <2>3 DEF Framed
<1> DEFINE p == callback = <<"on_write", c>>
<1>3. p \in BOOLEAN /\ Sound(conn[c], p) /\ conn[c] \in connection_t /\ conn[c].mem = "live"
  BY <1>2, ConnFacts
<1>4. conn[c].lua_reader_tid \in OptTid /\ conn[c].lua_writer_tid \in OptTid
  BY <1>3 DEF connection_t
<1>5. CASE conn[c].lua_reader_tid # NoTid
  <2> DEFINE s == [conn[c] EXCEPT !.lua_reader_tid = NoTid]
  <2>1. conn' = [conn EXCEPT ![c] = s] /\ resume_lua_thread(conn[c].lua_reader_tid, stack)
    BY <1>5 DEF Unblock
  <2>2. s \in connection_t
    BY <1>3 DEF connection_t, OptTid
  <2>3. Sound(s, p) /\ s.mem = "live"
    BY <1>3 DEF connection_t, Sound, RefsOf, IsClosing
  <2>4. Sound(s, callback' = <<"on_write", c>>)
    BY <1>1, <2>3
  <2>5. /\ wait' \in [Tids -> Doing \X (Conns \cup {Nothing})] /\ registry' \in SUBSET Tids
        /\ current' \in OptTid /\ stack' \in Seq(Frame)
        /\ \A d \in Conns : Framed(d, stack') <=> Framed(d, stack)
    BY <1>1, <1>2, <1>4, <2>1, ResumeLemma
  <2> HIDE DEF s, p
  <2> QED BY <1>1, <1>2, <2>1, <2>2, <2>3, <2>4, <2>5, Assemble DEF TypeOK
<1>6. CASE conn[c].lua_reader_tid = NoTid
  <2> DEFINE s == [conn[c] EXCEPT !.lua_writer_tid = NoTid]
  <2>1. conn' = [conn EXCEPT ![c] = s] /\ resume_lua_thread(conn[c].lua_writer_tid, Tail(stack))
    BY <1>6 DEF Unblock
  <2>2. s \in connection_t
    BY <1>3 DEF connection_t, OptTid
  <2>3. Sound(s, p) /\ s.mem = "live" /\ s.lua_reader_tid = NoTid /\ s.lua_writer_tid = NoTid
    BY <1>3, <1>6 DEF connection_t, Sound, RefsOf, IsClosing
  <2>4. Sound(s, callback' = <<"on_write", c>>)
    BY <1>1, <2>3
  <2>5. /\ wait' \in [Tids -> Doing \X (Conns \cup {Nothing})] /\ registry' \in SUBSET Tids
        /\ current' \in OptTid /\ stack' \in Seq(Frame)
        /\ \A d \in Conns : Framed(d, stack') <=> Framed(d, Tail(stack))
    BY <1>1, <1>2, <1>4, <2>1, ResumeLemma
  <2> HIDE DEF s, p
  <2> QED BY <1>1, <1>2, <2>1, <2>2, <2>3, <2>4, <2>5, Assemble DEF TypeOK
<1> QED BY <1>5, <1>6

-----------------------------------------------------------------------------
(* The calls of Lua threads preserve the invariant *)

\* A thread that uses a connection finds it open and sound, and live if a
\* close_connection frame is pending on it.
LEMMA UsesFacts ==
  ASSUME IndInv, NEW t \in Tids, NEW c \in Conns, Uses(t, c)
  PROVE  /\ TypeOK /\ Executes(t) /\ conn[c].lua_ref /\ conn[c] \in connection_t
         /\ Sound(conn[c], callback = <<"on_write", c>>)
         /\ Framed(c, stack) => conn[c].mem = "live"
BY ConnFacts DEF Uses, IndInv

\* Calls that end in close_connection on the caller's stack.
LEMMA CallCloseInv ==
  ASSUME IndInv, NEW t \in Tids, NEW c \in Conns,
         \/ read_inactive(t, c) \/ write_fails(t, c) \/ close_connection_lua(t, c)
         \/ start_reading(t, c, FALSE)
  PROVE  IndInv'
<1>1. Uses(t, c) /\ UNCHANGED <<wait, registry, current, callback, held>>
  BY DEF read_inactive, write_fails, close_connection_lua, start_reading
<1> DEFINE p == callback = <<"on_write", c>>
           q == [conn[c] EXCEPT !.lua_reader_tid = NoTid]
<1>2. p \in BOOLEAN /\ Sound(conn[c], p) /\ conn[c] \in connection_t /\ conn[c].lua_ref
  BY <1>1, UsesFacts
<1>3. PICK r \in {conn[c], forget_tids(conn[c]), q} : close_connection(c, r, stack)
  BY DEF read_inactive, write_fails, close_connection_lua, start_reading
<1>4. forget_tids(conn[c]) \in connection_t /\ Sound(forget_tids(conn[c]), p)
  <2> HIDE DEF p
  <2> QED BY <1>2, SoundTouch, TouchTypes DEF Handles
<1>5. q \in connection_t /\ Sound(q, p)
  <2>1. q \in connection_t
    BY <1>2 DEF connection_t, OptTid
  <2>2. Sound(q, p)
    BY <1>2 DEF connection_t, Sound, RefsOf, IsClosing
  <2> QED BY <2>1, <2>2
<1>6. /\ forget_tids(conn[c]).mem = conn[c].mem /\ forget_tids(conn[c]).lua_ref
      /\ q.mem = conn[c].mem /\ q.lua_ref
  BY <1>2 DEF forget_tids, connection_t
<1>7. r \in connection_t /\ Sound(r, p) /\ r.mem = conn[c].mem /\ r.lua_ref
  <2> HIDE DEF p, q
  <2> QED BY <1>2, <1>3, <1>4, <1>5, <1>6
<1>8. Sound(r, callback' = <<"on_write", c>>)
  BY <1>1, <1>7
<1> HIDE DEF p, q
<1> QED BY <1>1, <1>3, <1>7, <1>8, UsesFacts, CloseStep DEF TypeOK

\* start_reading preserves it, also when uv_read_start fails and it closes.
LEMMA StartReadingInv ==
  ASSUME IndInv, NEW t \in Tids, NEW c \in Conns, start_reading(t, c, TRUE)
  PROVE  IndInv'
<1> DEFINE p == callback = <<"on_write", c>>
           q == [conn[c] EXCEPT !.lua_reader_tid = NoTid]
           s == [q EXCEPT !.uv["handle"] = "active"]
<1>1. /\ Uses(t, c) /\ conn' = [conn EXCEPT ![c] = s]
      /\ UNCHANGED <<wait, registry, current, stack, callback, held>>
  BY DEF start_reading
<1>2. p \in BOOLEAN /\ Sound(conn[c], p) /\ conn[c] \in connection_t /\ conn[c].lua_ref
  BY <1>1, UsesFacts
<1>3. PICK u \in [Handles -> HandleState] : u = [conn[c].uv EXCEPT !["handle"] = "active"]
  BY <1>2 DEF connection_t, HandleState
<1>4. s = [conn[c] EXCEPT !.lua_reader_tid = NoTid, !.uv = u]
  BY <1>2, <1>3 DEF connection_t
<1>5. s \in connection_t
  <2>1. [conn[c] EXCEPT !.lua_reader_tid = NoTid, !.uv = u] \in connection_t
    BY <1>2 DEF connection_t, OptTid
  <2> QED BY <1>4, <2>1
<1>6. Sound(s, p) /\ s.mem = conn[c].mem /\ s.lua_ref
  BY <1>2 DEF connection_t, Sound, RefsOf, Count, IsClosing, Handles
<1>7. Sound(s, callback' = <<"on_write", c>>)
  BY <1>1, <1>6
<1> HIDE DEF p, q, s
<1> QED BY <1>1, <1>5, <1>6, <1>7, UsesFacts, Assemble DEF TypeOK

\* read_check preserves it when the reader blocks.
LEMMA ReadInv ==
  ASSUME IndInv, NEW t \in Tids, NEW c \in Conns, NEW timeout \in BOOLEAN, read(t, c, timeout)
  PROVE  IndInv'
<1> DEFINE p == callback = <<"on_write", c>>
           q == [conn[c] EXCEPT !.lua_reader_tid = current]
           s == start_timer(q, "read_timer", timeout)
<1>1. /\ Uses(t, c) /\ conn' = [conn EXCEPT ![c] = s] /\ Yield(t, "read", c)
      /\ UNCHANGED <<registry, callback, held>>
  BY DEF read
<1>2. p \in BOOLEAN /\ Sound(conn[c], p) /\ conn[c] \in connection_t /\ conn[c].lua_ref
  BY <1>1, UsesFacts
<1>3. q \in connection_t
  BY <1>2 DEF connection_t, IndInv, TypeOK
<1>4. Sound(q, p) /\ q.mem = conn[c].mem /\ q.lua_ref
  BY <1>2 DEF connection_t, Sound, RefsOf, IsClosing
<1>5. s \in connection_t /\ Sound(s, p)
  <2> HIDE DEF p, q
  <2> QED BY <1>2, <1>3, <1>4, SoundTouch, TouchTypes DEF Handles
<1>6. s.mem = q.mem /\ s.lua_ref = q.lua_ref
  <2> HIDE DEF q
  <2> QED BY <1>3 DEF start_timer, connection_t
<1>7. Sound(s, callback' = <<"on_write", c>>)
  BY <1>1, <1>5
<1>8. /\ wait' \in [Tids -> Doing \X (Conns \cup {Nothing})] /\ current' \in OptTid
      /\ stack' \in Seq(Frame) /\ \A d \in Conns : Framed(d, stack') <=> Framed(d, stack)
  BY <1>1, UsesFacts, YieldLemma DEF Doing
<1> HIDE DEF p, q, s
<1> QED BY <1>1, <1>4, <1>5, <1>6, <1>7, <1>8, UsesFacts, Assemble DEF TypeOK

\* write_buffer preserves it: the queued request is counted.
LEMMA WriteInv ==
  ASSUME IndInv, NEW t \in Tids, NEW c \in Conns, NEW timeout \in BOOLEAN, write(t, c, timeout)
  PROVE  IndInv'
<1> DEFINE p == callback = <<"on_write", c>>
<1>1. Uses(t, c) /\ Yield(t, "write", c) /\ UNCHANGED <<registry, callback, held>>
  BY DEF write
<1>2. PICK n \in 1 .. MaxWrites :
        conn' = [conn EXCEPT ![c] = start_timer(queue_write(conn[c], n, current), "write_timer", timeout)]
  BY DEF write
<1> DEFINE q == queue_write(conn[c], n, current)
           s == start_timer(q, "write_timer", timeout)
<1>3. p \in BOOLEAN /\ Sound(conn[c], p) /\ conn[c] \in connection_t /\ conn[c].lua_ref
  BY <1>1, UsesFacts
<1>4. n \in Nat /\ current \in OptTid
  BY ConnAssumption DEF IndInv, TypeOK
<1>5. q \in connection_t /\ Sound(q, p) /\ q.lua_ref
  <2> HIDE DEF p
  <2> QED BY <1>3, <1>4, QueueWriteType, SoundQueueWrite
<1>6. q.mem = conn[c].mem
  BY <1>3 DEF queue_write, connection_t
<1>7. s \in connection_t /\ Sound(s, p)
  <2> HIDE DEF p, q
  <2> QED BY <1>3, <1>5, SoundTouch, TouchTypes DEF Handles
<1>8. s.mem = q.mem /\ s.lua_ref = q.lua_ref
  <2> HIDE DEF q
  <2> QED BY <1>5 DEF start_timer, connection_t
<1>9. Sound(s, callback' = <<"on_write", c>>)
  BY <1>1, <1>7
<1>10. /\ wait' \in [Tids -> Doing \X (Conns \cup {Nothing})] /\ current' \in OptTid
       /\ stack' \in Seq(Frame) /\ \A d \in Conns : Framed(d, stack') <=> Framed(d, stack)
  BY <1>1, UsesFacts, YieldLemma DEF Doing
<1> HIDE DEF p, q, s
<1> QED BY <1>1, <1>2, <1>5, <1>6, <1>7, <1>8, <1>9, <1>10, UsesFacts, Assemble DEF TypeOK, q, s

\* A slot that was never allocated has no frame and no pending on_write.
LEMMA UnallocatedFacts ==
  ASSUME IndInv, NEW c \in Conns, conn[c].mem = "none"
  PROVE  callback # <<"on_write", c>> /\ ~Framed(c, stack)
<1>1. conn[c] \in connection_t /\ RefsOf(conn[c], callback = <<"on_write", c>>) = 0
  BY ConnFacts DEF Sound
<1>2. callback # <<"on_write", c>>
  BY <1>1 DEF RefsOf, Count
<1> QED BY <1>2, ConnFacts

\* new_connection called from Lua preserves it.
LEMMA NewConnectionInv ==
  ASSUME IndInv, NEW t \in Tids, NEW c \in Conns, new_connection_lua(t, c)
  PROVE  IndInv'
<1>1. /\ conn[c].mem = "none" /\ conn' = [conn EXCEPT ![c] = new_connection]
      /\ held' = [held EXCEPT ![c] = {t}]
      /\ UNCHANGED <<wait, registry, current, stack, callback>>
  BY DEF new_connection_lua
<1>2. (callback' = <<"on_write", c>>) = FALSE
  BY <1>1, UnallocatedFacts
<1>3. Fresh(new_connection) /\ held' \in [Conns -> SUBSET Tids]
  BY <1>1, SoundNew DEF OptTid, IndInv, TypeOK
<1> QED BY <1>1, <1>2, <1>3, Assemble DEF Fresh, IndInv, TypeOK

\* client_connect preserves it when the request was made.
LEMMA ConnectInv ==
  ASSUME IndInv, NEW t \in Tids, NEW c \in Conns, NEW timeout \in BOOLEAN, connect(t, c, timeout)
  PROVE  IndInv'
<1> DEFINE q == [new_connection EXCEPT !.uv["handle"] = "idle",
                   !.connect_req = TRUE, !.lua_writer_tid = current]
           s == start_timer(q, "write_timer", timeout)
<1>1. /\ TypeOK /\ conn[c].mem = "none" /\ conn' = [conn EXCEPT ![c] = s] /\ Executes(t)
      /\ held' = [held EXCEPT ![c] = {t}] /\ Yield(t, "connect", c)
      /\ UNCHANGED <<registry, callback>>
  BY DEF connect, IndInv
<1>2. (callback' = <<"on_write", c>>) = FALSE
  BY <1>1, UnallocatedFacts
<1>3. Fresh(q)
  BY <1>1, SoundNew DEF TypeOK
<1>4. s \in connection_t /\ Sound(s, FALSE)
  <2> HIDE DEF q
  <2> QED BY <1>3, SoundTouch, TouchTypes DEF Fresh, Handles
<1>5. s.mem = q.mem /\ s.lua_ref = q.lua_ref
  <2> HIDE DEF q
  <2> QED BY <1>3 DEF Fresh, start_timer, connection_t
<1>6. /\ wait' \in [Tids -> Doing \X (Conns \cup {Nothing})] /\ current' \in OptTid
      /\ stack' \in Seq(Frame) /\ \A d \in Conns : Framed(d, stack') <=> Framed(d, stack)
  BY <1>1, YieldLemma DEF Doing
<1>7. held' \in [Conns -> SUBSET Tids]
  BY <1>1 DEF TypeOK
<1> HIDE DEF q, s
<1> QED BY <1>1, <1>2, <1>3, <1>4, <1>5, <1>6, <1>7, Assemble DEF Fresh, TypeOK

\* client_connect preserves it when it closes the connection it just made.
LEMMA ConnectFailsInv ==
  ASSUME IndInv, NEW t \in Tids, NEW c \in Conns, connect_fails(t, c)
  PROVE  IndInv'
<1> DEFINE s == delink(new_connection)
<1>1. /\ TypeOK /\ conn[c].mem = "none" /\ conn' = [conn EXCEPT ![c] = s] /\ Executes(t)
      /\ Yield(t, "connect", c) /\ UNCHANGED <<registry, callback, held>>
  BY DEF connect_fails, IndInv
<1>2. (callback' = <<"on_write", c>>) = FALSE
  BY <1>1, UnallocatedFacts
<1>3. Fresh(new_connection)
  BY SoundNew DEF OptTid
<1>4. s \in connection_t /\ Sound(s, FALSE) /\ s.mem = "live"
  BY <1>3, DelinkType, SoundDelink DEF Fresh
<1>5. s.lua_reader_tid = NoTid /\ s.lua_writer_tid = NoTid
  BY DEF delink, new_connection
<1>6. /\ wait' \in [Tids -> Doing \X (Conns \cup {Nothing})] /\ current' \in OptTid
      /\ stack' \in Seq(Frame) /\ \A d \in Conns : Framed(d, stack') <=> Framed(d, stack)
  BY <1>1, YieldLemma DEF Doing
<1> HIDE DEF s
<1> QED BY <1>1, <1>2, <1>4, <1>5, <1>6, Assemble DEF TypeOK

\* Handing a connection to a thread, or forgetting it, changes no connection.
LEMMA ShareInv ==
  ASSUME IndInv, NEW t \in Tids, NEW u \in Tids, NEW c \in Conns,
         share(t, u, c) \/ forget(t, c)
  PROVE  IndInv'
<1>1. /\ TypeOK /\ UNCHANGED <<conn, wait, registry, current, stack, callback>>
      /\ held' \in [Conns -> SUBSET Tids]
  BY DEF share, forget, IndInv, TypeOK
<1> QED BY <1>1, AssembleSame DEF TypeOK

\* Neither does a thread that blocks elsewhere or ends.
LEMMA ThreadCallsInv ==
  ASSUME IndInv, NEW t \in Tids,
         connect_invalid(t) \/ (\E doing \in {"dns", "event"} : block(t, doing)) \/ finish(t)
  PROVE  IndInv'
<1>1. TypeOK
  BY DEF IndInv
<1>2. /\ Executes(t) /\ UNCHANGED <<conn, callback>> /\ registry' \in SUBSET Tids
      /\ held' \in [Conns -> SUBSET Tids]
  BY <1>1 DEF connect_invalid, block, finish, TypeOK
<1>3. PICK what \in Doing : Yield(t, what, Nothing)
  BY DEF connect_invalid, block, finish, Doing
<1>4. /\ wait' \in [Tids -> Doing \X (Conns \cup {Nothing})] /\ current' \in OptTid
      /\ stack' \in Seq(Frame) /\ \A d \in Conns : Framed(d, stack') <=> Framed(d, stack)
  BY <1>1, <1>2, <1>3, YieldLemma
<1> QED BY <1>1, <1>2, <1>4, AssembleSame DEF TypeOK

-----------------------------------------------------------------------------
(* The theorems *)

\* No connection is allocated initially.
LEMMA InitInv == Init => IndInv
<1> SUFFICES ASSUME Init PROVE IndInv
  OBVIOUS
<1>1. TypeOK
  BY NewTypes DEF Init, TypeOK, Doing, OptTid, Callback, NoCallback
<1>2. \A c \in Conns : conn[c] = Unallocated /\ callback # <<"on_write", c>>
  BY DEF Init, NoCallback
<1>3. Sound(Unallocated, FALSE)
  BY DEF Sound, RefsOf, Count, Unallocated, Handles
<1>4. AllSound
  <2> SUFFICES ASSUME NEW c \in Conns PROVE Sound(conn[c], callback = <<"on_write", c>>)
    BY DEF AllSound
  <2>1. (callback = <<"on_write", c>>) = FALSE /\ conn[c] = Unallocated
    BY <1>2
  <2> QED BY <1>3, <2>1
<1>5. FramesLive
  BY EmptyLemma DEF Init, FramesLive
<1>6. ClosedNamesNoThread
  <2>1. Unallocated.lua_reader_tid = NoTid /\ Unallocated.lua_writer_tid = NoTid
    BY DEF Unallocated
  <2> QED BY <1>2, <2>1 DEF ClosedNamesNoThread
<1> QED BY <1>1, <1>4, <1>5, <1>6 DEF IndInv

\* Every step of the loop, of a callback and of a thread preserves IndInv.
LEMMA NextInv == IndInv /\ [Next]_vars => IndInv'
<1> SUFFICES ASSUME IndInv, [Next]_vars PROVE IndInv'
  OBVIOUS
<1>1. CASE UNCHANGED vars
  <2>1. UNCHANGED <<conn, wait, registry, current, stack, callback, held>>
    BY <1>1 DEF vars
  <2> QED BY <2>1, AssembleSame DEF IndInv, TypeOK
<1>2. ASSUME NEW c \in Conns, LoopStep(c) PROVE IndInv'
  BY <1>2, OnServerConnectInv, OnReadInv, OnConnTimeoutInv, FreeHandleInv, OnWriteInv,
     OnClientConnectInv, ConnectionGCInv DEF LoopStep
<1>3. CASE ControlStep
  BY <1>3, UnblockInv, OnWriteReturnInv DEF ControlStep
<1>4. ASSUME NEW t \in Tids, NEW c \in Conns, CallStep(t, c) PROVE IndInv'
  <2>1. CASE \E ok \in BOOLEAN : start_reading(t, c, ok)
    <3>1. start_reading(t, c, TRUE) \/ start_reading(t, c, FALSE)
      BY <2>1
    <3> QED BY <3>1, StartReadingInv, CallCloseInv
  <2>2. CASE \/ new_connection_lua(t, c)
             \/ \E timeout \in BOOLEAN :
                  read(t, c, timeout) \/ write(t, c, timeout) \/ connect(t, c, timeout)
    BY <2>2, NewConnectionInv, ReadInv, WriteInv, ConnectInv
  <2>3. CASE read_inactive(t, c) \/ write_fails(t, c) \/ close_connection_lua(t, c)
    BY <2>3, CallCloseInv
  <2>4. CASE connect_fails(t, c)
    BY <2>4, ConnectFailsInv
  <2>5. CASE (\E u \in Tids : share(t, u, c)) \/ forget(t, c)
    BY <2>5, ShareInv
  <2> QED BY <1>4, <2>1, <2>2, <2>3, <2>4, <2>5 DEF CallStep
<1>5. ASSUME NEW t \in Tids, ThreadStep(t) PROVE IndInv'
  <2>1. CASE on_resolved(t)
    BY <2>1, OnResolvedInv
  <2>2. CASE connect_invalid(t) \/ (\E doing \in {"dns", "event"} : block(t, doing)) \/ finish(t)
    BY <2>2, ThreadCallsInv
  <2> QED BY <1>5, <2>1, <2>2 DEF ThreadStep
<1> QED BY <1>1, <1>2, <1>3, <1>4, <1>5, OnServerConnectFailsInv DEF Next

\* IndInv holds in every reachable state of luaw_tcp.c's model.
LEMMA IndInvariant == Spec => []IndInv
BY InitInv, NextInv, PTL DEF Spec

\* Every reachable state is well typed: no callback ever resumes tid 0, and no
\* counter of pending write callbacks goes negative.
THEOREM TypeCorrectness == Spec => []TypeOK
BY IndInvariant, PTL DEF IndInv

\* ref_count of a live connection is at least the number of references that
\* the userdata, the handles, a write request and a running on_write hold.
THEOREM RefCountsCover == Spec => []RefCountCovers
<1>1. IndInv => RefCountCovers
  BY DEF IndInv, AllSound, Sound, RefCountCovers, Refs
<1> QED BY <1>1, IndInvariant, PTL

\* No callback, handle, request, frame or userdata points to a connection_t
\* that has been freed (or was never allocated).
THEOREM MemorySafety == Spec => []NoUseAfterFree
<1>1. IndInv => NoUseAfterFree
  <2> SUFFICES ASSUME IndInv, NEW c \in Conns, conn[c].mem # "live"
               PROVE  /\ ~conn[c].lua_ref /\ \A h \in Handles : conn[c].uv[h] = "closed"
                      /\ ~conn[c].connect_req /\ ~(conn[c].writes > 0)
                      /\ callback # <<"on_write", c>>
                      /\ ~InSeq(<<"close_connection", c>>, stack)
    BY DEF NoUseAfterFree
  <2>1. conn[c] \in connection_t /\ Sound(conn[c], callback = <<"on_write", c>>) /\ ~Framed(c, stack)
    BY ConnFacts
  <2>2. RefsOf(conn[c], callback = <<"on_write", c>>) = 0
    BY <2>1 DEF Sound
  <2>3. /\ ~conn[c].lua_ref /\ \A h \in Handles : conn[c].uv[h] = "closed"
        /\ callback # <<"on_write", c>>
    BY <2>2 DEF RefsOf, Count, Handles
  <2>4. ~conn[c].connect_req /\ conn[c].writes = 0
    BY <2>1, <2>3 DEF Sound, Handles
  <2> QED BY <2>1, <2>3, <2>4 DEF Framed
<1> QED BY <1>1, IndInvariant, PTL

\* A connection that close_connection is through with names no thread.
THEOREM ClosedConnectionsAreQuiet == Spec => []ClosedNamesNoThread
BY IndInvariant, PTL DEF IndInv

-----------------------------------------------------------------------------
(***************************************************************************)
(* The server: threads service the connections the server accepted, do not *)
(* share them and open none of their own.  The invariant ties what a       *)
(* thread waits for to the thread ids in the connections, both ways.       *)
(***************************************************************************)

\* A thread waits for a connection exactly if the connection will resume it.
Waiting ==
  \A t \in Tids, c \in Conns :
    /\ wait[t] = <<"read", c>> <=> conn[c].lua_reader_tid = t
    /\ wait[t] = <<"write", c>> <=> conn[c].lua_writer_tid = t

\* A thread that waits for a connection can reach it, and no other thread can.
Holding ==
  \A t \in Tids, c \in Conns :
    wait[t] \in {<<"read", c>>, <<"write", c>>} => t \in held[c]

Alone == \A c \in Conns : \A t, u \in held[c] : t = u

\* Nobody connects, and who reads or writes does so on a connection.
NoConnects ==
  \A t \in Tids : /\ wait[t][1] # "connect"
                  /\ wait[t][1] \in {"read", "write"} => wait[t][2] \in Conns

Blocked == Waiting /\ Holding /\ Alone /\ NoConnects

\* The registry has the threads that have not ended; the running one is the
\* top of the stack, over frames of close_connection only.
Registered == \A t \in Tids : t \in registry <=> wait[t][1] # "free"

Running == \A t \in Tids : wait[t][1] = "running" <=> Executes(t)

OnTop == \A i \in 2 .. Len(stack) : stack[i] \notin {"thread"} \X Tids

CurrentExecutes == \A t \in Tids : Executes(t) => current = t

Scheduled == Registered /\ Running /\ OnTop /\ CurrentExecutes

\* A single connection_t: the count is exact, and an open connection with a
\* write under way names the thread that waits for it.
Exact(r, in_on_write) ==
  /\ r.mem = "live" => r.ref_count = RefsOf(r, in_on_write) /\ r.ref_count > 0
  /\ ~r.connect_req
  /\ r.writes = Count(r.write_data)
  /\ r.lua_ref /\ r.write_data => r.lua_writer_tid # NoTid

AllExact == \A c \in Conns : Exact(conn[c], callback = <<"on_write", c>>)

FramesClosed ==
  \A c \in Conns : InSeq(<<"close_connection", c>>, stack) => ~conn[c].lua_ref

ServerInv == Blocked /\ Scheduled /\ AllExact /\ FramesClosed

-----------------------------------------------------------------------------
(* Exact counts *)

\* The operators that only touch timers and the reader's id keep a count exact.
LEMMA ExactTouch ==
  ASSUME NEW r \in connection_t, NEW p \in BOOLEAN, Exact(r, p),
         NEW h \in Handles, NEW timeout \in BOOLEAN
  PROVE  /\ Exact(stop_timer(r, h), p)
         /\ Exact(start_timer(r, h, timeout), p)
         /\ Exact(read_done(r), p)
         /\ ~r.write_data => Exact(write_done(r), p)
         /\ r.lua_writer_tid = NoTid => Exact(forget_tids(r), p)
<1> USE DEF connection_t, HandleState, Handles, Exact, RefsOf, Count
<1>1. Exact(stop_timer(r, h), p)
  BY DEF stop_timer
<1>2. Exact(start_timer(r, h, timeout), p)
  BY DEF start_timer
<1>3. Exact(read_done(r), p)
  BY DEF read_done, stop_timer
<1>4. ~r.write_data => Exact(write_done(r), p)
  BY DEF write_done, stop_timer
<1>5. r.lua_writer_tid = NoTid => Exact(forget_tids(r), p)
  BY DEF forget_tids
<1> QED BY <1>1, <1>2, <1>3, <1>4, <1>5

\* Delinking an open connection leaves at least its three handles' references.
LEMMA ExactDelink ==
  ASSUME NEW r \in connection_t, NEW p \in BOOLEAN, Sound(r, p), Exact(r, p), r.lua_ref
  PROVE  Exact(delink(r), p)
BY DEF connection_t, HandleState, Handles, Sound, Exact, RefsOf, Count, IsClosing, delink

\* A new connection has its four references.
LEMMA ExactNew ==
  /\ Exact(new_connection, FALSE)
  /\ Exact([new_connection EXCEPT !.uv["handle"] = "idle"], FALSE)
BY DEF Exact, RefsOf, Count, Handles, new_connection

\* The request of a write on a connection without one is counted.
LEMMA ExactQueueWrite ==
  ASSUME NEW r \in connection_t, NEW p \in BOOLEAN, Exact(r, p), Sound(r, p), r.lua_ref,
         ~r.write_data, NEW tid \in Tids, tid # NoTid
  PROVE  Exact(queue_write(r, 1, tid), p)
BY DEF connection_t, HandleState, Handles, Sound, Exact, RefsOf, Count, IsClosing, queue_write

\* on_write finds the one request there is, and takes over its reference.
LEMMA ExactOnWrite ==
  ASSUME NEW r \in connection_t, Sound(r, FALSE), Exact(r, FALSE), r.writes > 0
  PROVE  LET s == [r EXCEPT !.writes = @ - 1, !.write_data = FALSE]
         IN  r.write_data /\ Exact(s, TRUE)
<1>1. r.write_data /\ r.writes = 1
  BY DEF Exact, Count, connection_t
<1>2. PICK n \in Nat : n = r.writes - 1
  BY <1>1
<1> DEFINE s == [r EXCEPT !.writes = n, !.write_data = FALSE]
<1>3. Exact(s, TRUE)
  BY <1>1, <1>2 DEF connection_t, HandleState, Handles, Sound, Exact, RefsOf, Count, IsClosing
<1> QED BY <1>1, <1>2, <1>3

\* The end of on_write drops the callback's reference.
LEMMA ExactOnWriteReturn ==
  ASSUME NEW r \in connection_t, Sound(r, TRUE), Exact(r, TRUE)
  PROVE  Exact(GC_REF(r), FALSE)
BY DEF connection_t, HandleState, Handles, Sound, Exact, RefsOf, Count, IsClosing, GC_REF

\* A close callback drops the handle's reference.
LEMMA ExactFreeHandle ==
  ASSUME NEW r \in connection_t, NEW p \in BOOLEAN, Sound(r, p), Exact(r, p), NEW h \in Handles,
         r.uv[h] = "closing"
  PROVE  Exact(GC_REF([r EXCEPT !.uv[h] = "closed"]), p)
<1> DEFINE s == [r EXCEPT !.uv[h] = "closed"]
<1>1. s \in connection_t
  BY DEF connection_t, HandleState
<1>2. /\ s.mem = r.mem /\ s.lua_ref = r.lua_ref /\ s.ref_count = r.ref_count
      /\ s.connect_req = r.connect_req /\ s.write_data = r.write_data
      /\ s.writes = r.writes /\ s.uv[h] = "closed"
      /\ s.lua_writer_tid = r.lua_writer_tid
      /\ \A k \in Handles \ {h} : s.uv[k] = r.uv[k]
  BY DEF connection_t
<1>3. r.mem = "live" /\ ~r.lua_ref
  BY DEF connection_t, HandleState, Handles, Sound, RefsOf, Count, IsClosing
<1>4. RefsOf(s, p) = RefsOf(r, p) - 1 /\ RefsOf(s, p) \in Nat /\ RefsOf(r, p) \in Nat
  BY <1>2 DEF connection_t, Handles, RefsOf, Count
<1>5. PICK g \in connection_t : g = GC_REF(s)
  BY <1>1, GCRefType
<1>6. /\ g.ref_count = s.ref_count - 1 /\ g.uv = s.uv /\ g.lua_ref = s.lua_ref
      /\ g.connect_req = s.connect_req /\ g.writes = s.writes
      /\ g.write_data = s.write_data
      /\ g.mem = IF s.ref_count - 1 <= 0 THEN "freed" ELSE s.mem
  BY <1>1, <1>5 DEF GC_REF, connection_t
<1>7. RefsOf(g, p) = RefsOf(s, p)
  BY <1>6 DEF RefsOf
<1>8. r.ref_count = RefsOf(r, p)
  BY <1>3 DEF Exact
<1>9. g.mem = "live" => g.ref_count = RefsOf(g, p) /\ g.ref_count > 0
  <2> HIDE DEF s
  <2> QED BY <1>2, <1>4, <1>6, <1>7, <1>8
<1>10. ~g.lua_ref /\ ~g.connect_req /\ g.writes = Count(g.write_data)
  BY <1>2, <1>3, <1>6 DEF Exact
<1>11. Exact(g, p)
  BY <1>9, <1>10 DEF Exact
<1> QED BY <1>5, <1>11

-----------------------------------------------------------------------------
(* What threads wait for *)

\* What WakeMatchesWait says of one step.
Matched ==
  \A t \in Tids : LET c == wait[t][2] IN
    wait'[t][1] = "running" =>
      /\ wait[t][1] = "read" =>
           conn[c].lua_reader_tid = t /\ conn'[c].lua_reader_tid = NoTid
      /\ wait[t][1] = "write" =>
           conn[c].lua_writer_tid = t /\ conn'[c].lua_writer_tid = NoTid
      /\ wait[t][1] = "connect" =>
           /\ c \in Conns
           /\ conn[c].lua_writer_tid = t
           /\ conn[c].connect_req # conn'[c].connect_req
                \/ conn'[c].lua_writer_tid = NoTid

\* A step that leaves every thread waiting wakes nobody.
LEMMA NobodyWakes ==
  ASSUME \A t \in Tids : wait'[t] = wait[t] \/ wait'[t][1] # "running"
                         \/ wait[t][1] \notin {"read", "write", "connect"}
  PROVE  Matched
BY DEF Matched

\* A step that changes one connection and what one thread waits for keeps
\* Waiting if the two agree afterwards.
LEMMA WaitingStep ==
  ASSUME Waiting, NEW c \in Conns, NEW t \in Tids,
         \A d \in Conns \ {c} : conn'[d] = conn[d],
         \A u \in Tids \ {t} : wait'[u] = wait[u],
         \A u \in Tids \ {t} : /\ conn'[c].lua_reader_tid = u <=> conn[c].lua_reader_tid = u
                               /\ conn'[c].lua_writer_tid = u <=> conn[c].lua_writer_tid = u,
         \A d \in Conns \ {c} : /\ conn[d].lua_reader_tid # t /\ conn[d].lua_writer_tid # t
                                /\ wait'[t] # <<"read", d>> /\ wait'[t] # <<"write", d>>,
         wait'[t] = <<"read", c>> <=> conn'[c].lua_reader_tid = t,
         wait'[t] = <<"write", c>> <=> conn'[c].lua_writer_tid = t
  PROVE  Waiting'
<1> SUFFICES ASSUME NEW u \in Tids, NEW d \in Conns
             PROVE  /\ wait'[u] = <<"read", d>> <=> conn'[d].lua_reader_tid = u
                    /\ wait'[u] = <<"write", d>> <=> conn'[d].lua_writer_tid = u
  BY DEF Waiting
<1>1. /\ wait[u] = <<"read", d>> <=> conn[d].lua_reader_tid = u
      /\ wait[u] = <<"write", d>> <=> conn[d].lua_writer_tid = u
  BY DEF Waiting
<1>2. CASE u = t /\ d = c
  BY <1>2
<1>3. CASE u = t /\ d # c
  <2>1. conn'[d] = conn[d] /\ wait'[u] = wait'[t]
    BY <1>3
  <2>2. /\ wait'[t] # <<"read", d>> /\ wait'[t] # <<"write", d>>
        /\ conn[d].lua_reader_tid # u /\ conn[d].lua_writer_tid # u
    BY <1>3
  <2> QED BY <2>1, <2>2
<1>4. CASE u # t /\ d = c
  BY <1>1, <1>4
<1>5. CASE u # t /\ d # c
  BY <1>1, <1>5
<1> QED BY <1>2, <1>3, <1>4, <1>5

\* A step that changes one connection but neither its thread ids nor what
\* any thread waits for keeps all of it.
LEMMA BlockedKeep ==
  ASSUME TypeOK, Blocked, NEW c \in Conns, NEW s \in connection_t,
         conn' = [conn EXCEPT ![c] = s], wait' = wait,
         s.lua_reader_tid = conn[c].lua_reader_tid,
         s.lua_writer_tid = conn[c].lua_writer_tid,
         held' = held
  PROVE  Blocked' /\ Matched
<1>1. \A d \in Conns : /\ conn'[d].lua_reader_tid = conn[d].lua_reader_tid
                       /\ conn'[d].lua_writer_tid = conn[d].lua_writer_tid
  BY DEF TypeOK
<1>2. Waiting'
  BY <1>1 DEF Blocked, Waiting
<1> QED BY <1>2, NobodyWakes DEF Blocked, Holding, Alone, NoConnects

\* Nobody waits for a connection that names no thread.
LEMMA NobodyWaits ==
  ASSUME Blocked, NoTid \notin Tids, NEW c \in Conns, NEW t \in Tids,
         conn[c].lua_reader_tid = NoTid, conn[c].lua_writer_tid = NoTid
  PROVE  wait[t] # <<"read", c>> /\ wait[t] # <<"write", c>>
BY DEF Blocked, Waiting

\* Such a connection may get another holder.
LEMMA BlockedHeld ==
  ASSUME TypeOK, Blocked, NoTid \notin Tids, NEW c \in Conns, NEW H \in SUBSET Tids,
         conn[c].lua_reader_tid = NoTid, conn[c].lua_writer_tid = NoTid,
         held' = [held EXCEPT ![c] = H], \A t, u \in H : t = u,
         NEW s \in connection_t, conn' = [conn EXCEPT ![c] = s],
         s.lua_reader_tid = NoTid, s.lua_writer_tid = NoTid,
         wait' = wait
  PROVE  Blocked' /\ Matched
<1>1. held'[c] = H /\ \A d \in Conns \ {c} : held'[d] = held[d]
  BY DEF TypeOK
<1>2. \A d \in Conns : /\ conn'[d].lua_reader_tid = conn[d].lua_reader_tid
                       /\ conn'[d].lua_writer_tid = conn[d].lua_writer_tid
  BY DEF TypeOK
<1>3. Waiting'
  BY <1>2 DEF Blocked, Waiting
<1>4. Holding'
  <2>1. \A t \in Tids : wait[t] # <<"read", c>> /\ wait[t] # <<"write", c>>
    BY DEF Blocked, Waiting
  <2> QED BY <1>1, <2>1 DEF Blocked, Holding
<1>5. Alone'
  BY <1>1 DEF Blocked, Alone
<1> QED BY <1>3, <1>4, <1>5, NobodyWakes DEF Blocked, NoConnects

\* A thread that waits for no connection changes to something else than
\* waiting for one.
LEMMA BlockedOther ==
  ASSUME TypeOK, Blocked, NEW t \in Tids, wait[t][1] \notin {"read", "write"},
         NEW doing \in {"free", "running", "event"}, NEW x,
         wait' = [wait EXCEPT ![t] = <<doing, x>>], conn' = conn, held' = held
  PROVE  Blocked' /\ Matched
<1>1. wait'[t] = <<doing, x>> /\ \A u \in Tids \ {t} : wait'[u] = wait[u]
  BY DEF TypeOK
<1>2. \A d \in Conns : /\ wait[t] # <<"read", d>> /\ wait[t] # <<"write", d>>
                       /\ wait'[t] # <<"read", d>> /\ wait'[t] # <<"write", d>>
  BY <1>1
<1>3. Waiting'
  BY <1>1, <1>2 DEF Blocked, Waiting
<1>4. Holding'
  BY <1>1, <1>2 DEF Blocked, Holding
<1>5. NoConnects'
  BY <1>1 DEF Blocked, NoConnects
<1>6. Matched
  BY <1>1, NobodyWakes DEF Blocked, NoConnects
<1> QED BY <1>3, <1>4, <1>5, <1>6 DEF Blocked, Alone

\* A connection resumes the thread it names and takes the name out.
LEMMA BlockedWake ==
  ASSUME TypeOK, Blocked, NoTid \notin Tids, NEW c \in Conns, NEW s \in connection_t, NEW t \in Tids,
         conn' = [conn EXCEPT ![c] = s],
         wait' = [wait EXCEPT ![t] = <<"running", Nothing>>], held' = held,
         \/ /\ conn[c].lua_reader_tid = t /\ s.lua_reader_tid = NoTid
            /\ s.lua_writer_tid = conn[c].lua_writer_tid
         \/ /\ conn[c].lua_writer_tid = t /\ s.lua_writer_tid = NoTid
            /\ s.lua_reader_tid = conn[c].lua_reader_tid
  PROVE  Blocked' /\ Matched
<1>1. wait'[t] = <<"running", Nothing>> /\ \A u \in Tids \ {t} : wait'[u] = wait[u]
  BY DEF TypeOK
<1>2. conn'[c] = s /\ \A d \in Conns \ {c} : conn'[d] = conn[d]
  BY DEF TypeOK
<1>3. \A d \in Conns : wait'[t] # <<"read", d>> /\ wait'[t] # <<"write", d>>
  BY <1>1
<1>4. wait[t] = <<"read", c>> \/ wait[t] = <<"write", c>>
  BY DEF Blocked, Waiting
<1>5. \A d \in Conns \ {c} : conn[d].lua_reader_tid # t /\ conn[d].lua_writer_tid # t
  BY <1>4 DEF Blocked, Waiting
<1>6. s.lua_reader_tid # t /\ s.lua_writer_tid # t
  <2>1. CASE conn[c].lua_reader_tid = t
    <3>1. conn[c].lua_writer_tid # t
      BY <2>1 DEF Blocked, Waiting
    <3> QED BY <2>1, <3>1
  <2>2. CASE conn[c].lua_writer_tid = t
    <3>1. conn[c].lua_reader_tid # t
      BY <2>2 DEF Blocked, Waiting
    <3> QED BY <2>2, <3>1
  <2> QED BY <2>1, <2>2
<1>7. \A u \in Tids \ {t} : /\ conn'[c].lua_reader_tid = u <=> conn[c].lua_reader_tid = u
                            /\ conn'[c].lua_writer_tid = u <=> conn[c].lua_writer_tid = u
  BY <1>2
<1>8. Waiting'
  BY <1>1, <1>2, <1>3, <1>5, <1>6, <1>7, WaitingStep DEF Blocked
<1>9. Holding'
  <2> SUFFICES ASSUME NEW u \in Tids, NEW d \in Conns, wait'[u] \in {<<"read", d>>, <<"write", d>>}
               PROVE  u \in held[d]
    BY DEF Holding
  <2>1. u # t
    BY <1>3
  <2> QED BY <1>1, <2>1 DEF Blocked, Holding
<1>10. NoConnects'
  BY <1>1 DEF Blocked, NoConnects
<1>11. Matched
  <2> SUFFICES ASSUME NEW u \in Tids, wait'[u][1] = "running"
               PROVE  /\ wait[u][1] = "read" => conn[wait[u][2]].lua_reader_tid = u
                                                 /\ conn'[wait[u][2]].lua_reader_tid = NoTid
                      /\ wait[u][1] = "write" => conn[wait[u][2]].lua_writer_tid = u
                                                  /\ conn'[wait[u][2]].lua_writer_tid = NoTid
                      /\ wait[u][1] # "connect"
    BY DEF Matched
  <2>1. CASE u # t
    BY <1>1, <2>1 DEF Blocked, NoConnects
  <2>2. CASE u = t /\ conn[c].lua_reader_tid = t
    <3>1. wait[u] = <<"read", c>>
      BY <2>2 DEF Blocked, Waiting
    <3>2. s.lua_reader_tid = NoTid
      BY <1>6, <2>2
    <3> QED BY <1>2, <2>2, <3>1, <3>2
  <2>3. CASE u = t /\ conn[c].lua_reader_tid # t
    <3>1. wait[u] = <<"write", c>> /\ conn[c].lua_writer_tid = t
      BY <2>3 DEF Blocked, Waiting
    <3>2. s.lua_writer_tid = NoTid
      BY <2>3
    <3> QED BY <1>2, <2>3, <3>1, <3>2
  <2> QED BY <2>1, <2>2, <2>3
<1> QED BY <1>8, <1>9, <1>10, <1>11 DEF Blocked, Alone

\* A thread that holds a connection which names nobody starts to wait for it.
LEMMA BlockedSleep ==
  ASSUME TypeOK, Blocked, NoTid \notin Tids, NEW c \in Conns, NEW s \in connection_t, NEW t \in Tids,
         NEW doing \in {"read", "write"},
         conn[c].lua_reader_tid = NoTid, conn[c].lua_writer_tid = NoTid, t \in held[c],
         wait[t][1] = "running",
         conn' = [conn EXCEPT ![c] = s],
         wait' = [wait EXCEPT ![t] = <<doing, c>>], held' = held,
         s.lua_reader_tid = IF doing = "read" THEN t ELSE NoTid,
         s.lua_writer_tid = IF doing = "write" THEN t ELSE NoTid
  PROVE  Blocked' /\ Matched
<1>1. wait'[t] = <<doing, c>> /\ \A u \in Tids \ {t} : wait'[u] = wait[u]
  BY DEF TypeOK
<1>2. conn'[c] = s /\ \A d \in Conns \ {c} : conn'[d] = conn[d]
  BY DEF TypeOK
<1>3. \A d \in Conns \ {c} : wait'[t] # <<"read", d>> /\ wait'[t] # <<"write", d>>
  BY <1>1
<1>4. wait'[t] = <<"read", c>> <=> conn'[c].lua_reader_tid = t
  BY <1>1, <1>2
<1>5. wait'[t] = <<"write", c>> <=> conn'[c].lua_writer_tid = t
  BY <1>1, <1>2
<1>6. \A d \in Conns : conn[d].lua_reader_tid # t /\ conn[d].lua_writer_tid # t
  BY DEF Blocked, Waiting
<1>7. \A u \in Tids \ {t} : /\ conn'[c].lua_reader_tid = u <=> conn[c].lua_reader_tid = u
                            /\ conn'[c].lua_writer_tid = u <=> conn[c].lua_writer_tid = u
  BY <1>2
<1>8. Waiting'
  BY <1>1, <1>2, <1>3, <1>4, <1>5, <1>6, <1>7, WaitingStep DEF Blocked
<1>9. Holding'
  BY <1>1 DEF Blocked, Holding
<1>10. NoConnects'
  BY <1>1 DEF Blocked, NoConnects
<1>11. Matched
  BY <1>1, NobodyWakes
<1> QED BY <1>8, <1>9, <1>10, <1>11 DEF Blocked, Alone

-----------------------------------------------------------------------------
(* Which thread runs *)

\* Below the top of the stack, and on it when no thread executes, there is
\* no thread.
LEMMA OnStackFacts ==
  ASSUME TypeOK, Scheduled
  PROVE  /\ \A t \in Tids : OnStack(t) => Executes(t)
         /\ \A t \in Tids : stack # <<>> => ~InSeq(<<"thread", t>>, Tail(stack))
<1>1. stack \in Seq(Frame)
  BY DEF TypeOK
<1>2. ASSUME NEW t \in Tids, OnStack(t) PROVE Executes(t)
  <2>1. PICK i \in 1 .. Len(stack) : stack[i] = <<"thread", t>>
    BY <1>2 DEF OnStack, InSeq
  <2>2. i = 1
    <3>1. <<"thread", t>> \in {"thread"} \X Tids
      OBVIOUS
    <3>2. i \notin 2 .. Len(stack)
      BY <2>1, <3>1 DEF Scheduled, OnTop
    <3> QED BY <1>1, <3>2
  <2>3. stack # <<>> /\ Head(stack) = stack[1]
    BY <1>1, <2>1
  <2> QED BY <2>1, <2>2, <2>3 DEF Executes
<1>3. ASSUME NEW t \in Tids, stack # <<>>, InSeq(<<"thread", t>>, Tail(stack)) PROVE FALSE
  <2>1. PICK i \in 1 .. Len(Tail(stack)) : Tail(stack)[i] = <<"thread", t>>
    BY <1>3 DEF InSeq
  <2>2. i + 1 \in 2 .. Len(stack) /\ stack[i + 1] = <<"thread", t>>
    BY <1>1, <1>3, <2>1
  <2>3. <<"thread", t>> \in {"thread"} \X Tids
    OBVIOUS
  <2> QED BY <2>2, <2>3 DEF Scheduled, OnTop
<1> QED BY <1>2, <1>3

\* A stack without threads, and with a thread put on top of it.
LEMMA NoThreadOnTop ==
  ASSUME NEW s \in Seq(Frame), \A u \in Tids : ~InSeq(<<"thread", u>>, s)
  PROVE  /\ \A i \in 1 .. Len(s) : s[i] \notin {"thread"} \X Tids
         /\ \A u \in Tids : ~(s # <<>> /\ Head(s) = <<"thread", u>>)
<1>1. ASSUME NEW i \in 1 .. Len(s) PROVE s[i] \notin {"thread"} \X Tids
  BY DEF InSeq
<1>2. ASSUME NEW u \in Tids, s # <<>>, Head(s) = <<"thread", u>> PROVE FALSE
  <2>1. 1 \in 1 .. Len(s) /\ s[1] = <<"thread", u>>
    BY <1>2
  <2> QED BY <2>1 DEF InSeq
<1> QED BY <1>1, <1>2

\* A thread that is registered, or becomes so, runs on a stack without threads.
LEMMA ScheduledRun ==
  ASSUME TypeOK, Scheduled, NEW t \in Tids, NEW below \in Seq(Frame), Run(t, below),
         \A u \in Tids : ~Executes(u), \A u \in Tids : ~InSeq(<<"thread", u>>, below),
         registry' = registry \cup {t}
  PROVE  Scheduled'
<1>1. /\ wait'[t] = <<"running", Nothing>> /\ \A u \in Tids \ {t} : wait'[u] = wait[u]
      /\ current' = t /\ stack' = <<<<"thread", t>>>> \o below
  BY DEF Run, TypeOK
<1>2. stack' # <<>> /\ Head(stack') = <<"thread", t>> /\ Len(stack') = Len(below) + 1
      /\ \A i \in 2 .. Len(stack') : stack'[i] = below[i - 1]
  BY <1>1
<1>3. \A u \in Tids : Executes(u)' <=> u = t
  BY <1>2 DEF Executes
<1>4. OnTop'
  <2> SUFFICES ASSUME NEW i \in 2 .. Len(stack') PROVE stack'[i] \notin {"thread"} \X Tids
    BY DEF OnTop
  <2>1. stack'[i] = below[i - 1] /\ i - 1 \in 1 .. Len(below)
    BY <1>2
  <2> QED BY <2>1, NoThreadOnTop
<1>5. Registered'
  BY <1>1 DEF Scheduled, Registered
<1>6. Running'
  BY <1>1, <1>3 DEF Scheduled, Running
<1>7. CurrentExecutes'
  BY <1>1, <1>3 DEF CurrentExecutes
<1> QED BY <1>4, <1>5, <1>6, <1>7 DEF Scheduled

\* A thread that yields or ends leaves a stack without threads.
LEMMA ScheduledYield ==
  ASSUME TypeOK, Scheduled, NEW t \in Tids, Executes(t), NEW doing, NEW x, Yield(t, doing, x),
         doing # "running",
         registry' = IF doing = "free" THEN registry \ {t} ELSE registry
  PROVE  Scheduled'
<1>1. /\ wait'[t] = <<doing, x>> /\ \A u \in Tids \ {t} : wait'[u] = wait[u]
      /\ stack' = Tail(stack) /\ stack # <<>>
  BY DEF Yield, TypeOK, Executes
<1>2. stack' \in Seq(Frame) /\ \A u \in Tids : ~InSeq(<<"thread", u>>, stack')
  BY <1>1, OnStackFacts DEF TypeOK
<1>3. \A i \in 1 .. Len(stack') : stack'[i] \notin {"thread"} \X Tids
  BY <1>2, NoThreadOnTop
<1>4. \A u \in Tids : ~Executes(u)'
  BY <1>2, NoThreadOnTop DEF Executes
<1>5. OnTop'
  BY <1>3 DEF OnTop
<1>6. t \in registry
  BY DEF Scheduled, Registered, Running
<1>7. \A u \in Tids \ {t} : ~Executes(u)
  BY DEF Executes
<1>8. Registered'
  BY <1>1, <1>6 DEF Scheduled, Registered
<1>9. Running'
  <2> SUFFICES ASSUME NEW u \in Tids PROVE wait'[u][1] # "running"
    BY <1>4 DEF Running
  <2>1. CASE u = t
    BY <1>1, <2>1
  <2>2. CASE u # t
    BY <1>1, <1>7, <2>2 DEF Scheduled, Running
  <2> QED BY <2>1, <2>2
<1>10. CurrentExecutes'
  BY <1>4 DEF CurrentExecutes
<1> QED BY <1>5, <1>8, <1>9, <1>10 DEF Scheduled

\* The stack changes while no thread is on it, before or after.
LEMMA ScheduledQuiet ==
  ASSUME Scheduled, UNCHANGED <<wait, registry>>, \A u \in Tids : ~Executes(u),
         stack' \in Seq(Frame), \A u \in Tids : ~InSeq(<<"thread", u>>, stack')
  PROVE  Scheduled'
<1>1. /\ \A i \in 1 .. Len(stack') : stack'[i] \notin {"thread"} \X Tids
      /\ \A u \in Tids : ~Executes(u)'
  BY NoThreadOnTop DEF Executes
<1>2. OnTop' /\ CurrentExecutes'
  BY <1>1 DEF OnTop, CurrentExecutes
<1>3. Registered' /\ Running'
  BY <1>1 DEF Scheduled, Registered, Running
<1> QED BY <1>2, <1>3 DEF Scheduled

\* Resuming a thread that waits, or nobody, on a stack without threads.
LEMMA ScheduledResume ==
  ASSUME TypeOK, Scheduled, NEW t \in OptTid, NEW below \in Seq(Frame),
         resume_lua_thread(t, below), NoTid \notin Tids,
         t # NoTid => wait[t][1] \notin {"free", "running"},
         \A u \in Tids : ~Executes(u), \A u \in Tids : ~InSeq(<<"thread", u>>, below)
  PROVE  /\ Scheduled'
         /\ registry' = registry
         /\ t = NoTid => stack' = below /\ wait' = wait
         /\ t # NoTid => t \in Tids /\ wait' = [wait EXCEPT ![t] = <<"running", Nothing>>]
<1>1. CASE t = NoTid
  <2>1. stack' = below /\ UNCHANGED <<wait, registry, current>>
    BY <1>1 DEF resume_lua_thread
  <2> QED BY <1>1, <2>1, ScheduledQuiet
<1>2. CASE t # NoTid
  <2>1. t \in Tids /\ t \in registry
    BY <1>2 DEF OptTid, Scheduled, Registered
  <2>2. ~OnStack(t)
    BY <2>1, OnStackFacts
  <2>3. Run(t, below) /\ registry' = registry
    BY <1>2, <2>1, <2>2 DEF resume_lua_thread
  <2>4. registry' = registry \cup {t}
    BY <2>1, <2>3
  <2>5. wait' = [wait EXCEPT ![t] = <<"running", Nothing>>]
    BY <2>3 DEF Run
  <2> QED BY <1>2, <2>1, <2>3, <2>4, <2>5, ScheduledRun
<1> QED BY <1>1, <1>2

-----------------------------------------------------------------------------
(* Putting the parts together *)

\* A step that changes one connection.
LEMMA ServerAssemble ==
  ASSUME IndInv, ServerInv, NEW c \in Conns, NEW s \in connection_t,
         conn' = [conn EXCEPT ![c] = s], Blocked', Scheduled',
         Exact(s, callback' = <<"on_write", c>>),
         \A d \in Conns \ {c} : (callback' = <<"on_write", d>>) <=> (callback = <<"on_write", d>>),
         \A d \in Conns \ {c} : Framed(d, stack') => Framed(d, stack),
         Framed(c, stack') => ~s.lua_ref
  PROVE  ServerInv'
<1>1. conn'[c] = s /\ \A d \in Conns \ {c} : conn'[d] = conn[d]
  BY DEF IndInv, TypeOK
<1>2. AllExact'
  <2> SUFFICES ASSUME NEW d \in Conns PROVE Exact(conn'[d], callback' = <<"on_write", d>>)
    BY DEF AllExact
  <2>1. CASE d = c
    BY <1>1, <2>1
  <2>2. CASE d # c
    <3>1. (callback' = <<"on_write", d>>) = (callback = <<"on_write", d>>)
      BY <2>2
    <3>2. Exact(conn[d], callback = <<"on_write", d>>)
      BY DEF ServerInv, AllExact
    <3> QED BY <1>1, <2>2, <3>1, <3>2
  <2> QED BY <2>1, <2>2
<1>3. FramesClosed'
  BY <1>1 DEF ServerInv, FramesClosed, Framed
<1> QED BY <1>2, <1>3 DEF ServerInv

\* A step that changes none.
LEMMA ServerAssembleSame ==
  ASSUME ServerInv, conn' = conn, callback' = callback, Blocked', Scheduled',
         \A d \in Conns : Framed(d, stack') => Framed(d, stack)
  PROVE  ServerInv'
<1>1. AllExact'
  BY DEF ServerInv, AllExact
<1>2. FramesClosed'
  BY DEF ServerInv, FramesClosed, Framed
<1> QED BY <1>1, <1>2 DEF ServerInv

\* What the invariant says of one connection.
LEMMA ServerFacts ==
  ASSUME IndInv, ServerInv, NEW c \in Conns
  PROVE  /\ Exact(conn[c], callback = <<"on_write", c>>)
         /\ Framed(c, stack) => ~conn[c].lua_ref
         /\ TypeOK /\ Blocked /\ Scheduled
         /\ NoTid \notin Tids
BY ConnAssumption DEF IndInv, ServerInv, AllExact, FramesClosed, Framed

\* When the stack is empty no thread runs.
LEMMA NoThreadRuns ==
  ASSUME stack = <<>>, NEW t \in Tids PROVE ~Executes(t) /\ ~InSeq(<<"thread", t>>, <<>>)
BY EmptyLemma DEF Executes

\* The thread a connection names waits for it.
LEMMA NamedWaits ==
  ASSUME IndInv, ServerInv, NEW c \in Conns
  PROVE  /\ conn[c].lua_reader_tid # NoTid => wait[conn[c].lua_reader_tid] = <<"read", c>>
                                              /\ conn[c].lua_reader_tid \in Tids
         /\ conn[c].lua_writer_tid # NoTid => wait[conn[c].lua_writer_tid] = <<"write", c>>
                                              /\ conn[c].lua_writer_tid \in Tids
<1>1. conn[c].lua_reader_tid \in OptTid /\ conn[c].lua_writer_tid \in OptTid
  BY ConnFacts DEF connection_t
<1> QED BY <1>1 DEF OptTid, ServerInv, Blocked, Waiting

\* A connection names nobody while a thread uses it, ...
LEMMA QuietInUse ==
  ASSUME IndInv, ServerInv, NEW c \in Conns, NEW t \in Tids, Uses(t, c)
  PROVE  /\ conn[c].lua_reader_tid = NoTid /\ conn[c].lua_writer_tid = NoTid
         /\ ~conn[c].write_data /\ wait[t][1] = "running" /\ current = t /\ ~Framed(c, stack)
<1>1. wait[t][1] = "running" /\ current = t /\ t \in held[c] /\ conn[c].lua_ref
  BY DEF Uses, ServerInv, Scheduled, Running, CurrentExecutes
<1>2. ASSUME NEW u \in Tids, wait[u] \in {<<"read", c>>, <<"write", c>>} PROVE FALSE
  <2>1. u \in held[c]
    BY <1>2 DEF ServerInv, Blocked, Holding
  <2>2. u = t
    BY <1>1, <2>1 DEF ServerInv, Blocked, Alone
  <2> QED BY <1>1, <1>2, <2>2
<1>3. conn[c].lua_reader_tid = NoTid /\ conn[c].lua_writer_tid = NoTid
  BY <1>2, NamedWaits
<1>4. ~conn[c].write_data /\ ~Framed(c, stack)
  BY <1>1, <1>3, ServerFacts DEF Exact
<1> QED BY <1>1, <1>3, <1>4

\* ... when no thread can reach it, ...
LEMMA QuietUnreachable ==
  ASSUME IndInv, ServerInv, NEW c \in Conns, held[c] = {}
  PROVE  conn[c].lua_reader_tid = NoTid /\ conn[c].lua_writer_tid = NoTid
<1>1. ASSUME NEW u \in Tids, wait[u] \in {<<"read", c>>, <<"write", c>>} PROVE FALSE
  BY <1>1 DEF ServerInv, Blocked, Holding
<1> QED BY <1>1, NamedWaits

\* ... and before it is allocated.
LEMMA QuietUnallocated ==
  ASSUME IndInv, NEW c \in Conns, conn[c].mem = "none"
  PROVE  conn[c].lua_reader_tid = NoTid /\ conn[c].lua_writer_tid = NoTid
<1>1. conn[c] \in connection_t /\ RefsOf(conn[c], callback = <<"on_write", c>>) = 0
  BY ConnFacts DEF Sound
<1>2. ~conn[c].lua_ref
  BY <1>1 DEF RefsOf, Count, connection_t
<1> QED BY <1>2, ConnFacts, UnallocatedFacts

-----------------------------------------------------------------------------
(* close_connection *)

Closing(c, below) == <<<<"close_connection", c>>>> \o below

\* What close_connection leaves of a connection whose count is exact.
LEMMA ServerClose ==
  ASSUME NEW c \in Conns, NEW r \in connection_t, NEW below \in Seq(Frame),
         NEW p \in BOOLEAN, Sound(r, p), Exact(r, p), close_connection(c, r, below)
  PROVE  \E s \in connection_t :
           /\ conn' = [conn EXCEPT ![c] = s] /\ Exact(s, p) /\ ~s.lua_ref
           /\ s.lua_reader_tid = r.lua_reader_tid /\ s.lua_writer_tid = r.lua_writer_tid
           /\ stack' = below \/ stack' = Closing(c, below)
           /\ r.lua_reader_tid = NoTid /\ r.lua_writer_tid = NoTid => stack' = below
<1>1. CASE ~r.lua_ref
  BY <1>1 DEF close_connection
<1>2. CASE r.lua_ref
  <2> DEFINE s == delink(r)
  <2>1. s \in connection_t /\ Exact(s, p)
    BY <1>2, DelinkType, ExactDelink
  <2>2. s.lua_reader_tid = r.lua_reader_tid /\ s.lua_writer_tid = r.lua_writer_tid /\ ~s.lua_ref
    BY DEF delink, connection_t
  <2>3. /\ conn' = [conn EXCEPT ![c] = s]
        /\ stack' = below \/ stack' = Closing(c, below)
        /\ r.lua_reader_tid = NoTid /\ r.lua_writer_tid = NoTid => stack' = below
    BY <1>2 DEF close_connection, Closing
  <2> HIDE DEF s
  <2> QED BY <2>1, <2>2, <2>3
<1> QED BY <1>1, <1>2

\* The loop closes a connection: its frame is all there is on the stack.
LEMMA CloseFromLoop ==
  ASSUME IndInv, ServerInv, NEW c \in Conns, NEW r \in connection_t, stack = <<>>,
         close_connection(c, r, <<>>), UNCHANGED <<wait, registry, held>>,
         Sound(r, callback' = <<"on_write", c>>), Exact(r, callback' = <<"on_write", c>>),
         r.lua_reader_tid = conn[c].lua_reader_tid, r.lua_writer_tid = conn[c].lua_writer_tid,
         \A d \in Conns \ {c} : (callback' = <<"on_write", d>>) <=> (callback = <<"on_write", d>>)
  PROVE  ServerInv' /\ Matched
<1> DEFINE p == callback' = <<"on_write", c>>
<1>1. PICK s \in connection_t :
        /\ conn' = [conn EXCEPT ![c] = s] /\ Exact(s, p) /\ ~s.lua_ref
        /\ s.lua_reader_tid = r.lua_reader_tid /\ s.lua_writer_tid = r.lua_writer_tid
        /\ stack' = stack \/ stack' = Closing(c, stack)
        /\ r.lua_reader_tid = NoTid /\ r.lua_writer_tid = NoTid => stack' = stack
  <2>1. p \in BOOLEAN /\ Sound(r, p) /\ Exact(r, p)
    OBVIOUS
  <2>2. close_connection(c, r, stack) /\ stack \in Seq(Frame)
    OBVIOUS
  <2> HIDE DEF p
  <2> QED BY ONLY <2>1, <2>2, ServerClose, c \in Conns, r \in connection_t
<1>2. Blocked' /\ Matched
  BY <1>1, BlockedKeep, ServerFacts
<1>3. /\ stack' \in Seq(Frame) /\ \A u \in Tids : ~InSeq(<<"thread", u>>, stack')
      /\ \A d \in Conns \ {c} : ~Framed(d, stack')
  <2>1. <<"close_connection", c>> \in Frame /\ <<>> \in Seq(Frame)
    BY DEF Frame
  <2>2. CASE stack' = <<>>
    BY <2>1, <2>2, EmptyLemma DEF Framed
  <2>3. CASE stack' = Closing(c, <<>>)
    <3>1. stack' \in Seq(Frame) /\ \A g : InSeq(g, stack') <=> (g = <<"close_connection", c>> \/ InSeq(g, <<>>))
      BY <2>1, <2>3, PushLemma DEF Closing
    <3> QED BY <3>1, EmptyLemma DEF Framed
  <2> QED BY <1>1, <2>2, <2>3
<1>4. Scheduled'
  BY <1>3, ScheduledQuiet, NoThreadRuns, ServerFacts
<1>5. Exact(s, callback' = <<"on_write", c>>)
  BY <1>1
<1> HIDE DEF p
<1> QED BY <1>1, <1>2, <1>3, <1>4, <1>5, ServerAssemble

\* A connection that names nobody is closed without a frame.
LEMMA CloseQuietly ==
  ASSUME IndInv, ServerInv, NEW c \in Conns, NEW r \in connection_t,
         close_connection(c, r, stack), UNCHANGED <<wait, registry, current, callback, held>>,
         Sound(r, callback = <<"on_write", c>>), Exact(r, callback = <<"on_write", c>>),
         conn[c].lua_reader_tid = NoTid, conn[c].lua_writer_tid = NoTid,
         r.lua_reader_tid = NoTid, r.lua_writer_tid = NoTid
  PROVE  ServerInv' /\ Matched
<1> DEFINE p == callback = <<"on_write", c>>
<1>1. PICK s \in connection_t :
        /\ conn' = [conn EXCEPT ![c] = s] /\ Exact(s, p) /\ ~s.lua_ref
        /\ s.lua_reader_tid = r.lua_reader_tid /\ s.lua_writer_tid = r.lua_writer_tid
        /\ stack' = stack \/ stack' = Closing(c, stack)
        /\ r.lua_reader_tid = NoTid /\ r.lua_writer_tid = NoTid => stack' = stack
  <2>1. p \in BOOLEAN /\ Sound(r, p) /\ Exact(r, p) /\ stack \in Seq(Frame)
    BY DEF IndInv, TypeOK
  <2> HIDE DEF p
  <2> QED BY <2>1, ServerClose
<1>2. Blocked' /\ Matched
  BY <1>1, BlockedKeep, ServerFacts
<1>3. Scheduled'
  BY <1>1 DEF ServerInv, Scheduled, Registered, Running, OnTop, CurrentExecutes, Executes
<1>4. Exact(s, callback' = <<"on_write", c>>)
  BY <1>1
<1> HIDE DEF p
<1> QED BY <1>1, <1>2, <1>3, <1>4, ServerAssemble, ServerFacts

-----------------------------------------------------------------------------
(* The libuv callbacks of a server *)

\* on_server_connect starts a thread that alone holds the new connection.
LEMMA OnServerConnectServer ==
  ASSUME IndInv, ServerInv, NEW c \in Conns, NEW t \in Tids, NEW accepted \in BOOLEAN,
         on_server_connect(c, t, accepted)
  PROVE  ServerInv' /\ Matched
<1>1. Idle /\ callback' = callback /\ conn[c].mem = "none" /\ stack = <<>>
  BY DEF on_server_connect, Idle
<1>2. conn[c].lua_reader_tid = NoTid /\ conn[c].lua_writer_tid = NoTid
  BY <1>1, QuietUnallocated
<1>3. (callback' = <<"on_write", c>>) = FALSE
  BY <1>1, IdleFacts
<1>4. Fresh(new_connection) /\ Fresh([new_connection EXCEPT !.uv["handle"] = "idle"])
  BY SoundNew DEF OptTid
<1>5. CASE accepted
  <2> DEFINE s == [new_connection EXCEPT !.uv["handle"] = "idle"]
  <2>1. /\ conn' = [conn EXCEPT ![c] = s] /\ Run(t, <<>>) /\ wait[t][1] = "free"
        /\ registry' = registry \cup {t} /\ held' = [held EXCEPT ![c] = {t}]
    BY <1>5 DEF on_server_connect
  <2>2. s \in connection_t /\ s.lua_reader_tid = NoTid /\ s.lua_writer_tid = NoTid
    BY <1>4 DEF Fresh, new_connection
  <2>3. Exact(s, callback' = <<"on_write", c>>)
    BY <1>3, ExactNew
  <2> HIDE DEF s
  <2>4. <<>> \in Seq(Frame) /\ \A u \in Tids : ~Executes(u) /\ ~InSeq(<<"thread", u>>, <<>>)
    BY <1>1, NoThreadRuns
  <2>5. Scheduled'
    BY <2>1, <2>4, ScheduledRun, ServerFacts
  <2>6. wait'[t] = <<"running", Nothing>> /\ \A u \in Tids \ {t} : wait'[u] = wait[u]
    BY <2>1 DEF Run, IndInv, TypeOK
  <2>7. held'[c] = {t} /\ \A d \in Conns \ {c} : held'[d] = held[d]
    BY <2>1 DEF IndInv, TypeOK
  <2>8. \A d \in Conns : /\ conn'[d].lua_reader_tid = conn[d].lua_reader_tid
                         /\ conn'[d].lua_writer_tid = conn[d].lua_writer_tid
    BY <1>2, <2>1, <2>2 DEF IndInv, TypeOK
  <2>9. \A d \in Conns : /\ wait[t] # <<"read", d>> /\ wait[t] # <<"write", d>>
                         /\ wait'[t] # <<"read", d>> /\ wait'[t] # <<"write", d>>
    BY <2>1, <2>6
  <2>10. Waiting'
    BY <2>6, <2>8, <2>9 DEF ServerInv, Blocked, Waiting
  <2>11. Holding'
    <3> SUFFICES ASSUME NEW u \in Tids, NEW d \in Conns, wait'[u] \in {<<"read", d>>, <<"write", d>>}
                 PROVE  u \in held'[d]
      BY DEF Holding
    <3>1. u # t /\ wait[u] \in {<<"read", d>>, <<"write", d>>}
      BY <2>6, <2>9
    <3>2. d # c
      BY <1>2, <3>1, NobodyWaits, ServerFacts
    <3> QED BY <2>7, <3>1, <3>2 DEF ServerInv, Blocked, Holding
  <2>12. Alone'
    BY <2>7 DEF ServerInv, Blocked, Alone
  <2>13. NoConnects'
    BY <2>6 DEF ServerInv, Blocked, NoConnects
  <2>14. Matched
    BY <2>1, <2>6, NobodyWakes
  <2>15. stack' = <<<<"thread", t>>>> \o <<>>
    BY <2>1 DEF Run
  <2>16. \A d \in Conns : ~Framed(d, stack')
    <3>1. \A g : InSeq(g, stack') <=> (g = <<"thread", t>> \/ InSeq(g, <<>>))
      BY <2>15, <2>4, PushLemma DEF Frame
    <3> QED BY <3>1, EmptyLemma DEF Framed
  <2>17. Blocked'
    BY <2>10, <2>11, <2>12, <2>13 DEF Blocked
  <2> QED BY <1>1, <2>1, <2>2, <2>3, <2>5, <2>14, <2>16, <2>17, ServerAssemble, ServerFacts
<1>6. CASE ~accepted
  <2>1. close_connection(c, new_connection, <<>>) /\ UNCHANGED <<wait, registry, held>>
    BY <1>6 DEF on_server_connect
  <2>2. new_connection.lua_reader_tid = NoTid /\ new_connection.lua_writer_tid = NoTid
    BY DEF new_connection
  <2>3. /\ Sound(new_connection, callback' = <<"on_write", c>>)
        /\ Exact(new_connection, callback' = <<"on_write", c>>)
    BY <1>3, <1>4, ExactNew DEF Fresh
  <2> QED BY <1>1, <1>2, <1>4, <2>1, <2>2, <2>3, CloseFromLoop, ServerFacts DEF Fresh
<1> QED BY <1>5, <1>6

\* A connection resumes the thread it names, if any, from the loop.
LEMMA WakeFromLoop ==
  ASSUME IndInv, ServerInv, NEW c \in Conns, NEW s \in connection_t, stack = <<>>,
         NEW t \in OptTid, resume_lua_thread(t, <<>>),
         conn' = [conn EXCEPT ![c] = s], held' = held,
         \/ /\ conn[c].lua_reader_tid = t /\ s.lua_reader_tid = NoTid
            /\ s.lua_writer_tid = conn[c].lua_writer_tid
         \/ /\ conn[c].lua_writer_tid = t /\ s.lua_writer_tid = NoTid
            /\ s.lua_reader_tid = conn[c].lua_reader_tid,
         Exact(s, callback' = <<"on_write", c>>),
         \A d \in Conns \ {c} : (callback' = <<"on_write", d>>) <=> (callback = <<"on_write", d>>)
  PROVE  ServerInv' /\ Matched
<1>0. conn[c].lua_reader_tid = t \/ conn[c].lua_writer_tid = t
  OBVIOUS
<1>1. t # NoTid => wait[t] \in {<<"read", c>>, <<"write", c>>} /\ t \in Tids
  BY ONLY IndInv, ServerInv, c \in Conns, t \in OptTid, <1>0, NamedWaits DEF OptTid
<1>2. t # NoTid => wait[t][1] \notin {"free", "running"}
  BY <1>1
<1>3. <<>> \in Seq(Frame) /\ \A u \in Tids : ~Executes(u) /\ ~InSeq(<<"thread", u>>, <<>>)
  BY NoThreadRuns
<1>4. /\ Scheduled' /\ registry' = registry
      /\ t = NoTid => stack' = <<>> /\ wait' = wait
      /\ t # NoTid => t \in Tids /\ wait' = [wait EXCEPT ![t] = <<"running", Nothing>>]
  BY <1>2, <1>3, ScheduledResume, ServerFacts
<1>5. Blocked' /\ Matched
  <2>1. CASE t = NoTid
    BY <1>4, <2>1, BlockedKeep, ServerFacts
  <2>2. CASE t # NoTid
    BY <1>4, <2>2, BlockedWake, ServerFacts
  <2> QED BY <2>1, <2>2
<1>6. \A d \in Conns : ~Framed(d, stack')
  BY <1>3, ResumeLemma, EmptyLemma DEF IndInv, Framed
<1> QED BY <1>4, <1>5, <1>6, ServerAssemble

\* The three outcomes of on_read.
LEMMA OnReadServer ==
  ASSUME IndInv, ServerInv, NEW c \in Conns, on_read_data(c) \/ on_read_nothing(c) \/ on_read_end(c)
  PROVE  ServerInv' /\ Matched
<1>0. Idle /\ stack = <<>> /\ callback' = callback /\ held' = held
  BY DEF on_read_data, on_read_nothing, on_read_end, Idle
<1>1. (callback' = <<"on_write", c>>) = FALSE /\ (callback = <<"on_write", c>>) = FALSE
  BY <1>0, IdleFacts
<1>2. conn[c] \in connection_t /\ Sound(conn[c], FALSE) /\ Exact(conn[c], FALSE)
  BY <1>1, ConnFacts, ServerFacts
<1>3. "read_timer" \in Handles
  BY DEF Handles
<1>4. CASE on_read_data(c)
  <2> DEFINE s == read_done(conn[c])
  <2>1. conn' = [conn EXCEPT ![c] = s] /\ resume_lua_thread(conn[c].lua_reader_tid, <<>>)
    BY <1>4 DEF on_read_data
  <2>2. s \in connection_t /\ Exact(s, FALSE)
    BY <1>2, <1>3, ExactTouch, TouchTypes
  <2>3. s.lua_reader_tid = NoTid /\ s.lua_writer_tid = conn[c].lua_writer_tid
    BY <1>2 DEF read_done, stop_timer, connection_t
  <2>4. conn[c].lua_reader_tid \in OptTid
    BY <1>2 DEF connection_t
  <2>5. Exact(s, callback' = <<"on_write", c>>)
    BY <1>1, <2>2
  <2> HIDE DEF s
  <2> QED BY <1>0, <2>1, <2>2, <2>3, <2>4, <2>5, WakeFromLoop, ServerFacts
<1> DEFINE s == stop_timer(conn[c], "read_timer")
<1>5. s \in connection_t /\ Sound(s, FALSE) /\ Exact(s, FALSE)
  BY <1>2, <1>3, SoundTouch, ExactTouch, TouchTypes
<1>6. s.lua_reader_tid = conn[c].lua_reader_tid /\ s.lua_writer_tid = conn[c].lua_writer_tid
  BY <1>2 DEF stop_timer, connection_t
<1>7. Sound(s, callback' = <<"on_write", c>>) /\ Exact(s, callback' = <<"on_write", c>>)
  BY <1>1, <1>5
<1>8. CASE on_read_nothing(c)
  <2>1. conn' = [conn EXCEPT ![c] = s] /\ UNCHANGED <<wait, registry, current, stack>>
    BY <1>8 DEF on_read_nothing
  <2> HIDE DEF s
  <2>2. Blocked' /\ Matched
    BY <1>0, <1>5, <1>6, <2>1, BlockedKeep, ServerFacts
  <2>3. Scheduled'
    BY <2>1 DEF ServerInv, Scheduled, Registered, Running, OnTop, CurrentExecutes, Executes
  <2>4. \A d \in Conns : ~Framed(d, stack')
    BY <1>0, <2>1, EmptyLemma DEF Framed
  <2> QED BY <1>0, <1>5, <1>7, <2>1, <2>2, <2>3, <2>4, ServerAssemble, ServerFacts
<1>9. CASE on_read_end(c)
  <2>1. close_connection(c, s, <<>>) /\ UNCHANGED <<wait, registry, current>>
    BY <1>9 DEF on_read_end
  <2> HIDE DEF s
  <2> QED BY <1>0, <1>5, <1>6, <1>7, <2>1, CloseFromLoop, ServerFacts
<1> QED BY <1>4, <1>8, <1>9

\* A timeout closes the connection and leaves its thread ids to be resumed.
LEMMA OnConnTimeoutServer ==
  ASSUME IndInv, ServerInv, NEW c \in Conns, NEW h \in Handles, on_conn_timeout(c, h)
  PROVE  ServerInv' /\ Matched
<1>1. Idle /\ stack = <<>> /\ UNCHANGED <<wait, registry, current, callback, held>>
  BY DEF on_conn_timeout, Idle
<1>2. (callback' = <<"on_write", c>>) = FALSE /\ (callback = <<"on_write", c>>) = FALSE
  BY <1>1, IdleFacts
<1> DEFINE s == stop_timer(conn[c], h)
<1>3. close_connection(c, s, <<>>)
  BY DEF on_conn_timeout
<1>4. conn[c] \in connection_t /\ Sound(conn[c], FALSE) /\ Exact(conn[c], FALSE)
  BY <1>2, ConnFacts, ServerFacts
<1>5. s \in connection_t /\ Sound(s, FALSE) /\ Exact(s, FALSE)
  BY <1>4, SoundTouch, ExactTouch, TouchTypes
<1>6. s.lua_reader_tid = conn[c].lua_reader_tid /\ s.lua_writer_tid = conn[c].lua_writer_tid
  BY <1>4 DEF stop_timer, connection_t
<1>7. Sound(s, callback' = <<"on_write", c>>) /\ Exact(s, callback' = <<"on_write", c>>)
  BY <1>2, <1>5
<1> HIDE DEF s
<1> QED BY <1>1, <1>3, <1>5, <1>6, <1>7, CloseFromLoop, ServerFacts

\* on_write finds its request, resumes the writer or closes the connection.
LEMMA OnWriteServer ==
  ASSUME IndInv, ServerInv, NEW c \in Conns, NEW ok \in BOOLEAN, on_write(c, ok)
  PROVE  ServerInv' /\ Matched
<1> DEFINE r == [conn[c] EXCEPT !.writes = @ - 1, !.write_data = FALSE]
<1>1. Idle /\ stack = <<>> /\ held' = held /\ conn[c].writes > 0
  BY DEF on_write, Idle
<1>2. (callback = <<"on_write", c>>) = FALSE
  BY <1>1, IdleFacts
<1>3. conn[c] \in connection_t /\ Sound(conn[c], FALSE) /\ Exact(conn[c], FALSE)
  BY <1>2, ConnFacts, ServerFacts
<1>4. conn[c].write_data /\ Exact(r, TRUE)
  BY <1>1, <1>3, ExactOnWrite
<1>5. r \in connection_t /\ Sound(r, TRUE)
  BY <1>1, <1>3, <1>4, SoundOnWrite
<1>6. /\ r.lua_reader_tid = conn[c].lua_reader_tid /\ ~r.write_data
      /\ r.lua_writer_tid = conn[c].lua_writer_tid
  BY <1>3 DEF connection_t
<1>7. callback' = <<"on_write", c>>
  BY <1>4 DEF on_write
<1>8. /\ (callback' = <<"on_write", c>>) = TRUE
      /\ \A d \in Conns \ {c} : (callback' = <<"on_write", d>>) <=> (callback = <<"on_write", d>>)
  BY <1>1, <1>7, IdleFacts
<1>9. CASE ~ok
  <2>1. close_connection(c, r, <<>>) /\ UNCHANGED <<wait, registry, current>>
    BY <1>4, <1>9 DEF on_write
  <2>2. Sound(r, callback' = <<"on_write", c>>) /\ Exact(r, callback' = <<"on_write", c>>)
    BY <1>4, <1>5, <1>8
  <2> HIDE DEF r
  <2> QED BY <1>1, <1>5, <1>6, <1>8, <2>1, <2>2, CloseFromLoop
<1>10. CASE ok
  <2> DEFINE s == write_done(r)
  <2>1. conn' = [conn EXCEPT ![c] = s] /\ resume_lua_thread(conn[c].lua_writer_tid, <<>>)
    BY <1>4, <1>10 DEF on_write
  <2> HIDE DEF r
  <2>2. s \in connection_t /\ Exact(s, TRUE)
    BY <1>4, <1>5, <1>6, ExactTouch, TouchTypes DEF Handles
  <2>3. s.lua_reader_tid = conn[c].lua_reader_tid /\ s.lua_writer_tid = NoTid
    BY <1>5, <1>6 DEF write_done, stop_timer, connection_t
  <2>4. conn[c].lua_writer_tid \in OptTid
    BY <1>3 DEF connection_t
  <2>5. Exact(s, callback' = <<"on_write", c>>)
    BY <1>8, <2>2
  <2> HIDE DEF s
  <2> QED BY <1>1, <1>8, <2>1, <2>2, <2>3, <2>4, <2>5, WakeFromLoop
<1> QED BY <1>9, <1>10

\* Steps of the loop that resume nobody and keep a connection's thread ids.
LEMMA QuietLoopStep ==
  ASSUME IndInv, ServerInv, NEW c \in Conns, NEW s \in connection_t, stack = <<>>,
         conn' = [conn EXCEPT ![c] = s], UNCHANGED <<wait, registry, current, stack, held>>,
         s.lua_reader_tid = conn[c].lua_reader_tid, s.lua_writer_tid = conn[c].lua_writer_tid,
         Exact(s, callback' = <<"on_write", c>>),
         \A d \in Conns \ {c} : (callback' = <<"on_write", d>>) <=> (callback = <<"on_write", d>>)
  PROVE  ServerInv' /\ Matched
<1>1. Blocked' /\ Matched
  BY BlockedKeep, ServerFacts
<1>2. Scheduled'
  BY DEF ServerInv, Scheduled, Registered, Running, OnTop, CurrentExecutes, Executes
<1>3. \A d \in Conns : ~Framed(d, stack')
  BY EmptyLemma DEF Framed
<1> QED BY <1>1, <1>2, <1>3, ServerAssemble

\* The end of on_write.
LEMMA OnWriteReturnServer ==
  ASSUME IndInv, ServerInv, NEW c \in Conns, on_write_return(c)
  PROVE  ServerInv' /\ Matched
<1> DEFINE s == GC_REF(conn[c])
<1>1. /\ stack = <<>> /\ callback = <<"on_write", c>> /\ callback' = NoCallback
      /\ conn' = [conn EXCEPT ![c] = s] /\ UNCHANGED <<wait, registry, current, stack, held>>
  BY DEF on_write_return
<1>2. (callback = <<"on_write", c>>) = TRUE /\ (callback' = <<"on_write", c>>) = FALSE
  BY <1>1 DEF NoCallback
<1>3. conn[c] \in connection_t /\ Sound(conn[c], TRUE) /\ Exact(conn[c], TRUE)
  BY <1>2, ConnFacts, ServerFacts
<1>4. s \in connection_t /\ Exact(s, FALSE)
  BY <1>3, GCRefType, ExactOnWriteReturn
<1>5. s.lua_reader_tid = conn[c].lua_reader_tid /\ s.lua_writer_tid = conn[c].lua_writer_tid
  BY <1>3 DEF GC_REF, connection_t
<1>6. \A d \in Conns \ {c} : callback' # <<"on_write", d>> /\ callback # <<"on_write", d>>
  BY <1>1 DEF NoCallback
<1>7. Exact(s, callback' = <<"on_write", c>>)
  BY <1>2, <1>4
<1> HIDE DEF s
<1> QED BY <1>1, <1>4, <1>5, <1>6, <1>7, QuietLoopStep

\* A close callback.
LEMMA FreeHandleServer ==
  ASSUME IndInv, ServerInv, NEW c \in Conns, NEW h \in Handles, free_handle(c, h)
  PROVE  ServerInv' /\ Matched
<1> DEFINE r == [conn[c] EXCEPT !.uv[h] = "closed"]
           s == GC_REF(r)
<1>1. /\ Idle /\ stack = <<>> /\ conn' = [conn EXCEPT ![c] = s] /\ conn[c].uv[h] = "closing"
      /\ h = "handle" => ~conn[c].connect_req /\ conn[c].writes = 0
      /\ UNCHANGED <<wait, registry, current, stack, callback, held>>
  BY DEF free_handle, Idle
<1>2. (callback = <<"on_write", c>>) = FALSE /\ (callback' = <<"on_write", c>>) = FALSE
  BY <1>1, IdleFacts
<1>3. conn[c] \in connection_t /\ Sound(conn[c], FALSE) /\ Exact(conn[c], FALSE)
  BY <1>2, ConnFacts, ServerFacts
<1>4. r \in connection_t /\ Exact(s, FALSE)
  BY <1>1, <1>3, SoundFreeHandle, ExactFreeHandle
<1>5. s \in connection_t
  BY <1>4, GCRefType
<1>6. s.lua_reader_tid = r.lua_reader_tid /\ s.lua_writer_tid = r.lua_writer_tid
  <2> HIDE DEF r
  <2> QED BY <1>4 DEF GC_REF, connection_t
<1>7. r.lua_reader_tid = conn[c].lua_reader_tid /\ r.lua_writer_tid = conn[c].lua_writer_tid
  BY <1>3 DEF connection_t
<1>8. Exact(s, callback' = <<"on_write", c>>)
  BY <1>2, <1>4
<1> HIDE DEF r, s
<1> QED BY <1>1, <1>5, <1>6, <1>7, <1>8, QuietLoopStep, ServerFacts

\* on_client_connect never comes: nobody connected.
LEMMA OnClientConnectServer ==
  ASSUME IndInv, ServerInv
  PROVE  \A c \in Conns, ok \in BOOLEAN : ~on_client_connect(c, ok)
<1>1. ASSUME NEW c \in Conns PROVE ~conn[c].connect_req
  BY ServerFacts DEF Exact
<1> QED BY <1>1 DEF on_client_connect

\* The process is aborted: nobody is woken.
LEMMA OnServerConnectFailsServer ==
  ASSUME IndInv, ServerInv, on_server_connect_fails
  PROVE  ServerInv' /\ Matched
<1>1. Idle /\ callback' = Aborted /\ UNCHANGED <<conn, wait, registry, current, stack, held>>
  BY DEF on_server_connect_fails
<1>2. Blocked'
  BY <1>1 DEF ServerInv, Blocked, Waiting, Holding, Alone, NoConnects
<1>3. Scheduled'
  BY <1>1 DEF ServerInv, Scheduled, Registered, Running, OnTop, CurrentExecutes, Executes
<1>4. FramesClosed'
  BY <1>1 DEF ServerInv, FramesClosed
<1>5. AllExact'
  <2> SUFFICES ASSUME NEW d \in Conns PROVE Exact(conn'[d], callback' = <<"on_write", d>>)
    BY DEF AllExact
  <2>1. (callback' = <<"on_write", d>>) = (callback = <<"on_write", d>>)
    BY <1>1, IdleFacts DEF Aborted
  <2> QED BY <1>1, <2>1 DEF ServerInv, AllExact
<1>6. Matched
  BY <1>1, NobodyWakes
<1> QED BY <1>2, <1>3, <1>4, <1>5, <1>6 DEF ServerInv

\* An event that is not a connection's resumes the thread that waits for it.
LEMMA OnResolvedServer ==
  ASSUME IndInv, ServerInv, NEW t \in Tids, on_resolved(t)
  PROVE  ServerInv' /\ Matched
<1>1. /\ Idle /\ stack = <<>> /\ wait[t][1] \in {"dns", "event"} /\ resume_lua_thread(t, <<>>)
      /\ UNCHANGED <<conn, callback, held>>
  BY DEF on_resolved, Idle
<1>2. TypeOK /\ Blocked /\ Scheduled /\ NoTid \notin Tids /\ t \in OptTid /\ t # NoTid
  BY ConnAssumption DEF IndInv, ServerInv, OptTid
<1>3. <<>> \in Seq(Frame) /\ \A u \in Tids : ~Executes(u) /\ ~InSeq(<<"thread", u>>, <<>>)
  BY <1>1, NoThreadRuns
<1>4. wait[t][1] \notin {"free", "running"} /\ wait[t][1] \notin {"read", "write"}
  BY <1>1
<1>5. Scheduled' /\ wait' = [wait EXCEPT ![t] = <<"running", Nothing>>]
  BY <1>1, <1>2, <1>3, <1>4, ScheduledResume
<1>6. Blocked' /\ Matched
  BY <1>1, <1>2, <1>4, <1>5, BlockedOther
<1>7. \A d \in Conns : ~Framed(d, stack')
  BY <1>1, <1>2, <1>3, ResumeLemma, EmptyLemma DEF Framed
<1> QED BY <1>1, <1>5, <1>6, <1>7, ServerAssembleSame

\* The collector closes a connection that no thread can reach.
LEMMA ConnectionGCServer ==
  ASSUME IndInv, ServerInv, NEW c \in Conns, connection_gc(c)
  PROVE  ServerInv' /\ Matched
<1> DEFINE r == forget_tids(conn[c])
           p == callback = <<"on_write", c>>
<1>1. /\ close_connection(c, r, stack) /\ held[c] = {}
      /\ UNCHANGED <<wait, registry, current, callback, held>>
  BY DEF connection_gc
<1>2. p \in BOOLEAN /\ conn[c] \in connection_t /\ Sound(conn[c], p) /\ Exact(conn[c], p)
  BY ConnFacts, ServerFacts
<1>3. conn[c].lua_reader_tid = NoTid /\ conn[c].lua_writer_tid = NoTid
  BY <1>1, QuietUnreachable
<1>4. r \in connection_t /\ Sound(r, p) /\ Exact(r, p)
  <2> HIDE DEF p
  <2> QED BY <1>2, <1>3, SoundTouch, ExactTouch, TouchTypes DEF Handles
<1>5. r.lua_reader_tid = NoTid /\ r.lua_writer_tid = NoTid
  BY <1>2 DEF forget_tids, connection_t
<1>6. Sound(r, callback = <<"on_write", c>>) /\ Exact(r, callback = <<"on_write", c>>)
  BY <1>4
<1> HIDE DEF r, p
<1> QED BY <1>1, <1>3, <1>4, <1>5, <1>6, CloseQuietly

\* The end of close_connection resumes the one thread that waits.
LEMMA UnblockServer ==
  ASSUME IndInv, ServerInv, NEW c \in Conns, Unblock(c)
  PROVE  ServerInv' /\ Matched
<1>1. stack # <<>> /\ Head(stack) = <<"close_connection", c>> /\ UNCHANGED <<callback, held>>
  BY DEF Unblock
<1>2. TypeOK /\ Blocked /\ Scheduled /\ NoTid \notin Tids
  BY ServerFacts
<1>3. /\ stack \in Seq(Frame) /\ Tail(stack) \in Seq(Frame) /\ Framed(c, stack)
      /\ \A g : InSeq(g, Tail(stack)) => InSeq(g, stack)
  <2>1. stack \in Seq(Frame)
    BY <1>2 DEF TypeOK
  <2>2. /\ Tail(stack) \in Seq(Frame)
        /\ \A g : InSeq(g, stack) <=> (g = Head(stack) \/ InSeq(g, Tail(stack)))
    BY <1>1, <2>1, PopLemma
  <2> QED BY <1>1, <2>1, <2>2 DEF Framed
<1>4. \A u \in Tids : ~Executes(u)
  BY <1>1 DEF Executes
<1>5. \A u \in Tids : ~InSeq(<<"thread", u>>, stack) /\ ~InSeq(<<"thread", u>>, Tail(stack))
  BY <1>2, <1>3, <1>4, OnStackFacts DEF OnStack
<1> DEFINE p == callback = <<"on_write", c>>
<1>6. p \in BOOLEAN /\ conn[c] \in connection_t /\ Exact(conn[c], p) /\ ~conn[c].lua_ref
  BY <1>3, ConnFacts, ServerFacts
<1>7. conn[c].lua_reader_tid \in OptTid /\ conn[c].lua_writer_tid \in OptTid
  BY <1>6 DEF connection_t
<1>8. /\ conn[c].lua_reader_tid # NoTid => wait[conn[c].lua_reader_tid][1] \notin {"free", "running"}
      /\ conn[c].lua_writer_tid # NoTid => wait[conn[c].lua_writer_tid][1] \notin {"free", "running"}
  BY NamedWaits
<1>9. CASE conn[c].lua_reader_tid # NoTid
  <2> DEFINE s == [conn[c] EXCEPT !.lua_reader_tid = NoTid]
  <2>1. conn' = [conn EXCEPT ![c] = s] /\ resume_lua_thread(conn[c].lua_reader_tid, stack)
    BY <1>9 DEF Unblock
  <2>2. s \in connection_t
    BY <1>6 DEF connection_t, OptTid
  <2>3. Exact(s, p)
    BY <1>6 DEF connection_t, Exact, RefsOf
  <2>4. Exact(s, callback' = <<"on_write", c>>)
    BY <1>1, <2>3
  <2>5. ~s.lua_ref /\ s.lua_reader_tid = NoTid /\ s.lua_writer_tid = conn[c].lua_writer_tid
    BY <1>6 DEF connection_t
  <2> HIDE DEF s, p
  <2>6. /\ Scheduled' /\ conn[c].lua_reader_tid \in Tids
        /\ wait' = [wait EXCEPT ![conn[c].lua_reader_tid] = <<"running", Nothing>>]
    BY <1>2, <1>3, <1>4, <1>5, <1>7, <1>8, <1>9, <2>1, ScheduledResume
  <2>7. Blocked' /\ Matched
    BY <1>1, <1>2, <2>1, <2>2, <2>5, <2>6, BlockedWake
  <2>8. \A d \in Conns : Framed(d, stack') <=> Framed(d, stack)
    BY <1>2, <1>3, <1>7, <2>1, ResumeLemma
  <2> QED BY <1>1, <1>2, <2>1, <2>2, <2>4, <2>5, <2>6, <2>7, <2>8, ServerAssemble
<1>10. CASE conn[c].lua_reader_tid = NoTid
  <2> DEFINE s == [conn[c] EXCEPT !.lua_writer_tid = NoTid]
  <2>1. conn' = [conn EXCEPT ![c] = s] /\ resume_lua_thread(conn[c].lua_writer_tid, Tail(stack))
    BY <1>10 DEF Unblock
  <2>2. s \in connection_t
    BY <1>6 DEF connection_t, OptTid
  <2>3. Exact(s, p)
    BY <1>6 DEF connection_t, Exact, RefsOf
  <2>4. Exact(s, callback' = <<"on_write", c>>)
    BY <1>1, <2>3
  <2>5. ~s.lua_ref /\ s.lua_writer_tid = NoTid /\ s.lua_reader_tid = conn[c].lua_reader_tid
    BY <1>6 DEF connection_t
  <2> HIDE DEF s, p
  <2>6. /\ Scheduled'
        /\ conn[c].lua_writer_tid = NoTid => wait' = wait
        /\ conn[c].lua_writer_tid # NoTid =>
             /\ conn[c].lua_writer_tid \in Tids
             /\ wait' = [wait EXCEPT ![conn[c].lua_writer_tid] = <<"running", Nothing>>]
    BY <1>2, <1>3, <1>4, <1>5, <1>7, <1>8, <2>1, ScheduledResume
  <2>7. Blocked' /\ Matched
    <3>1. CASE conn[c].lua_writer_tid = NoTid
      BY <1>1, <1>2, <2>1, <2>2, <2>5, <2>6, <3>1, BlockedKeep
    <3>2. CASE conn[c].lua_writer_tid # NoTid
      BY <1>1, <1>2, <2>1, <2>2, <2>5, <2>6, <3>2, BlockedWake
    <3> QED BY <3>1, <3>2
  <2>8. \A d \in Conns : Framed(d, stack') => Framed(d, stack)
    <3>1. \A d \in Conns : Framed(d, stack') <=> Framed(d, Tail(stack))
      BY <1>2, <1>3, <1>7, <2>1, ResumeLemma
    <3> QED BY <1>3, <3>1 DEF Framed
  <2> QED BY <1>1, <1>2, <2>1, <2>2, <2>4, <2>5, <2>6, <2>7, <2>8, ServerAssemble
<1> QED BY <1>9, <1>10

-----------------------------------------------------------------------------
(* The calls of a server's threads *)

\* Calls that close the connection.
LEMMA CallCloseServer ==
  ASSUME IndInv, ServerInv, NEW t \in Tids, NEW c \in Conns,
         \/ read_inactive(t, c) \/ write_fails(t, c) \/ close_connection_lua(t, c)
         \/ start_reading(t, c, FALSE)
  PROVE  ServerInv' /\ Matched
<1>1. Uses(t, c) /\ UNCHANGED <<wait, registry, current, callback, held>>
  BY DEF read_inactive, write_fails, close_connection_lua, start_reading
<1>2. conn[c].lua_reader_tid = NoTid /\ conn[c].lua_writer_tid = NoTid
  BY <1>1, QuietInUse
<1> DEFINE p == callback = <<"on_write", c>>
           q == [conn[c] EXCEPT !.lua_reader_tid = NoTid]
<1>3. p \in BOOLEAN /\ conn[c] \in connection_t /\ Sound(conn[c], p) /\ Exact(conn[c], p)
  BY ConnFacts, ServerFacts
<1>4. PICK r \in {conn[c], forget_tids(conn[c]), q} : close_connection(c, r, stack)
  BY DEF read_inactive, write_fails, close_connection_lua, start_reading
<1>5. forget_tids(conn[c]) = conn[c] /\ q = conn[c]
  BY <1>2, <1>3 DEF forget_tids, connection_t
<1>6. r = conn[c]
  BY <1>4, <1>5
<1>7. Sound(conn[c], callback = <<"on_write", c>>) /\ Exact(conn[c], callback = <<"on_write", c>>)
  BY <1>3
<1> HIDE DEF p, q
<1> QED BY <1>1, <1>2, <1>3, <1>4, <1>6, <1>7, CloseQuietly

\* A call that changes a connection nobody waits for, and blocks nobody.
LEMMA QuietCall ==
  ASSUME IndInv, ServerInv, NEW c \in Conns, NEW s \in connection_t, NEW H \in SUBSET Tids,
         conn[c].lua_reader_tid = NoTid, conn[c].lua_writer_tid = NoTid,
         s.lua_reader_tid = NoTid, s.lua_writer_tid = NoTid, ~Framed(c, stack),
         conn' = [conn EXCEPT ![c] = s], held' = [held EXCEPT ![c] = H], \A t, u \in H : t = u,
         UNCHANGED <<wait, registry, current, stack, callback>>,
         Exact(s, callback = <<"on_write", c>>)
  PROVE  ServerInv' /\ Matched
<1>1. Blocked' /\ Matched
  BY BlockedHeld, ServerFacts
<1>2. Scheduled'
  BY DEF ServerInv, Scheduled, Registered, Running, OnTop, CurrentExecutes, Executes
<1>3. Exact(s, callback' = <<"on_write", c>>)
  OBVIOUS
<1> QED BY <1>1, <1>2, <1>3, ServerAssemble, ServerFacts

\* start_reading.
LEMMA StartReadingServer ==
  ASSUME IndInv, ServerInv, NEW t \in Tids, NEW c \in Conns, start_reading(t, c, TRUE)
  PROVE  ServerInv' /\ Matched
<1> DEFINE p == callback = <<"on_write", c>>
           q == [conn[c] EXCEPT !.lua_reader_tid = NoTid]
           s == [q EXCEPT !.uv["handle"] = "active"]
<1>1. /\ Uses(t, c) /\ conn' = [conn EXCEPT ![c] = s]
      /\ UNCHANGED <<wait, registry, current, stack, callback, held>>
  BY DEF start_reading
<1>2. /\ p \in BOOLEAN /\ Sound(conn[c], p) /\ Exact(conn[c], p) /\ conn[c] \in connection_t
      /\ conn[c].lua_ref
  BY <1>1, UsesFacts, ServerFacts
<1>3. conn[c].lua_reader_tid = NoTid /\ conn[c].lua_writer_tid = NoTid /\ ~Framed(c, stack)
  BY <1>1, QuietInUse
<1>4. PICK u \in [Handles -> HandleState] : u = [conn[c].uv EXCEPT !["handle"] = "active"]
  BY <1>2 DEF connection_t, HandleState
<1>5. s = [conn[c] EXCEPT !.lua_reader_tid = NoTid, !.uv = u]
  BY <1>2, <1>4 DEF connection_t
<1>6. s \in connection_t
  <2>1. [conn[c] EXCEPT !.lua_reader_tid = NoTid, !.uv = u] \in connection_t
    BY <1>2 DEF connection_t, OptTid
  <2> QED BY <1>5, <2>1
<1>7. Exact(s, p)
  BY <1>2 DEF connection_t, Sound, Exact, RefsOf, Count, IsClosing, Handles
<1>8. s.lua_reader_tid = NoTid /\ s.lua_writer_tid = NoTid
  BY <1>2, <1>3 DEF connection_t
<1>9. Exact(s, callback = <<"on_write", c>>)
  BY <1>7
<1>10. PICK H \in SUBSET Tids : H = held[c]
  BY DEF IndInv, TypeOK
<1>11. held' = [held EXCEPT ![c] = H] /\ \A v, u2 \in H : v = u2
  BY <1>1, <1>10 DEF IndInv, TypeOK, ServerInv, Blocked, Alone
<1> HIDE DEF p, q, s
<1> QED BY <1>1, <1>3, <1>6, <1>8, <1>9, <1>11, QuietCall

\* new_connection called from Lua: the caller alone holds it.
LEMMA NewConnectionServer ==
  ASSUME IndInv, ServerInv, NEW t \in Tids, NEW c \in Conns, new_connection_lua(t, c)
  PROVE  ServerInv' /\ Matched
<1>1. /\ conn[c].mem = "none" /\ conn' = [conn EXCEPT ![c] = new_connection]
      /\ held' = [held EXCEPT ![c] = {t}]
      /\ UNCHANGED <<wait, registry, current, stack, callback>>
  BY DEF new_connection_lua
<1>2. (callback = <<"on_write", c>>) = FALSE /\ ~Framed(c, stack)
  BY <1>1, UnallocatedFacts
<1>3. new_connection \in connection_t /\ Exact(new_connection, callback = <<"on_write", c>>)
  BY <1>2, NewTypes, ExactNew
<1>4. new_connection.lua_reader_tid = NoTid /\ new_connection.lua_writer_tid = NoTid
  BY DEF new_connection
<1>5. conn[c].lua_reader_tid = NoTid /\ conn[c].lua_writer_tid = NoTid
  BY <1>1, QuietUnallocated
<1>6. PICK H \in SUBSET Tids : H = {t}
  OBVIOUS
<1> QED BY <1>1, <1>2, <1>3, <1>4, <1>5, <1>6, QuietCall

\* A thread that blocks on a connection is named by it.
LEMMA SleepServer ==
  ASSUME IndInv, ServerInv, NEW t \in Tids, NEW c \in Conns, NEW s \in connection_t,
         NEW doing \in {"read", "write"}, Uses(t, c), Yield(t, doing, c),
         conn' = [conn EXCEPT ![c] = s], UNCHANGED <<registry, callback, held>>,
         s.lua_reader_tid = IF doing = "read" THEN t ELSE NoTid,
         s.lua_writer_tid = IF doing = "write" THEN t ELSE NoTid,
         Exact(s, callback = <<"on_write", c>>)
  PROVE  ServerInv' /\ Matched
<1>1. /\ conn[c].lua_reader_tid = NoTid /\ conn[c].lua_writer_tid = NoTid
      /\ wait[t][1] = "running" /\ ~Framed(c, stack)
  BY QuietInUse
<1>2. Executes(t) /\ t \in held[c] /\ wait' = [wait EXCEPT ![t] = <<doing, c>>]
  BY DEF Uses, Yield
<1>3. TypeOK /\ Blocked /\ Scheduled /\ NoTid \notin Tids
  BY ServerFacts
<1>4. Blocked' /\ Matched
  BY <1>1, <1>2, <1>3, BlockedSleep
<1>5. registry' = IF doing = "free" THEN registry \ {t} ELSE registry
  OBVIOUS
<1>6. Scheduled'
  BY <1>2, <1>3, <1>5, ScheduledYield
<1>7. \A d \in Conns : Framed(d, stack') <=> Framed(d, stack)
  BY <1>2, <1>3, YieldLemma DEF Doing
<1>8. Exact(s, callback' = <<"on_write", c>>)
  OBVIOUS
<1> QED BY <1>1, <1>3, <1>4, <1>6, <1>7, <1>8, ServerAssemble

\* conn:read blocks.
LEMMA ReadServer ==
  ASSUME IndInv, ServerInv, NEW t \in Tids, NEW c \in Conns, NEW timeout \in BOOLEAN,
         read(t, c, timeout)
  PROVE  ServerInv' /\ Matched
<1> DEFINE p == callback = <<"on_write", c>>
           q == [conn[c] EXCEPT !.lua_reader_tid = current]
           s == start_timer(q, "read_timer", timeout)
<1>1. /\ Uses(t, c) /\ conn' = [conn EXCEPT ![c] = s] /\ Yield(t, "read", c)
      /\ UNCHANGED <<registry, callback, held>>
  BY DEF read
<1>2. p \in BOOLEAN /\ Exact(conn[c], p) /\ conn[c] \in connection_t
  BY ConnFacts, ServerFacts
<1>3. conn[c].lua_writer_tid = NoTid /\ current = t
  BY <1>1, QuietInUse
<1>4. q \in connection_t
  BY <1>2 DEF connection_t, IndInv, TypeOK
<1>5. Exact(q, p) /\ q.lua_reader_tid = t /\ q.lua_writer_tid = NoTid
  BY <1>2, <1>3 DEF connection_t, Exact, RefsOf
<1>6. s \in connection_t /\ Exact(s, p)
  <2> HIDE DEF p, q
  <2> QED BY <1>2, <1>4, <1>5, ExactTouch, TouchTypes DEF Handles
<1>7. s.lua_reader_tid = t /\ s.lua_writer_tid = NoTid
  <2> HIDE DEF q
  <2> QED BY <1>4, <1>5 DEF start_timer, connection_t
<1>8. Exact(s, callback = <<"on_write", c>>)
  BY <1>6
<1> HIDE DEF p, q, s
<1>9. PICK doing \in {"read", "write"} : doing = "read"
  OBVIOUS
<1>10. /\ Yield(t, doing, c) /\ s.lua_reader_tid = IF doing = "read" THEN t ELSE NoTid
       /\ s.lua_writer_tid = IF doing = "write" THEN t ELSE NoTid
  BY <1>1, <1>7, <1>9
<1> QED BY <1>1, <1>6, <1>8, <1>10, SleepServer

\* conn:write blocks, with the only write request there is.
LEMMA WriteServer ==
  ASSUME IndInv, ServerInv, NEW t \in Tids, NEW c \in Conns, NEW timeout \in BOOLEAN,
         write(t, c, timeout)
  PROVE  ServerInv' /\ Matched
<1> DEFINE p == callback = <<"on_write", c>>
<1>1. Uses(t, c) /\ Yield(t, "write", c) /\ UNCHANGED <<registry, callback, held>>
  BY DEF write
<1>2. /\ p \in BOOLEAN /\ Sound(conn[c], p) /\ Exact(conn[c], p) /\ conn[c] \in connection_t
      /\ conn[c].lua_ref
  BY <1>1, UsesFacts, ServerFacts
<1>3. /\ conn[c].lua_reader_tid = NoTid /\ current = t /\ ~conn[c].write_data
      /\ t # NoTid
  BY <1>1, QuietInUse, ConnAssumption
<1>4. conn[c].writes = 0
  BY <1>2, <1>3 DEF Exact, Count
<1>5. conn' = [conn EXCEPT ![c] = start_timer(queue_write(conn[c], 1, t), "write_timer", timeout)]
  <2>1. PICK n \in {conn[c].writes, conn[c].writes + 1} \cap (1 .. MaxWrites) :
          conn' = [conn EXCEPT ![c] = start_timer(queue_write(@, n, current), "write_timer", timeout)]
    BY DEF write
  <2>2. n = 1
    BY <1>4, <2>1, ConnAssumption
  <2> QED BY <1>3, <2>1, <2>2
<1> DEFINE q == queue_write(conn[c], 1, t)
           s == start_timer(q, "write_timer", timeout)
<1>6. q \in connection_t /\ Exact(q, p)
  <2> HIDE DEF p
  <2> QED BY <1>2, <1>3, QueueWriteType, ExactQueueWrite DEF OptTid
<1>7. q.lua_reader_tid = NoTid /\ q.lua_writer_tid = t
  BY <1>2, <1>3 DEF queue_write, connection_t
<1>8. s \in connection_t /\ Exact(s, p)
  <2> HIDE DEF p, q
  <2> QED BY <1>2, <1>6, ExactTouch, TouchTypes DEF Handles
<1>9. s.lua_reader_tid = NoTid /\ s.lua_writer_tid = t
  <2> HIDE DEF q
  <2> QED BY <1>6, <1>7 DEF start_timer, connection_t
<1>10. Exact(s, callback = <<"on_write", c>>)
  BY <1>8
<1>11. conn' = [conn EXCEPT ![c] = s]
  BY <1>5
<1> HIDE DEF p, q, s
<1>12. PICK doing \in {"read", "write"} : doing = "write"
  OBVIOUS
<1>13. /\ Yield(t, doing, c) /\ s.lua_reader_tid = IF doing = "read" THEN t ELSE NoTid
       /\ s.lua_writer_tid = IF doing = "write" THEN t ELSE NoTid
  BY <1>1, <1>9, <1>12
<1> QED BY <1>1, <1>8, <1>10, <1>11, <1>13, SleepServer

\* A thread forgets a connection, which names nobody.
LEMMA ForgetServer ==
  ASSUME IndInv, ServerInv, NEW t \in Tids, NEW c \in Conns, forget(t, c)
  PROVE  ServerInv' /\ Matched
<1>1. /\ Uses(t, c) /\ held' = [held EXCEPT ![c] = held[c] \ {t}]
      /\ UNCHANGED <<conn, wait, registry, current, stack, callback>>
  BY DEF forget
<1>2. conn[c].lua_reader_tid = NoTid /\ conn[c].lua_writer_tid = NoTid /\ ~Framed(c, stack)
  BY <1>1, QuietInUse
<1>3. conn[c] \in connection_t /\ Exact(conn[c], callback = <<"on_write", c>>)
  BY ConnFacts, ServerFacts
<1>4. conn' = [conn EXCEPT ![c] = conn[c]]
  BY <1>1 DEF IndInv, TypeOK
<1>5. PICK H \in SUBSET Tids : H = held[c] \ {t}
  BY DEF IndInv, TypeOK
<1>6. held' = [held EXCEPT ![c] = H] /\ \A v, u \in H : v = u
  BY <1>1, <1>5 DEF ServerInv, Blocked, Alone
<1>7. PICK s \in connection_t : s = conn[c]
  BY <1>3
<1>8. /\ conn' = [conn EXCEPT ![c] = s] /\ Exact(s, callback = <<"on_write", c>>)
      /\ s.lua_reader_tid = NoTid /\ s.lua_writer_tid = NoTid
  BY <1>2, <1>3, <1>4, <1>7
<1>9. UNCHANGED <<wait, registry, current, stack, callback>>
  BY <1>1
<1> QED BY ONLY IndInv, ServerInv, c \in Conns, s \in connection_t, H \in SUBSET Tids,
               <1>2, <1>6, <1>8, <1>9, QuietCall

\* A thread waits for something else, or ends and is forgotten.
LEMMA ThreadCallsServer ==
  ASSUME IndInv, ServerInv, NEW t \in Tids, block(t, "event") \/ finish(t)
  PROVE  ServerInv' /\ Matched
<1>1. TypeOK /\ Blocked /\ Scheduled /\ NoTid \notin Tids
  BY ConnAssumption DEF IndInv, ServerInv
<1>2. PICK doing \in {"free", "event"} :
        /\ Executes(t) /\ Yield(t, doing, Nothing) /\ UNCHANGED <<conn, callback>>
        /\ registry' = IF doing = "free" THEN registry \ {t} ELSE registry
        /\ held' = held \/ held' = [c \in Conns |-> held[c] \ {t}]
  BY DEF block, finish
<1>3. Scheduled'
  BY <1>1, <1>2, ScheduledYield
<1>4. wait[t][1] = "running" /\ wait' = [wait EXCEPT ![t] = <<doing, Nothing>>]
  BY <1>1, <1>2 DEF Yield, Scheduled, Running
<1>5. wait'[t] = <<doing, Nothing>> /\ \A u \in Tids \ {t} : wait'[u] = wait[u]
  BY <1>1, <1>4 DEF TypeOK
<1>6. \A d \in Conns : /\ wait[t] # <<"read", d>> /\ wait[t] # <<"write", d>>
                       /\ wait'[t] # <<"read", d>> /\ wait'[t] # <<"write", d>>
  BY <1>4, <1>5
<1>7. Waiting'
  BY <1>1, <1>2, <1>5, <1>6 DEF Blocked, Waiting
<1>8. \A d \in Conns : held'[d] \subseteq held[d] /\ held[d] \ {t} \subseteq held'[d]
  BY <1>1, <1>2 DEF TypeOK
<1>9. Holding'
  <2> SUFFICES ASSUME NEW u \in Tids, NEW d \in Conns, wait'[u] \in {<<"read", d>>, <<"write", d>>}
               PROVE  u \in held'[d]
    BY DEF Holding
  <2>1. u # t /\ wait[u] \in {<<"read", d>>, <<"write", d>>}
    BY <1>5, <1>6
  <2> QED BY <1>1, <1>8, <2>1 DEF Blocked, Holding
<1>10. Alone'
  BY <1>1, <1>8 DEF Blocked, Alone
<1>11. NoConnects' /\ Matched
  BY <1>1, <1>5, NobodyWakes DEF Blocked, NoConnects
<1>12. \A d \in Conns : Framed(d, stack') <=> Framed(d, stack)
  BY <1>1, <1>2, YieldLemma DEF Doing
<1>13. Blocked'
  BY <1>7, <1>9, <1>10, <1>11 DEF Blocked
<1> QED BY <1>2, <1>3, <1>11, <1>12, <1>13, ServerAssembleSame

-----------------------------------------------------------------------------
(* The theorems about a server *)

\* A server starts with no thread and no connection.
LEMMA InitServer == Init => ServerInv
<1> SUFFICES ASSUME Init PROVE ServerInv
  OBVIOUS
<1>1. \A c \in Conns : /\ conn[c] = Unallocated /\ held[c] = {}
                       /\ (callback = <<"on_write", c>>) = FALSE
  BY DEF Init, NoCallback
<1>2. Unallocated.lua_reader_tid = NoTid /\ Unallocated.lua_writer_tid = NoTid
  BY DEF Unallocated
<1>3. \A t \in Tids : wait[t] = <<"free", Nothing>> /\ t # NoTid
  BY ConnAssumption DEF Init
<1>4. Blocked
  BY <1>1, <1>2, <1>3 DEF Blocked, Waiting, Holding, Alone, NoConnects
<1>5. stack = <<>> /\ registry = {}
  BY DEF Init
<1>6. Scheduled
  BY <1>3, <1>5 DEF Scheduled, Registered, Running, OnTop, CurrentExecutes, Executes
<1>7. Exact(Unallocated, FALSE)
  BY DEF Exact, RefsOf, Count, Unallocated, Handles
<1>8. AllExact
  BY <1>1, <1>7 DEF AllExact
<1>9. FramesClosed
  BY <1>5, EmptyLemma DEF FramesClosed
<1> QED BY <1>4, <1>6, <1>8, <1>9 DEF ServerInv

\* Every step of a server preserves the invariant, and wakes only the thread
\* whose wait it ends.
LEMMA NextServer ==
  ASSUME ~Sharing, ~ClientConnect, IndInv, ServerInv, [Next]_vars
  PROVE  ServerInv' /\ (Matched \/ UNCHANGED vars)
<1>1. CASE UNCHANGED vars
  <2>1. UNCHANGED <<conn, wait, registry, current, stack, callback, held>>
    BY <1>1 DEF vars
  <2>2. Blocked'
    BY <2>1 DEF ServerInv, Blocked, Waiting, Holding, Alone, NoConnects
  <2>3. Scheduled'
    BY <2>1 DEF ServerInv, Scheduled, Registered, Running, OnTop, CurrentExecutes, Executes
  <2> QED BY <1>1, <2>1, <2>2, <2>3, ServerAssembleSame
<1>2. ASSUME NEW c \in Conns, LoopStep(c) PROVE ServerInv' /\ Matched
  BY <1>2, OnServerConnectServer, OnReadServer, OnConnTimeoutServer, FreeHandleServer,
     OnWriteServer, OnClientConnectServer, ConnectionGCServer DEF LoopStep
<1>3. ASSUME ControlStep PROVE ServerInv' /\ Matched
  BY <1>3, UnblockServer, OnWriteReturnServer DEF ControlStep
<1>4. ASSUME NEW t \in Tids, NEW c \in Conns, CallStep(t, c) PROVE ServerInv' /\ Matched
  <2>1. CASE \E ok \in BOOLEAN : start_reading(t, c, ok)
    <3>1. start_reading(t, c, TRUE) \/ start_reading(t, c, FALSE)
      BY <2>1
    <3> QED BY <3>1, StartReadingServer, CallCloseServer
  <2>2. CASE \/ new_connection_lua(t, c) \/ forget(t, c)
             \/ \E timeout \in BOOLEAN : read(t, c, timeout) \/ write(t, c, timeout)
    BY <2>2, NewConnectionServer, ForgetServer, ReadServer, WriteServer
  <2>3. CASE read_inactive(t, c) \/ write_fails(t, c) \/ close_connection_lua(t, c)
    BY <2>3, CallCloseServer
  <2>4. /\ \A timeout \in BOOLEAN : ~connect(t, c, timeout)
        /\ ~connect_fails(t, c) /\ \A u \in Tids : ~share(t, u, c)
    BY DEF connect, connect_fails, share
  <2> QED BY <1>4, <2>1, <2>2, <2>3, <2>4 DEF CallStep
<1>5. ASSUME NEW t \in Tids, ThreadStep(t) PROVE ServerInv' /\ Matched
  <2>1. ~connect_invalid(t) /\ ~block(t, "dns")
    BY DEF connect_invalid, block
  <2> QED BY <1>5, <2>1, OnResolvedServer, ThreadCallsServer DEF ThreadStep
<1> QED BY <1>1, <1>2, <1>3, <1>4, <1>5, OnServerConnectFailsServer DEF Next

\* ServerInv holds in every reachable state of a server.
LEMMA ServerInvariant ==
  ASSUME ~Sharing, ~ClientConnect
  PROVE  Spec => []ServerInv
<1>1. IndInv /\ ServerInv /\ [Next]_vars => ServerInv'
  BY NextServer
<1> QED BY <1>1, InitServer, IndInvariant, PTL DEF Spec

\* In a server the count of every connection is exact: it is freed with its
\* last reference, neither earlier nor never, although threads, timeouts and
\* libuv's callbacks drop references in any order.
THEOREM RefCountsAreExact ==
  ASSUME ~Sharing, ~ClientConnect
  PROVE  Spec => []RefCountExact
<1>1. IndInv /\ ServerInv => RefCountExact
  <2> SUFFICES ASSUME IndInv, ServerInv, NEW c \in Conns
               PROVE  /\ conn[c].mem = "live" => conn[c].ref_count = Refs(c) /\ Refs(c) > 0
                      /\ conn[c].mem # "live" => Refs(c) = 0
    BY DEF RefCountExact
  <2>1. /\ Sound(conn[c], callback = <<"on_write", c>>)
        /\ Exact(conn[c], callback = <<"on_write", c>>)
    BY ConnFacts, ServerFacts
  <2> QED BY <2>1 DEF Sound, Exact, Refs
<1> QED BY <1>1, IndInvariant, ServerInvariant, PTL

\* In a server no wakeup is lost: the thread that blocks in a read or a write
\* is registered, and its id is in the connection, until the connection
\* resumes it.
THEOREM NoWakeupIsLost ==
  ASSUME ~Sharing, ~ClientConnect
  PROVE  Spec => []NoLostWakeup
<1>1. IndInv /\ ServerInv => NoLostWakeup
  <2> SUFFICES ASSUME IndInv, ServerInv, NEW t \in Tids
               PROVE  /\ wait[t][1] = "read" => t \in registry /\ conn[wait[t][2]].lua_reader_tid = t
                      /\ wait[t][1] = "write" =>
                           t \in registry /\ wait[t][2] \in Conns /\ conn[wait[t][2]].lua_writer_tid = t
                      /\ wait[t][1] # "connect"
    BY DEF NoLostWakeup
  <2>1. wait[t] = <<wait[t][1], wait[t][2]>> /\ wait[t][2] \in Conns \cup {Nothing}
    BY DEF IndInv, TypeOK
  <2>2. wait[t][1] \in {"read", "write"} => wait[t][2] \in Conns
    BY DEF ServerInv, Blocked, NoConnects
  <2> QED BY <2>1, <2>2 DEF ServerInv, Blocked, Waiting, NoConnects, Scheduled, Registered
<1> QED BY <1>1, IndInvariant, ServerInvariant, PTL

\* In a server the writer's id names a thread that is blocked in a write on
\* that connection.
THEOREM WriterIsBlocked ==
  ASSUME ~Sharing, ~ClientConnect
  PROVE  Spec => []WriterTidNamesWriter
<1>1. IndInv /\ ServerInv => WriterTidNamesWriter
  BY NamedWaits DEF WriterTidNamesWriter
<1> QED BY <1>1, IndInvariant, ServerInvariant, PTL

\* In a server a thread that is blocked in a read or a write continues only
\* because of that connection, in the step that takes its id out of it.
THEOREM WakeupsMatch ==
  ASSUME ~Sharing, ~ClientConnect
  PROVE  Spec => WakeMatchesWait
<1>1. IndInv /\ ServerInv /\ [Next]_vars => (Matched \/ UNCHANGED vars)
  BY NextServer
<1> QED BY <1>1, IndInvariant, ServerInvariant, PTL DEF Spec, WakeMatchesWait, Matched

============================================================================
