----------------------------- MODULE Connection -----------------------------
(***************************************************************************)
(* TCP connections (src/luaw_tcp.c, lib/luaw_tcp.lua): the reference       *)
(* counted connection_t objects, the libuv callbacks that run on the event *)
(* loop, and the calls Lua threads (coroutines) make on a connection.      *)
(*                                                                         *)
(* A callback may resume a Lua thread, that thread may close a connection, *)
(* and closing it resumes, nested on the same C stack, the threads blocked *)
(* on it.  `callback' is what is left of the libuv callback below `stack'; *)
(* the loop delivers the next event only when both are empty.              *)
(***************************************************************************)
EXTENDS Threads

CONSTANTS
  Conns,          \* connection_t allocations; each is malloc-ed at most once
  Sharing,        \* TRUE: threads may hand a connection to one another
  ClientConnect,  \* TRUE: threads open outgoing connections
  EmptyReads,     \* TRUE: libuv may call on_read with nread = 0 (EAGAIN)
  MaxWrites       \* bound: write callbacks libuv owes on one connection

ASSUME ConnAssumption ==
  /\ Nothing \notin Conns
  /\ NoTid \notin Tids
  /\ Sharing \in BOOLEAN
  /\ ClientConnect \in BOOLEAN
  /\ EmptyReads \in BOOLEAN
  /\ MaxWrites \in Nat \ {0}

VARIABLES
  conn,      \* Conns -> connection_t
  callback,  \* what the libuv callback still has to do once stack is empty
  held       \* Conns -> the threads that can reach the Lua userdata

vars == <<conn, wait, registry, current, stack, callback, held>>

-----------------------------------------------------------------------------
(* The data *)

\* A uv handle: "init" is a tcp handle without a socket, "active" is
\* uv_is_active (reading, or a timer that is ticking), "closing" is after
\* uv_close, "closed" after its close callback set handle->data to NULL.
HandleState == {"init", "idle", "active", "closing", "closed"}
Handles == {"handle", "read_timer", "write_timer"}

connection_t ==
  [ mem            : {"none", "live", "freed"},
    lua_ref        : BOOLEAN,
    ref_count      : Int,
    lua_reader_tid : OptTid,
    lua_writer_tid : OptTid,
    uv             : [Handles -> HandleState],
    connect_req    : BOOLEAN,   \* on_client_connect is still to come
    write_data     : BOOLEAN,   \* write_req.data /= NULL
    writes         : Nat ]      \* on_write callbacks still to come

Unallocated ==
  [ mem |-> "none", lua_ref |-> FALSE, ref_count |-> 0,
    lua_reader_tid |-> NoTid, lua_writer_tid |-> NoTid,
    uv |-> [h \in Handles |-> "closed"],
    connect_req |-> FALSE, write_data |-> FALSE, writes |-> 0 ]

\* Mutation: the write timer's reference is not counted.
new_connection_3_refs ==
  [Unallocated EXCEPT
     !.mem = "live", !.lua_ref = TRUE, !.ref_count = 3,
     !.uv = [h \in Handles |-> IF h = "handle" THEN "init" ELSE "idle"]]

\* new_connection: one reference for the Lua userdata and one per uv handle.
new_connection ==
  [ mem |-> "live", lua_ref |-> TRUE, ref_count |-> 4,
    lua_reader_tid |-> NoTid, lua_writer_tid |-> NoTid,
    uv |-> [h \in Handles |-> IF h = "handle" THEN "init" ELSE "idle"],
    connect_req |-> FALSE, write_data |-> FALSE, writes |-> 0 ]

\* Mutation: the object is freed one reference too late.
GC_REF_late(r) ==
  [r EXCEPT !.ref_count = @ - 1,
            !.mem = IF r.ref_count - 1 < 0 THEN "freed" ELSE @]

\* GC_REF: drop one reference, free the object with the last one.
GC_REF(r) ==
  [r EXCEPT !.ref_count = @ - 1,
            !.mem = IF r.ref_count - 1 <= 0 THEN "freed" ELSE @]

IsClosing(r, h) == r.uv[h] \in {"closing", "closed"}

stop_timer(r, h) ==
  [r EXCEPT !.uv[h] = IF @ = "active" THEN "idle" ELSE @]

start_timer(r, h, timeout) ==
  [r EXCEPT !.uv[h] = IF timeout /\ @ = "idle" THEN "active" ELSE @]

\* Mutation: no reference for the write request.
queue_write_no_ref(r, n, tid) ==
  [r EXCEPT !.writes = n, !.write_data = TRUE, !.lua_writer_tid = tid]

\* write_buffer once uv_write has queued the request: n callbacks are owed.
queue_write(r, n, tid) ==
  [r EXCEPT !.writes = n, !.write_data = TRUE, !.lua_writer_tid = tid,
            !.ref_count = @ + 1]

\* on_write when the write succeeded, before it resumes the writer.
write_done(r) == [stop_timer(r, "write_timer") EXCEPT !.lua_writer_tid = NoTid]

\* on_read when data arrived, before it resumes the reader.
\* Mutation: the reader's tid is left in place.
read_done_keep_tid(r) == stop_timer(r, "read_timer")

\* Mutation: the writer's timer is stopped.
read_done_both_timers(r) ==
  [stop_timer(stop_timer(r, "read_timer"), "write_timer") EXCEPT !.lua_reader_tid = NoTid]

read_done(r) == [stop_timer(r, "read_timer") EXCEPT !.lua_reader_tid = NoTid]

\* Closing from Lua: nobody is to be resumed.
forget_tids(r) == [r EXCEPT !.lua_reader_tid = NoTid, !.lua_writer_tid = NoTid]

\* The part of close_connection that runs before any thread is resumed.
delink(r) ==
  [r EXCEPT !.lua_ref = FALSE,
            !.ref_count = @ - 1,
            !.uv = [h \in Handles |-> IF IsClosing(r, h) THEN r.uv[h]
                                      ELSE "closing"]]

-----------------------------------------------------------------------------
(* Threads and control *)

Doing == {"free", "running", "read", "write", "connect", "dns", "event"}
Frame == ({"thread"} \X Tids) \cup ({"close_connection"} \X Conns)
Callback == ({"none", "abort"} \X {NoTid}) \cup ({"on_write"} \X Conns)
NoCallback == <<"none", NoTid>>

\* Lua's panic function has ended the process: nothing happens any more.
Aborted == <<"abort", NoTid>>

Idle == stack = <<>> /\ callback = NoCallback

\* close_connection(c): r is the connection as its caller left it.  The
\* frame stands for the two resumes at its end, see Unblock.
close_connection(c, r, below) ==
  IF r.lua_ref
  THEN /\ conn' = [conn EXCEPT ![c] = delink(r)]
       /\ stack' = IF r.lua_reader_tid = NoTid /\ r.lua_writer_tid = NoTid
                   THEN below ELSE <<<<"close_connection", c>>>> \o below
  ELSE /\ conn' = [conn EXCEPT ![c] = r]
       /\ stack' = below

\* The end of close_connection: resume the reader, then the writer.
Unblock(c) ==
  /\ stack # <<>> /\ Head(stack) = <<"close_connection", c>>
  /\ UNCHANGED <<callback, held>>
  /\ \/ /\ conn[c].lua_reader_tid # NoTid
        /\ conn' = [conn EXCEPT ![c].lua_reader_tid = NoTid]
        /\ resume_lua_thread(conn[c].lua_reader_tid, stack)
     \/ /\ conn[c].lua_reader_tid = NoTid
        /\ conn' = [conn EXCEPT ![c].lua_writer_tid = NoTid]
        /\ resume_lua_thread(conn[c].lua_writer_tid, Tail(stack))

-----------------------------------------------------------------------------
(* libuv callbacks *)

\* on_server_connect: accept, or close the new connection if accept fails;
\* the thread that services the connection starts at once.
on_server_connect(c, t, accepted) ==
  /\ Idle
  /\ conn[c].mem = "none"
  /\ UNCHANGED callback
  /\ IF accepted
     THEN /\ wait[t][1] = "free" /\ t \notin registry
          /\ conn' = [conn EXCEPT ![c] = [new_connection EXCEPT !.uv["handle"] = "idle"]]
          /\ registry' = registry \cup {t}
          /\ held' = [held EXCEPT ![c] = {t}]
          /\ Run(t, <<>>)
     ELSE /\ close_connection(c, new_connection, <<>>)
          /\ UNCHANGED <<wait, registry, current, held>>

\* on_server_connect with an error status: it raises a Lua error, and as the
\* loop is not run under lua_pcall nothing catches it.
on_server_connect_fails ==
  /\ Idle
  /\ callback' = Aborted
  /\ UNCHANGED <<conn, wait, registry, current, stack, held>>

\* on_read with nread > 0.  With no reader waiting the bytes are dropped.
on_read_data(c) ==
  /\ Idle
  /\ conn[c].uv["handle"] = "active"
  /\ conn' = [conn EXCEPT ![c] = read_done(@)]
  /\ resume_lua_thread(conn[c].lua_reader_tid, <<>>)
  /\ UNCHANGED <<callback, held>>

\* on_read with nread = 0 or UV_ENOBUFS.
on_read_nothing(c) ==
  /\ Idle /\ EmptyReads
  /\ conn[c].uv["handle"] = "active"
  /\ conn' = [conn EXCEPT ![c] = stop_timer(@, "read_timer")]
  /\ UNCHANGED <<wait, registry, current, stack, callback, held>>

\* on_read at end of file or with a read error.
on_read_end(c) ==
  /\ Idle
  /\ conn[c].uv["handle"] = "active"
  /\ close_connection(c, stop_timer(conn[c], "read_timer"), <<>>)
  /\ UNCHANGED <<wait, registry, current, callback, held>>

\* Mutation: the timeout closes the connection the way Lua's close does.
on_conn_timeout_silent(c, h) ==
  /\ Idle
  /\ h \in {"read_timer", "write_timer"}
  /\ conn[c].uv[h] = "active"
  /\ close_connection(c, forget_tids(stop_timer(conn[c], h)), <<>>)
  /\ UNCHANGED <<wait, registry, current, callback, held>>

\* libuv stops a one-shot timer before it calls on_conn_timeout.
on_conn_timeout(c, h) ==
  /\ Idle
  /\ h \in {"read_timer", "write_timer"}
  /\ conn[c].uv[h] = "active"
  /\ close_connection(c, stop_timer(conn[c], h), <<>>)
  /\ UNCHANGED <<wait, registry, current, callback, held>>

\* on_write, up to the return of the thread it resumes.  A handle that is
\* being closed completes its pending writes too, with either status.
on_write(c, ok) ==
  /\ Idle
  /\ conn[c].writes > 0
  /\ UNCHANGED held
  /\ LET r == [conn[c] EXCEPT !.writes = @ - 1, !.write_data = FALSE]
     IN  \/ /\ ~conn[c].write_data
            /\ conn' = [conn EXCEPT ![c] = r]
            /\ UNCHANGED <<wait, registry, current, stack, callback>>
         \/ /\ conn[c].write_data /\ ~ok
            /\ close_connection(c, r, <<>>)
            /\ callback' = <<"on_write", c>>
            /\ UNCHANGED <<wait, registry, current>>
         \/ /\ conn[c].write_data /\ ok
            /\ conn' = [conn EXCEPT ![c] = write_done(r)]
            /\ resume_lua_thread(conn[c].lua_writer_tid, <<>>)
            /\ callback' = <<"on_write", c>>

\* The last statement of on_write: the request's reference is dropped.
on_write_return(c) ==
  /\ stack = <<>> /\ callback = <<"on_write", c>>
  /\ conn' = [conn EXCEPT ![c] = GC_REF(@)]
  /\ callback' = NoCallback
  /\ UNCHANGED <<wait, registry, current, stack, held>>

\* on_client_connect.  Closing a connecting handle makes libuv call it with
\* UV_ECANCELED.  When the connect failed the thread is resumed by
\* close_connection.  Whoever closed the connection before has cleared
\* lua_writer_tid, so that the tid pushed first is 0; otherwise the resumes of
\* close_connection leave their results above that tid, the last
\* resume_lua_thread takes one of them for the tid, and it resumes nothing.
on_client_connect(c, ok) ==
  /\ Idle
  /\ conn[c].connect_req
  /\ ok => ~IsClosing(conn[c], "handle")
  /\ UNCHANGED <<callback, held>>
  /\ LET r == [stop_timer(conn[c], "write_timer") EXCEPT !.connect_req = FALSE]
     IN  IF ok
         THEN /\ conn' = [conn EXCEPT ![c] = r]
              /\ resume_lua_thread(r.lua_writer_tid, <<>>)
         ELSE /\ close_connection(c, r, <<>>)
              /\ UNCHANGED <<wait, registry, current>>

\* free_timer and free_tcp_handle, the close callbacks.  libuv completes the
\* requests of a stream before it calls the stream's close callback.
free_handle(c, h) ==
  /\ Idle
  /\ conn[c].uv[h] = "closing"
  /\ h = "handle" => ~conn[c].connect_req /\ conn[c].writes = 0
  /\ conn' = [conn EXCEPT ![c] = GC_REF([@ EXCEPT !.uv[h] = "closed"])]
  /\ UNCHANGED <<wait, registry, current, stack, callback, held>>

\* on_resolved, and any other event (a user timer) that wakes a thread.
on_resolved(t) ==
  /\ Idle
  /\ wait[t][1] \in {"dns", "event"}
  /\ resume_lua_thread(t, <<>>)
  /\ UNCHANGED <<conn, callback, held>>

\* connection_gc: the collector may run whenever Lua allocates.
connection_gc(c) ==
  /\ conn[c].lua_ref /\ held[c] = {} /\ callback # Aborted
  /\ close_connection(c, forget_tids(conn[c]), stack)
  /\ UNCHANGED <<wait, registry, current, callback, held>>

-----------------------------------------------------------------------------
(* Calls of a running thread.  A call on a connection that is closed (or    *)
(* that the thread cannot reach) returns an error and changes nothing.      *)

Uses(t, c) == Executes(t) /\ t \in held[c] /\ conn[c].lua_ref

new_connection_lua(t, c) ==
  /\ Executes(t)
  /\ conn[c].mem = "none"
  /\ conn' = [conn EXCEPT ![c] = new_connection]
  /\ held' = [held EXCEPT ![c] = {t}]
  /\ UNCHANGED <<wait, registry, current, stack, callback>>

start_reading(t, c, ok) ==
  /\ Uses(t, c)
  /\ conn[c].uv["handle"] # "init"
  /\ LET r == [conn[c] EXCEPT !.lua_reader_tid = NoTid]
     IN  IF ok
         THEN /\ conn' = [conn EXCEPT ![c] = [r EXCEPT !.uv["handle"] = "active"]]
              /\ UNCHANGED stack
         ELSE close_connection(c, r, stack)
  /\ UNCHANGED <<wait, registry, current, callback, held>>

\* conn:read() on a connection that was not started for reading.
read_inactive(t, c) ==
  /\ Uses(t, c)
  /\ conn[c].uv["handle"] # "active"
  /\ close_connection(c, conn[c], stack)
  /\ UNCHANGED <<wait, registry, current, callback, held>>

\* conn:read(timeout): record the reader's tid, start the timer, yield.
\* read_len is 0 whenever Lua runs: on_read sends and resets the buffer.
read(t, c, timeout) ==
  /\ Uses(t, c)
  /\ conn[c].uv["handle"] = "active"
  /\ current # NoTid
  /\ conn' = [conn EXCEPT ![c] =
       start_timer([@ EXCEPT !.lua_reader_tid = current], "read_timer", timeout)]
  /\ Yield(t, "read", c)
  /\ UNCHANGED <<registry, callback, held>>

\* conn:write(str, timeout) with a non-empty string.  write_req is a field of
\* the connection: queueing it again while libuv still owns it may lose one
\* of the two callbacks.
write(t, c, timeout) ==
  /\ Uses(t, c)
  /\ conn[c].uv["handle"] # "init"
  /\ current # NoTid
  /\ \E n \in {conn[c].writes, conn[c].writes + 1} \cap (1 .. MaxWrites) :
       conn' = [conn EXCEPT ![c] =
                 start_timer(queue_write(@, n, current), "write_timer", timeout)]
  /\ Yield(t, "write", c)
  /\ UNCHANGED <<registry, callback, held>>

\* conn:write() when uv_write itself fails.
write_fails(t, c) ==
  /\ Uses(t, c)
  /\ current # NoTid
  /\ close_connection(c, conn[c], stack)
  /\ UNCHANGED <<wait, registry, current, callback, held>>

close_connection_lua(t, c) ==
  /\ Uses(t, c)
  /\ close_connection(c, forget_tids(conn[c]), stack)
  /\ UNCHANGED <<wait, registry, current, callback, held>>

\* luaw_tcp_lib.connect with an address: the C call succeeds and the thread
\* yields until on_client_connect.
connect(t, c, timeout) ==
  /\ Executes(t) /\ ClientConnect
  /\ conn[c].mem = "none"
  /\ current # NoTid
  /\ conn' = [conn EXCEPT ![c] =
       start_timer([new_connection EXCEPT !.uv["handle"] = "idle",
                      !.connect_req = TRUE, !.lua_writer_tid = current],
                   "write_timer", timeout)]
  /\ held' = [held EXCEPT ![c] = {t}]
  /\ Yield(t, "connect", c)
  /\ UNCHANGED <<registry, callback>>

\* luaw_tcp_lib.connect when the C call fails after it made the connection;
\* the Lua code yields without looking at the result.
connect_fails(t, c) ==
  /\ Executes(t) /\ ClientConnect
  /\ conn[c].mem = "none"
  /\ current # NoTid
  /\ conn' = [conn EXCEPT ![c] = delink(new_connection)]
  /\ Yield(t, "connect", c)
  /\ UNCHANGED <<registry, callback, held>>

\* luaw_tcp_lib.connect when the C call rejects its arguments (no port, no
\* thread id, not an IPv4 address): no connection, and the thread yields.
connect_invalid(t) ==
  /\ Executes(t) /\ ClientConnect
  /\ Yield(t, "connect", Nothing)
  /\ UNCHANGED <<conn, registry, callback, held>>

\* resolveDNS in connect (it needs a valid tid), or a wait for an event that
\* is not a connection's.
block(t, doing) ==
  /\ Executes(t)
  /\ doing \in {"dns", "event"}
  /\ doing = "dns" => ClientConnect /\ current # NoTid
  /\ Yield(t, doing, Nothing)
  /\ UNCHANGED <<conn, registry, callback, held>>

\* Lua code hands a connection to another thread, or forgets it.
share(t, u, c) ==
  /\ Uses(t, c) /\ Sharing
  /\ wait[u][1] # "free"
  /\ held' = [held EXCEPT ![c] = @ \cup {u}]
  /\ UNCHANGED <<conn, wait, registry, current, stack, callback>>

forget(t, c) ==
  /\ Uses(t, c)
  /\ held' = [held EXCEPT ![c] = @ \ {t}]
  /\ UNCHANGED <<conn, wait, registry, current, stack, callback>>

\* The thread's function returns or raises: resumeThread drops its tid.
finish(t) ==
  /\ Executes(t)
  /\ Yield(t, "free", Nothing)
  /\ registry' = registry \ {t}
  /\ held' = [c \in Conns |-> held[c] \ {t}]
  /\ UNCHANGED <<conn, callback>>

-----------------------------------------------------------------------------
Init ==
  /\ conn = [c \in Conns |-> Unallocated]
  /\ wait = [t \in Tids |-> <<"free", Nothing>>]
  /\ registry = {}
  /\ current = NoTid
  /\ stack = <<>>
  /\ callback = NoCallback
  /\ held = [c \in Conns |-> {}]

LoopStep(c) ==
  \/ \E t \in Tids, accepted \in BOOLEAN : on_server_connect(c, t, accepted)
  \/ on_read_data(c)
  \/ on_read_nothing(c)
  \/ on_read_end(c)
  \/ \E h \in Handles : on_conn_timeout(c, h) \/ free_handle(c, h)
  \/ \E ok \in BOOLEAN : on_write(c, ok) \/ on_client_connect(c, ok)
  \/ connection_gc(c)

ControlStep == \E c \in Conns : Unblock(c) \/ on_write_return(c)

CallStep(t, c) ==
  \/ new_connection_lua(t, c)
  \/ \E ok \in BOOLEAN : start_reading(t, c, ok)
  \/ read_inactive(t, c)
  \/ \E timeout \in BOOLEAN :
       read(t, c, timeout) \/ write(t, c, timeout) \/ connect(t, c, timeout)
  \/ write_fails(t, c)
  \/ close_connection_lua(t, c)
  \/ connect_fails(t, c)
  \/ \E u \in Tids : share(t, u, c)
  \/ forget(t, c)

ThreadStep(t) ==
  \/ on_resolved(t)
  \/ connect_invalid(t)
  \/ \E doing \in {"dns", "event"} : block(t, doing)
  \/ finish(t)

Next ==
  \/ \E c \in Conns : LoopStep(c)
  \/ on_server_connect_fails
  \/ ControlStep
  \/ \E t \in Tids : ThreadStep(t) \/ \E c \in Conns : CallStep(t, c)

Spec == Init /\ [][Next]_vars

\* The callbacks libuv owes: for the requests of a handle that is closing,
\* which it completes or cancels, and for the closing handles themselves.
Completion(c) ==
  \/ /\ IsClosing(conn[c], "handle")
     /\ \E ok \in BOOLEAN : on_write(c, ok) \/ on_client_connect(c, ok)
  \/ \E h \in Handles : free_handle(c, h)

\* The loop runs every due timer and finishes every close; a callback
\* returns; Lua handlers end or block.  Whether a peer ever sends or takes
\* data is left open.
Fairness ==
  /\ WF_vars(ControlStep)
  /\ \A t \in Tids : WF_vars(finish(t))
  /\ \A c \in Conns :
       /\ SF_vars(Completion(c))
       /\ \A h \in {"read_timer", "write_timer"} : SF_vars(on_conn_timeout(c, h))

FairSpec == Spec /\ Fairness

-----------------------------------------------------------------------------
(* Properties *)

\* Every field, frame and thread state has its type.
TypeOK ==
  /\ conn \in [Conns -> connection_t]
  /\ wait \in [Tids -> Doing \X (Conns \cup {Nothing})]
  /\ registry \in SUBSET Tids
  /\ current \in OptTid
  /\ stack \in Seq(Frame)
  /\ callback \in Callback
  /\ held \in [Conns -> SUBSET Tids]

Count(b) == IF b THEN 1 ELSE 0

\* What may still reach a connection_t: the userdata, each handle whose close
\* callback has not run, a write request, and on_write before it returns.
RefsOf(r, in_on_write) ==
  Count(r.lua_ref)
    + Count(r.uv["handle"] # "closed")
    + Count(r.uv["read_timer"] # "closed")
    + Count(r.uv["write_timer"] # "closed")
    + Count(r.write_data)
    + Count(in_on_write)

Refs(c) == RefsOf(conn[c], callback = <<"on_write", c>>)

\* ref_count never falls below the number of places that will drop a
\* reference or follow the pointer, whatever threads, timeouts and
\* callbacks do to the connection (new_connection, close_connection, the
\* close callbacks, write_buffer, on_write).
RefCountCovers ==
  \A c \in Conns : conn[c].mem = "live" => conn[c].ref_count >= Refs(c)

\* ref_count is exactly the number of references, so the object is freed as
\* soon as the last one is dropped and never leaks.
RefCountExact ==
  \A c \in Conns :
    /\ conn[c].mem = "live" => conn[c].ref_count = Refs(c) /\ Refs(c) > 0
    /\ conn[c].mem # "live" => Refs(c) = 0

\* Whatever the userdata, a libuv handle or request, a pending frame of
\* close_connection or a pending on_write still points to has not been freed.
NoUseAfterFree ==
  \A c \in Conns :
    \/ conn[c].lua_ref
    \/ \E h \in Handles : conn[c].uv[h] # "closed"
    \/ conn[c].connect_req \/ conn[c].writes > 0
    \/ callback = <<"on_write", c>>
    \/ InSeq(<<"close_connection", c>>, stack)
    => conn[c].mem = "live"

\* Once close_connection is through with a connection it names no thread any
\* more, so no later callback can resume one on its behalf.
ClosedNamesNoThread ==
  \A c \in Conns :
    \/ conn[c].lua_ref
    \/ InSeq(<<"close_connection", c>>, stack)
    \/ conn[c].lua_reader_tid = NoTid /\ conn[c].lua_writer_tid = NoTid

\* A thread blocked on a connection is the one the connection will resume,
\* and its tid is still registered: no wakeup is lost.
NoLostWakeup ==
  \A t \in Tids : LET c == wait[t][2] IN
    /\ wait[t][1] = "read" => t \in registry /\ conn[c].lua_reader_tid = t
    /\ wait[t][1] \in {"write", "connect"} =>
         t \in registry /\ c \in Conns /\ conn[c].lua_writer_tid = t

\* lua_writer_tid is the "ID of the writing coroutine": the thread it names is
\* blocked on that connection in connect or write.
WriterTidNamesWriter ==
  \A c \in Conns : LET t == conn[c].lua_writer_tid IN
    t # NoTid => wait[t] \in {<<"write", c>>, <<"connect", c>>}

\* A thread blocked in read, write or connect on a connection continues only
\* because of that connection: the step that resumes it takes its tid out of
\* the connection (or is the connect's own answer).
WakeMatchesWait ==
  [][\A t \in Tids : LET c == wait[t][2] IN
       wait'[t][1] = "running" =>
         /\ wait[t][1] = "read" =>
              conn[c].lua_reader_tid = t /\ conn'[c].lua_reader_tid = NoTid
         /\ wait[t][1] = "write" =>
              conn[c].lua_writer_tid = t /\ conn'[c].lua_writer_tid = NoTid
         /\ wait[t][1] = "connect" =>
              /\ c \in Conns
              /\ conn[c].lua_writer_tid = t
              /\ conn[c].connect_req # conn'[c].connect_req
                   \/ conn'[c].lua_writer_tid = NoTid
    ]_vars

\* Bytes that libuv reads go to the coroutine servicing the connection: when
\* the loop may call on_read, a reader waits for what it delivers.
ReadingHasReader ==
  Idle => \A c \in Conns :
            conn[c].uv["handle"] = "active" => conn[c].lua_reader_tid # NoTid

\* A connection that was closed is eventually freed, unless the process is
\* aborted.
EventuallyFreed ==
  \A c \in Conns :
    (conn[c].mem = "live" /\ ~conn[c].lua_ref) ~> (conn[c].mem = "freed" \/ callback = Aborted)

\* A thread that writes with a timeout does not stay blocked in that write,
\* though the peer may never take the data and other callbacks, on_read among
\* them, come in between.
WriteTimesOut ==
  \A t \in Tids, c \in Conns :
    (wait[t] = <<"write", c>> /\ conn[c].uv["write_timer"] = "active")
      ~> (wait[t] # <<"write", c>> \/ callback = Aborted)

\* The read timeout that luaw_server_config sets ends a read: a thread that
\* reads with a timeout does not stay blocked in that read.
ReadTimesOut ==
  \A t \in Tids, c \in Conns :
    (wait[t] = <<"read", c>> /\ conn[c].uv["read_timer"] = "active")
      ~> (wait[t] # <<"read", c>> \/ callback = Aborted)

=============================================================================
