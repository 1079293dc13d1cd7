------------------------------ MODULE LogFile ------------------------------
(***************************************************************************)
(* File logging: logToFile of luaw_logging.lua, which buffers lines and    *)
(* hands them over in batches, and luaw_logging.c, which opens, writes,    *)
(* rotates and closes the log file with asynchronous libuv requests.       *)
(*                                                                         *)
(* A request runs on a thread of libuv's pool, which touches the file      *)
(* descriptors of the process, and is called back from the event loop, in  *)
(* the order in which requests finished.  Lines are numbered and count as  *)
(* one unit of size each.  Descriptors are taken and given up by the rest  *)
(* of the process too (connections), always the lowest that is free.       *)
(* Exhausted memory is modelled where the code answers it; a file's name,  *)
(* its sequence number and the syslog appender are not modelled.           *)
(***************************************************************************)
EXTENDS Integers, Sequences, FiniteSets, SequencesExt, FiniteSetsExt

CONSTANTS
  LinesToBuffer,  \* log_lines_buffer_count
  Capacity,       \* size of the ring buffer, 32 more than that in the code
  SizeLimit,      \* log_file_size_limit
  Threads,        \* threads of libuv's pool, 4 unless configured
  MaxFd,          \* bound: descriptors of the process
  MaxForeign,     \* bound: descriptors the rest of the process uses
  MaxLines        \* bound: lines logged

ASSUME LogAssumption ==
  /\ {LinesToBuffer, Capacity, SizeLimit, Threads, MaxFd} \subseteq Nat \ {0}
  /\ {MaxForeign, MaxLines} \subseteq Nat
  /\ LinesToBuffer <= Capacity

VARIABLES
  buffer,     \* logBuffer, the oldest line first
  logged,     \* lines logged so far
  noOfLogLinesDropped,
  logSize,
  log_state,  \* "LOG_NOT_OPEN", "OPENING_LOG" or "LOG_IS_OPEN"
  logfile,    \* the descriptor on_log_open stored, negative after an error
  fds,        \* what each descriptor is: Free, Foreign or a log file's number
  files,      \* the lines in each log file made so far
  pool,       \* requests submitted and not finished, in order
  finished,   \* requests finished and not called back, in order
  lost,       \* lines a write did not put into their file
  strayed,    \* a write or close hit what was not the file it was meant for
  raced       \* the log file changed while a write was under way

vars == <<buffer, logged, noOfLogLinesDropped, logSize, log_state, logfile, fds, files,
          pool, finished, lost, strayed, raced>>

luaVars == <<buffer, logged, noOfLogLinesDropped, logSize>>

Free == 0

Foreign == -1

\* The log file behind a descriptor, or Free if it is no descriptor at all.
At(fd) == IF fd \in 1..MaxFd THEN fds[fd] ELSE Free

Request(op, fd, lines, cb) ==
  [op |-> op, fd |-> fd, file |-> At(fd), lines |-> lines, cb |-> cb, result |-> 0]

Outstanding == ToSet(pool) \cup ToSet(finished)

-----------------------------------------------------------------------------
(* The event loop's thread: logToFile and the calls it makes.              *)

\* offerWithOverwrite: a full buffer gives up its oldest line.
offer(line) == Append(IF Len(buffer) = Capacity THEN Tail(buffer) ELSE buffer, line)

\* Mutation: OPENING_LOG even if the request was refused.
open_log_file_no_check(state, reqs) ==
  \E rc \in {0, -1} :
     /\ log_state' = IF state = "LOG_NOT_OPEN" THEN "OPENING_LOG" ELSE state
     /\ pool' = IF state = "LOG_NOT_OPEN" /\ rc = 0
                THEN Append(reqs, Request("open", 0, <<>>, "on_log_open")) ELSE reqs

\* Only one file is opened at a time; a request libuv refuses is forgotten.
open_log_file(state, reqs) ==
  \E rc \in {0, -1} :
     /\ log_state' = IF state = "LOG_NOT_OPEN" /\ rc = 0 THEN "OPENING_LOG" ELSE state
     /\ pool' = IF state = "LOG_NOT_OPEN" /\ rc = 0
                THEN Append(reqs, Request("open", 0, <<>>, "on_log_open")) ELSE reqs

\* Mutation: the last write of a file is called back as any other.
WriteRequest_no_close(batch, rotate) == Request("write", logfile, batch, "on_log_write")

\* The last write of a file is called back with close_log, but the log is not
\* open any more at once.
WriteRequest(batch, rotate) ==
  Request("write", logfile, batch, IF rotate THEN "close_log" ELSE "on_log_write")

\* Mutation: the lines stay in the buffer.
Batch_kept(lines) == lines

\* What the buffer holds once its lines were concatenated.
Batch(lines) == <<>>

\* logToFile(line) when there is no batch to write.
LogLine ==
  /\ logged < MaxLines
  /\ ~(log_state = "LOG_IS_OPEN" /\ Len(offer(logged + 1)) >= LinesToBuffer)
  /\ logged' = logged + 1
  /\ buffer' = offer(logged + 1)
  /\ noOfLogLinesDropped' = noOfLogLinesDropped + (IF Len(buffer) = Capacity THEN 1 ELSE 0)
  /\ IF log_state = "LOG_NOT_OPEN"
     THEN logSize' = 0 /\ open_log_file(log_state, pool)
     ELSE UNCHANGED <<logSize, log_state, pool>>
  /\ UNCHANGED <<logfile, fds, files, finished, lost, strayed, raced>>

\* Mutation: the size of the batch is not added.
NextSize_batch_only(batch) == Len(batch)

NextSize(batch) == logSize + Len(batch)

\* logToFile(line) when it makes a batch: write_log, and the next file's open if the
\* batch was the last of this one or was refused.  That the last write of a file be
\* refused is left out: the code does not look, and libuv refuses no single buffer.
LogBatch ==
  LET batch  == offer(logged + 1)
      rotate == NextSize(batch) >= SizeLimit
  IN
  /\ logged < MaxLines
  /\ log_state = "LOG_IS_OPEN" /\ Len(batch) >= LinesToBuffer
  /\ logged' = logged + 1
  /\ buffer' = Batch(batch)
  /\ noOfLogLinesDropped' = noOfLogLinesDropped + (IF Len(buffer) = Capacity THEN 1 ELSE 0)
  /\ \/ /\ ~rotate
        /\ logSize' = NextSize(batch)
        /\ pool' = Append(pool, WriteRequest(batch, FALSE))
        /\ UNCHANGED <<log_state, lost, raced>>
     \/ /\ rotate
        /\ logSize' = 0
        /\ open_log_file("LOG_NOT_OPEN", Append(pool, WriteRequest(batch, TRUE)))
        /\ UNCHANGED <<lost, raced>>
     \/ /\ ~rotate   \* uv_fs_write refuses
        /\ logSize' = 0
        /\ lost' = lost \cup ToSet(batch)
        /\ open_log_file("LOG_NOT_OPEN",
                         Append(pool, Request("close", logfile, <<>>, "on_log_close")))
        /\ raced' = (raced \/ \E q \in Outstanding : q.op = "write")
     \/ /\ logSize' = NextSize(batch)   \* no memory: the file stays open
        /\ lost' = lost \cup ToSet(batch)
        /\ UNCHANGED <<pool, log_state, raced>>
  /\ UNCHANGED <<logfile, fds, files, finished, strayed>>

-----------------------------------------------------------------------------
(* A thread of the pool finishes a request.                                *)

Finish(i, result) ==
  /\ pool' = RemoveAt(pool, i)
  /\ finished' = Append(finished, [pool[i] EXCEPT !.result = result])
  /\ UNCHANGED <<luaVars, log_state, logfile, raced>>

Running(i, op) == i \in DOMAIN pool /\ i <= Threads /\ pool[i].op = op

RunOpen(i) ==
  /\ Running(i, "open")
  /\ \/ \E fd \in 1..MaxFd :
          /\ fds[fd] = Free /\ \A k \in 1..(fd - 1) : fds[k] # Free
          /\ fds' = [fds EXCEPT ![fd] = Len(files) + 1]
          /\ files' = Append(files, <<>>)
          /\ Finish(i, fd)
     \/ Finish(i, -1) /\ UNCHANGED <<fds, files>>
  /\ UNCHANGED <<lost, strayed>>

\* A write may fail, or be cut short, which the code does not look at.
RunWrite(i) ==
  LET q == pool[i]
      f == At(q.fd)
  IN
  /\ Running(i, "write")
  /\ \E n \in {-1, Len(q.lines) - 1, Len(q.lines)} :
        /\ f = Free => n = -1
        /\ Finish(i, n)
        /\ files' = IF f > 0 /\ n > 0
                    THEN [files EXCEPT ![f] = @ \o SubSeq(q.lines, 1, n)] ELSE files
        /\ lost' = lost \cup IF f > 0 /\ n >= 0
                              THEN ToSet(SubSeq(q.lines, n + 1, Len(q.lines)))
                              ELSE ToSet(q.lines)
  /\ strayed' = (strayed \/ f # q.file)
  /\ UNCHANGED fds

RunClose(i) ==
  LET q == pool[i]
  IN
  /\ Running(i, "close")
  /\ Finish(i, IF At(q.fd) = Free THEN -1 ELSE 0)
  /\ fds' = IF q.fd \in 1..MaxFd THEN [fds EXCEPT ![q.fd] = Free] ELSE fds
  /\ strayed' = (strayed \/ At(q.fd) # q.file)
  /\ UNCHANGED <<files, lost>>

-----------------------------------------------------------------------------
(* The event loop calls back.                                              *)

on_log_open ==
  /\ finished # <<>> /\ Head(finished).cb = "on_log_open"
  /\ finished' = Tail(finished)
  /\ logfile' = Head(finished).result
  /\ log_state' = "LOG_IS_OPEN"
  /\ raced' = (raced \/ \E q \in Outstanding : q.op = "write")
  /\ UNCHANGED <<luaVars, fds, files, pool, lost, strayed>>

\* The file closed is the one logfile holds by now.
close_log(q) ==
  /\ pool' = Append(pool, [Request("close", logfile, <<>>, "on_log_close")
                           EXCEPT !.file = q.file])
  /\ raced' = (raced \/ \E p \in ToSet(pool) \cup ToSet(Tail(finished)) : p.op = "write")

CloseAfterWrite ==
  /\ finished # <<>> /\ Head(finished).cb = "close_log"
  /\ finished' = Tail(finished)
  /\ close_log(Head(finished))
  /\ UNCHANGED <<luaVars, log_state, logfile, fds, files, lost, strayed>>

\* Mutation: the log counts as open after an error.
on_log_write_stays_open ==
  /\ finished # <<>> /\ Head(finished).cb = "on_log_write"
  /\ finished' = Tail(finished)
  /\ IF Head(finished).result >= 0 THEN UNCHANGED <<pool, raced>> ELSE close_log(Head(finished))
  /\ UNCHANGED <<luaVars, log_state, logfile, fds, files, lost, strayed>>

on_log_write ==
  /\ finished # <<>> /\ Head(finished).cb = "on_log_write"
  /\ finished' = Tail(finished)
  /\ IF Head(finished).result >= 0
     THEN UNCHANGED <<log_state, pool, raced>>
     ELSE log_state' = "LOG_NOT_OPEN" /\ close_log(Head(finished))
  /\ UNCHANGED <<luaVars, logfile, fds, files, lost, strayed>>

on_log_close ==
  /\ finished # <<>> /\ Head(finished).cb = "on_log_close"
  /\ finished' = Tail(finished)
  /\ UNCHANGED <<luaVars, log_state, logfile, fds, files, pool, lost, strayed, raced>>

-----------------------------------------------------------------------------
(* The rest of the process opens and closes descriptors.                   *)

OtherOpens ==
  /\ Cardinality({fd \in 1..MaxFd : fds[fd] = Foreign}) < MaxForeign
  /\ \E fd \in 1..MaxFd :
       /\ fds[fd] = Free /\ \A k \in 1..(fd - 1) : fds[k] # Free
       /\ fds' = [fds EXCEPT ![fd] = Foreign]
  /\ UNCHANGED <<luaVars, log_state, logfile, files, pool, finished, lost, strayed, raced>>

OtherCloses ==
  /\ \E fd \in 1..MaxFd : fds[fd] = Foreign /\ fds' = [fds EXCEPT ![fd] = Free]
  /\ UNCHANGED <<luaVars, log_state, logfile, files, pool, finished, lost, strayed, raced>>

Init ==
  /\ buffer = <<>> /\ logged = 0 /\ noOfLogLinesDropped = 0 /\ logSize = 0
  /\ log_state = "LOG_NOT_OPEN" /\ logfile = 0
  /\ fds = [fd \in 1..MaxFd |-> Free] /\ files = <<>>
  /\ pool = <<>> /\ finished = <<>>
  /\ lost = {} /\ strayed = FALSE /\ raced = FALSE

Pool == \E i \in 1..Threads : RunOpen(i) \/ RunWrite(i) \/ RunClose(i)

Callback == on_log_open \/ CloseAfterWrite \/ on_log_write \/ on_log_close

Next == LogLine \/ LogBatch \/ Pool \/ Callback \/ OtherOpens \/ OtherCloses

Spec == Init /\ [][Next]_vars

\* The pool's threads and the event loop go on; nothing makes anyone log a line.
FairSpec == Spec /\ WF_vars(Pool) /\ WF_vars(Callback)

-----------------------------------------------------------------------------

RequestType ==
  [op : {"open", "write", "close"}, fd : Int, file : Int, lines : Seq(Nat),
   cb : {"on_log_open", "on_log_write", "close_log", "on_log_close"}, result : Int]

\* Every variable has its type, and a descriptor's log file is one that was made.
TypeOK ==
  /\ buffer \in Seq(Nat) /\ Len(buffer) <= Capacity
  /\ {logged, noOfLogLinesDropped, logSize} \subseteq Nat
  /\ log_state \in {"LOG_NOT_OPEN", "OPENING_LOG", "LOG_IS_OPEN"}
  /\ logfile \in Int
  /\ fds \in [1..MaxFd -> Foreign..Len(files)]
  /\ files \in Seq(Seq(Nat))
  /\ pool \in Seq(RequestType) /\ finished \in Seq(RequestType)
  /\ lost \subseteq Nat
  /\ strayed \in BOOLEAN /\ raced \in BOOLEAN

\* The places that hold a line, and the line in a place.
Places ==
  {<<"buffer", 1, j>> : j \in DOMAIN buffer}
  \cup (UNION {{<<"pool", i, j>> : j \in DOMAIN pool[i].lines} : i \in DOMAIN pool})
  \cup (UNION {{<<"file", f, j>> : j \in DOMAIN files[f]} : f \in DOMAIN files})

LineAt(p) ==
  CASE p[1] = "buffer" -> buffer[p[3]]
    [] p[1] = "pool"   -> pool[p[2]].lines[p[3]]
    [] p[1] = "file"   -> files[p[2]][p[3]]

\* Every line logged is in the buffer, in a write under way, in a log file or among the
\* lines a failed or short write lost, in one of them only and only once, except for as
\* many as noOfLogLinesDropped says the full buffer gave up.
LinesAccounted ==
  LET placed == {LineAt(p) : p \in Places}
  IN  /\ \A p, q \in Places : LineAt(p) = LineAt(q) => p = q
      /\ placed \cap lost = {}
      /\ placed \cup lost \subseteq 1..logged
      /\ Cardinality((1..logged) \ (placed \cup lost)) = noOfLogLinesDropped

\* Writes and closes reach the file they were meant for: never a descriptor that was
\* closed, or that is a connection's or the next log's by now.  The exception is a log
\* file that changes while a write is under way, since close_log closes whatever file
\* is the current one when it is called back.
OwnFileOnly == strayed => raced

\* A log file that is not in use any more has a request under way that closes it.
NoFileLeaks ==
  \/ raced
  \/ \A fd \in 1..MaxFd : fds[fd] > 0 =>
       \/ log_state = "LOG_IS_OPEN" /\ logfile = fd
       \/ \E q \in Outstanding : \/ q.cb = "on_log_open" /\ q.result = fd
                                 \/ q.fd = fd /\ q.cb \in {"close_log", "on_log_close"}
                                 \/ q.fd = fd /\ q.cb = "on_log_write" /\ q.result < 0

\* No log file grows past the limit by more than its last batch: as long as every
\* request reaches its own file, logSize covers all that is written to the file,
\* whatever writes are still under way when it is rotated.
FilesBounded ==
  ~strayed => \A f \in DOMAIN files : Len(files[f]) < SizeLimit + Capacity

\* The log does not stay in the state of being opened, in which nothing is written.
OpeningEnds == (log_state = "OPENING_LOG") ~> (log_state # "OPENING_LOG")
============================================================================
