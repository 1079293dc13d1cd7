------------------------------ MODULE Threads ------------------------------
(***************************************************************************)
(* How C code and Lua threads (coroutines) run each other: the C stack of  *)
(* nested resumes, resume_lua_thread (src/luaw_common.c), and what the     *)
(* scheduler (lib/luaw_scheduler.lua) does with the tid it is given.       *)
(*                                                                         *)
(* Everything runs on one OS thread.  A callback may resume a Lua thread,  *)
(* and a call that thread makes may resume others, nested on the same C    *)
(* stack.  What the Lua code does between two calls is arbitrary, so a     *)
(* running thread may make any call next.                                  *)
(***************************************************************************)
EXTENDS Integers, Sequences

CONSTANTS
  Tids,     \* thread ids handed out by the scheduler's registry
  NoTid,    \* the tid 0 (and the nil tid) of the code
  Nothing   \* what a thread that waits for no object waits on

VARIABLES
  wait,      \* Tids -> <<what the thread is doing, object it waits on>>
  registry,  \* the tids present in the scheduler's threadRegistry
  current,   \* tid of currentRunningThreadCtx, NoTid if that is nil
  stack      \* the C stack above the libuv callback, innermost frame first

OptTid == Tids \cup {NoTid}

InSeq(f, s) == \E i \in 1 .. Len(s) : s[i] = f
OnStack(t) == InSeq(<<"thread", t>>, stack)

\* Thread t executes Lua code and is about to make its next call.
Executes(t) == stack # <<>> /\ Head(stack) = <<"thread", t>>

\* A thread is resumed on top of the frames `below'.
Run(t, below) ==
  /\ stack' = <<<<"thread", t>>>> \o below
  /\ current' = t
  /\ wait' = [wait EXCEPT ![t] = <<"running", Nothing>>]

\* resume_lua_thread and the scheduler's resumeThreadId.  A tid that is not
\* registered raises an error that lua_pcall catches (the slot may hold a
\* free-list link, which then ends up in currentRunningThreadCtx).  Resuming
\* a thread that is not suspended makes coroutine.resume fail, which the
\* scheduler takes for the end of that thread.
resume_lua_thread(t, below) ==
  \/ /\ t = NoTid
     /\ stack' = below
     /\ UNCHANGED <<wait, registry, current>>
  \/ /\ t # NoTid /\ t \notin registry
     /\ stack' = below
     /\ current' \in {current, NoTid}
     /\ UNCHANGED <<wait, registry>>
  \/ /\ t # NoTid /\ t \in registry /\ OnStack(t)
     /\ registry' = registry \ {t}
     /\ current' = NoTid
     /\ stack' = below
     /\ UNCHANGED wait
  \/ /\ t # NoTid /\ t \in registry /\ ~OnStack(t)
     /\ Run(t, below)
     /\ UNCHANGED registry

\* The running thread t yields (or returns) to whoever resumed it;
\* afterResume clears currentRunningThreadCtx.
Yield(t, doing, c) ==
  /\ stack' = Tail(stack)
  /\ current' = NoTid
  /\ wait' = [wait EXCEPT ![t] = <<doing, c>>]

=============================================================================
