----------------------------- MODULE NativeCalls -----------------------------
(***************************************************************************)
(* The blocking calls of the native Ruby gem (bindings/ruby/ext/outpunch): *)
(* without_gvl of gvl.rs and the methods of server.rs built on it, one     *)
(* connection and one request, each call made by a thread of its own as    *)
(* the Rack adapter makes them.                                            *)
(*                                                                         *)
(* A call releases the GVL, the lock every Ruby thread runs under, and     *)
(* waits on the tokio runtime.  Ruby may interrupt the thread at any step, *)
(* to raise an exception or for nothing ("noise": the VM timer, a wakeup,  *)
(* a signal, an exception deferred by Thread.handle_interrupt).  Of the    *)
(* core only what a call waits for is kept; TunnelServer has the rest.     *)
(***************************************************************************)
EXTENDS Naturals

CONSTANTS
    Threads,    \* Ruby threads
    MayCall,    \* the methods each thread calls
    InCap,      \* capacity of the incoming channel of a connection (64)
    OutBound,   \* bound: messages the unbounded `outgoing' channel holds
    MaxInterrupts   \* bound: interrupts in all

\* push_message, next_outgoing, run and handle_request.  (connected? repeats its
\* call as push_message does and waits for nothing but the lock of the core.)
Methods == {"push", "next", "run", "request"}

\* As in the Rack adapter, one thread reads the socket, one writes it and one is
\* in run.
ASSUME CallsAssumption ==
    /\ MayCall \in [Threads -> SUBSET Methods]
    /\ \A t, u \in Threads : t # u => MayCall[t] \cap MayCall[u] = {}
    /\ InCap \in Nat \ {0}
    /\ OutBound \in Nat
    /\ MaxInterrupts \in Nat

VARIABLES
    method,     \* the method the thread has called
    pc,         \* where it is in that call
    intr,       \* the interrupt Ruby has pending for it
    interrupts, \* how many interrupts there were
    permit,     \* whether the Notify of its call to without_gvl was notified
    asked,      \* history: an exception was raised in it during this call
    effects,    \* history: how often this call took effect in the core
    \* what the calls wait for
    open,       \* ConnectionInner.incoming_tx is Some
    held,       \* the future of push_message holds a clone of it
    queued,     \* how many frames the incoming channel holds
    core,       \* the task of run
    out,        \* how many messages the `outgoing' channel holds
    task        \* the task of handle_request

threadVars == <<method, pc, intr, interrupts, permit, asked, effects>>
coreVars == <<open, held, queued, core, out, task>>
vars == <<method, pc, intr, interrupts, permit, asked, effects, open, held, queued, core, out, task>>

Pcs == {"idle", "enter", "started", "waiting", "value", "check", "cleanup",
        "returned", "raised"}

\* The thread is inside rb_thread_call_without_gvl2, without the GVL.
Released == {"started", "waiting"}

InCall == Pcs \ {"idle", "returned", "raised"}

TypeOK ==
    /\ method \in [Threads -> Methods \cup {"none"}]
    /\ pc \in [Threads -> Pcs]
    /\ intr \in [Threads -> {"none", "noise", "raise"}]
    /\ interrupts \in 0 .. MaxInterrupts
    /\ permit \in [Threads -> BOOLEAN]
    /\ asked \in [Threads -> BOOLEAN]
    /\ effects \in [Threads -> Nat]
    /\ open \in BOOLEAN
    /\ held \in BOOLEAN
    /\ queued \in 0 .. InCap
    /\ core \in {"none", "running", "done"}
    /\ out \in 0 .. OutBound
    /\ task \in {"none", "running", "done", "aborted"}

Init ==
    /\ method = [t \in Threads |-> "none"]
    /\ pc = [t \in Threads |-> "idle"]
    /\ intr = [t \in Threads |-> "none"]
    /\ interrupts = 0
    /\ permit = [t \in Threads |-> FALSE]
    /\ asked = [t \in Threads |-> FALSE]
    /\ effects = [t \in Threads |-> 0]
    /\ open = TRUE
    /\ held = FALSE
    /\ queued = 0
    /\ core = "none"
    /\ out = 0
    /\ task = "none"

\* A thread runs Ruby code: no other holds the GVL.  All but the cleanup of
\* run give it up after a bounded time.
HasGvl(t) == \A u \in Threads \ {t} : pc[u] # "cleanup"

Goto(t, where) ==
    /\ pc' = [pc EXCEPT ![t] = where]
    /\ UNCHANGED <<method, interrupts>>

(***************************************************************************)
(* The calls                                                               *)
(***************************************************************************)

\* A thread calls a method.  handle_request and run spawn their task first; run
\* can only be called once.
Call(t, m) ==
    /\ HasGvl(t)
    /\ pc[t] \notin InCall
    /\ m \in MayCall[t]
    /\ m = "run" => core = "none"
    /\ method' = [method EXCEPT ![t] = m]
    /\ pc' = [pc EXCEPT ![t] = "enter"]
    /\ effects' = [effects EXCEPT ![t] = 0]
    /\ asked' = [asked EXCEPT ![t] = FALSE]
    /\ core' = IF m = "run" THEN "running" ELSE core
    /\ task' = IF m = "request" THEN "running" ELSE task
    /\ UNCHANGED <<intr, interrupts, permit, open, held, queued, out>>

\* Mutant: a func that was not called counts as one that returned.
EnterOrReturn(t) ==
    /\ HasGvl(t)
    /\ pc[t] = "enter"
    /\ Goto(t, IF intr[t] = "none" THEN "started" ELSE "returned")
    /\ UNCHANGED <<intr, permit, asked, effects, coreVars>>

\* rb_thread_call_without_gvl2: func is called unless an interrupt is pending.
Enter(t) ==
    /\ HasGvl(t)
    /\ pc[t] = "enter"
    /\ Goto(t, IF intr[t] = "none" THEN "started" ELSE "check")
    /\ UNCHANGED <<intr, permit, asked, effects, coreVars>>

\* func polls its select for the first time; push_message clones the sender.
Poll(t) ==
    /\ pc[t] = "started"
    /\ Goto(t, "waiting")
    /\ held' = IF method[t] = "push" THEN open ELSE held
    /\ UNCHANGED <<intr, permit, asked, effects, open, queued, core, out,
                   task>>

\* What the future of each method waits for, and what it then does.
SendsFrame ==
    /\ held
    /\ core # "done"
    /\ queued < InCap
    /\ queued' = queued + 1
    /\ UNCHANGED out

TakesMessage ==
    /\ \/ out > 0 /\ out' = out - 1
       \/ out = 0 /\ core = "done" /\ UNCHANGED out
    /\ UNCHANGED queued

TaskEnded(m) ==
    /\ IF m = "run" THEN core = "done" ELSE task = "done"
    /\ UNCHANGED <<queued, out>>

Works(m) ==
    \/ m = "push" /\ SendsFrame
    \/ m = "next" /\ TakesMessage
    \/ m \in {"run", "request"} /\ TaskEnded(m)

\* push_message has no sender, or nobody receives: it returns and sends nothing.
Undeliverable(m) ==
    m = "push" /\ (~held \/ core = "done") /\ UNCHANGED <<queued, out>>

\* select takes the branch of the method: func returns Some.
Complete(t) ==
    /\ pc[t] = "waiting"
    /\ \/ Works(method[t]) /\ effects' = [effects EXCEPT ![t] = @ + 1]
       \/ Undeliverable(method[t]) /\ UNCHANGED effects
    /\ Goto(t, "value")
    /\ permit' = [permit EXCEPT ![t] = FALSE]
    /\ held' = (held /\ method[t] # "push")
    /\ UNCHANGED <<intr, asked, open, core, task>>

\* select takes the branch of the Notify, which it may although the other is
\* ready too: the future is dropped and func returns None.
Cancelled(t) ==
    /\ pc[t] = "waiting"
    /\ permit[t]
    /\ Goto(t, "check")
    /\ permit' = [permit EXCEPT ![t] = FALSE]
    /\ held' = (held /\ method[t] # "push")
    /\ UNCHANGED <<intr, asked, effects, open, queued, core, out,
                   task>>

\* The method returns the value.  An exception that is pending is raised in
\* the Ruby code that called it.
Return(t) ==
    /\ HasGvl(t)
    /\ pc[t] = "value"
    /\ Goto(t, "returned")
    /\ intr' = [intr EXCEPT ![t] = "none"]
    /\ asked' = [asked EXCEPT ![t] = FALSE]
    /\ UNCHANGED <<permit, effects, coreVars>>

\* Mutants: the task of a request is left running; run does not close the
\* connection it waits for.
TaskLeft(t) ==
    /\ HasGvl(t)
    /\ pc[t] = "check"
    /\ intr' = [intr EXCEPT ![t] = "none"]
    /\ Goto(t, IF intr[t] # "raise" THEN "enter"
               ELSE IF method[t] = "run" THEN "cleanup" ELSE "raised")
    /\ open' = (open /\ ~(intr[t] = "raise" /\ method[t] = "run"))
    /\ UNCHANGED <<permit, asked, effects, held, queued, core, out, task>>
RunLeftOpen(t) ==
    /\ HasGvl(t)
    /\ pc[t] = "check"
    /\ intr' = [intr EXCEPT ![t] = "none"]
    /\ Goto(t, IF intr[t] # "raise" THEN "enter"
               ELSE IF method[t] = "run" THEN "cleanup" ELSE "raised")
    /\ UNCHANGED <<permit, asked, effects, coreVars>>

\* thread_check_ints.  An exception ends the call: handle_request aborts its
\* task, run closes the connection and waits for its own with the GVL held.
\* Anything else and the call is made again.
CheckInts(t) ==
    /\ HasGvl(t)
    /\ pc[t] = "check"
    /\ intr' = [intr EXCEPT ![t] = "none"]
    /\ IF intr[t] = "raise"
       THEN /\ Goto(t, IF method[t] = "run" THEN "cleanup" ELSE "raised")
            /\ open' = (open /\ method[t] # "run")
            /\ task' = IF method[t] = "request" /\ task = "running" THEN "aborted" ELSE task
       ELSE /\ Goto(t, "enter")
            /\ UNCHANGED <<open, task>>
    /\ UNCHANGED <<permit, asked, effects, held, queued, core, out>>

\* block_on(task) of run returns, and the exception propagates, or the one
\* that came after it.
CleanedUp(t) ==
    /\ pc[t] = "cleanup"
    /\ core = "done"
    /\ intr' = [intr EXCEPT ![t] = "none"]
    /\ Goto(t, "raised")
    /\ UNCHANGED <<permit, asked, effects, coreVars>>

\* close: the Rack adapter calls it, or another client replaces this one.
Close ==
    /\ open
    /\ open' = FALSE
    /\ UNCHANGED <<threadVars, held, queued, core, out, task>>

(***************************************************************************)
(* Ruby's interrupts                                                       *)
(***************************************************************************)

\* Mutant: only a task that waits on the Notify is notified.
NotifyWaiters(t) == permit' = [permit EXCEPT ![t] = @ \/ pc[t] = "waiting"]

\* unblock: notify_one leaves a permit that the select finds later.
Unblock(t) == permit' = [permit EXCEPT ![t] = @ \/ pc[t] \in Released]

\* Ruby interrupts the thread, which is unblocked if it is inside
\* rb_thread_call_without_gvl2.
Interrupt(t, how) ==
    /\ HasGvl(t)
    /\ pc[t] \in InCall
    /\ interrupts < MaxInterrupts
    /\ interrupts' = interrupts + 1
    /\ intr' = [intr EXCEPT ![t] = IF @ = "raise" THEN @ ELSE how]
    /\ asked' = [asked EXCEPT ![t] = @ \/ how = "raise"]
    /\ Unblock(t)
    /\ UNCHANGED <<method, pc, effects, coreVars>>

(***************************************************************************)
(* The core                                                                *)
(***************************************************************************)

\* run() receives a frame.
CoreTakes ==
    /\ core = "running"
    /\ queued > 0
    /\ queued' = queued - 1
    /\ UNCHANGED <<threadVars, open, held, core, out, task>>

\* The callback sends a message to the `outgoing' channel.
CoreSends ==
    /\ core = "running"
    /\ out < OutBound
    /\ out' = out + 1
    /\ UNCHANGED <<threadVars, open, held, queued, core, task>>

\* run() returns: every sender of the incoming channel is gone and it is empty.
CoreEnds ==
    /\ core = "running"
    /\ ~open /\ ~held /\ queued = 0
    /\ core' = "done"
    /\ UNCHANGED <<threadVars, open, held, queued, out, task>>

\* run() returns at once: the client did not authenticate.
CoreRefuses ==
    /\ core = "running"
    /\ core' = "done"
    /\ queued' = 0
    /\ UNCHANGED <<threadVars, open, held, out, task>>

\* dispatch returns, with a response or an error.
DispatchEnds ==
    /\ task = "running"
    /\ task' = "done"
    /\ UNCHANGED <<threadVars, open, held, queued, core, out>>

(***************************************************************************)
(* The specification                                                       *)
(***************************************************************************)
Step(t) ==
    \/ Enter(t) \/ Poll(t) \/ Complete(t) \/ Cancelled(t) \/ Return(t)
    \/ CheckInts(t) \/ CleanedUp(t)

Next ==
    \/ \E t \in Threads : \/ \E m \in Methods : Call(t, m)
                          \/ Step(t)
                          \/ \E how \in {"noise", "raise"} : Interrupt(t, how)
    \/ Close
    \/ CoreTakes \/ CoreSends \/ CoreEnds \/ CoreRefuses \/ DispatchEnds

Spec == Init /\ [][Next]_vars

\* Threads and the runtime run.  dispatch ends, by its timeout if by nothing
\* else.  Nobody need close the connection, the core may have nothing to send,
\* and Ruby may never interrupt a thread.
Fairness ==
    /\ \A t \in Threads : WF_vars(Step(t))
    /\ WF_vars(CoreTakes \/ CoreEnds)
    /\ WF_vars(DispatchEnds)

FairSpec == Spec /\ Fairness

(***************************************************************************)
(* Properties                                                              *)
(***************************************************************************)

\* However often Ruby interrupts it, a call that returns did its work once: it
\* sent its frame, unless the connection was closed, or took one message.  A
\* call that raises did nothing, and was asked to raise: no frame is sent twice
\* and no message is taken and lost when a call is interrupted and repeated.
CallOutcome ==
    \A t \in Threads :
        /\ pc[t] = "returned" =>
              \/ effects[t] = 1
              \/ effects[t] = 0 /\ method[t] = "push" /\ (~open \/ core = "done")
        /\ pc[t] \in {"cleanup", "raised"} => effects[t] = 0 /\ asked[t]

\* A method stopped by an exception leaves nothing running behind: the task of
\* handle_request is aborted, or had ended, and run has waited for its own.
NothingLeftRunning ==
    \A t \in Threads : pc[t] = "raised" =>
        /\ method[t] = "request" => task # "running"
        /\ method[t] = "run" => core = "done" /\ ~open

Busy(t) == pc[t] \in InCall

\* What a call can count on to end: an exception that is pending; the end of
\* dispatch; run, which makes room for a push; the close of the connection,
\* which ends run and, after the last message, next_outgoing.
WillEnd(t) ==
    \/ intr[t] = "raise"
    \/ method[t] = "request"
    \/ method[t] = "push" /\ core # "none"
    \/ method[t] \in {"run", "next"} /\ core # "none" /\ ~open

\* An exception stops a call that waits, for room, for a message, for a client
\* that never answers or never leaves, at whatever step it comes; and noise
\* keeps no call from its end.
CallsEnd == \A t \in Threads : Busy(t) /\ WillEnd(t) ~> ~Busy(t)

\* The thread in run does not keep the GVL for ever when it cleans up: what it
\* waits for, the frames under way among them, needs no Ruby thread.
GvlReleased ==
    (\E t \in Threads : pc[t] = "cleanup") ~> (\A t \in Threads : pc[t] # "cleanup")
=============================================================================
