-------------------------- MODULE NativeCallsProofs --------------------------
(***************************************************************************)
(* Theorems about NativeCalls, for any threads, methods, capacities and    *)
(* interrupts: what a call has done when it ends.                          *)
(***************************************************************************)
EXTENDS NativeCalls, TLAPS

(***************************************************************************)
(* The inductive invariant                                                 *)
(***************************************************************************)

\* A thread calls only its own methods, so no other is in the same one.
OwnMethods ==
    \A t \in Threads :
        /\ method[t] \in MayCall[t] \cup {"none"}
        /\ pc[t] # "idle" => method[t] # "none"

\* What a call that has a value to return has done.
Outcome(t) ==
    \/ effects[t] = 1
    \/ effects[t] = 0 /\ method[t] = "push" /\ (~open \/ core = "done")

Effects ==
    \A t \in Threads :
        /\ pc[t] \in {"enter", "started", "waiting", "check", "cleanup", "raised"}
              => effects[t] = 0
        /\ pc[t] \in {"value", "returned"} => Outcome(t)

\* Only an exception that was asked for is pending or raised, and none is left
\* pending when a call ends.
Exceptions ==
    \A t \in Threads :
        /\ intr[t] = "raise" \/ pc[t] \in {"cleanup", "raised"} => asked[t]
        /\ pc[t] \notin InCall => intr[t] = "none"

\* push_message waits without a sender only on a closed connection.
Senders ==
    \A t \in Threads :
        pc[t] = "waiting" /\ method[t] = "push" /\ ~held => ~open

Cleanups == \A t \in Threads : pc[t] = "cleanup" => method[t] = "run" /\ ~open

NInv ==
    /\ TypeOK
    /\ OwnMethods
    /\ Effects
    /\ Exceptions
    /\ Senders
    /\ Cleanups
    /\ NothingLeftRunning

(***************************************************************************)
(* The proof                                                               *)
(***************************************************************************)

\* Two threads are never in the same method.
LEMMA OneCaller ==
    ASSUME OwnMethods, NEW t \in Threads, NEW u \in Threads,
           method[t] = method[u], method[t] # "none"
    PROVE  t = u
BY CallsAssumption DEF OwnMethods

\* It holds before the first call.
LEMMA InitInv == Init => NInv
<1> SUFFICES ASSUME Init PROVE NInv
    OBVIOUS
<1> USE DEF Init
<1>1. TypeOK
  <2>1. /\ method \in [Threads -> Methods \cup {"none"}]
        /\ pc \in [Threads -> Pcs]
        /\ intr \in [Threads -> {"none", "noise", "raise"}]
    BY DEF Pcs
  <2>2. /\ permit \in [Threads -> BOOLEAN]
        /\ asked \in [Threads -> BOOLEAN]
        /\ effects \in [Threads -> Nat]
    OBVIOUS
  <2>3. interrupts \in 0 .. MaxInterrupts /\ queued \in 0 .. InCap /\ out \in 0 .. OutBound
    BY CallsAssumption
  <2> QED BY <2>1, <2>2, <2>3 DEF TypeOK
<1>2. OwnMethods
    BY DEF OwnMethods
<1>3. Effects
    BY DEF Effects
<1>4. Exceptions
    BY DEF Exceptions
<1>5. Senders /\ Cleanups /\ NothingLeftRunning
    BY DEF Senders, Cleanups, NothingLeftRunning
<1> QED BY <1>1, <1>2, <1>3, <1>4, <1>5 DEF NInv

\* Every step keeps the types.
LEMMA TypeStep == TypeOK /\ [Next]_vars => TypeOK'
<1> SUFFICES ASSUME TypeOK, [Next]_vars PROVE TypeOK'
    OBVIOUS
<1> USE CallsAssumption DEF TypeOK, Pcs
<1>1. ASSUME NEW t \in Threads, NEW m \in Methods, Call(t, m)
      PROVE  TypeOK'
    BY <1>1 DEF Call
<1>2. ASSUME NEW t \in Threads, Enter(t) PROVE TypeOK'
    BY <1>2 DEF Enter, Goto, coreVars
<1>3. ASSUME NEW t \in Threads, Poll(t) PROVE TypeOK'
    BY <1>3 DEF Poll, Goto
<1>4. ASSUME NEW t \in Threads, Complete(t) PROVE TypeOK'
    BY <1>4 DEF Complete, Goto, Works, SendsFrame, TakesMessage, TaskEnded,
        Undeliverable
<1>5. ASSUME NEW t \in Threads, Cancelled(t) PROVE TypeOK'
    BY <1>5 DEF Cancelled, Goto
<1>6. ASSUME NEW t \in Threads, Return(t) PROVE TypeOK'
    BY <1>6 DEF Return, Goto, coreVars
<1>7. ASSUME NEW t \in Threads, CheckInts(t) PROVE TypeOK'
    BY <1>7 DEF CheckInts, Goto
<1>8. ASSUME NEW t \in Threads, CleanedUp(t) PROVE TypeOK'
    BY <1>8 DEF CleanedUp, Goto, coreVars
<1>9. ASSUME NEW t \in Threads, NEW how \in {"noise", "raise"}, Interrupt(t, how)
      PROVE  TypeOK'
    BY <1>9 DEF Interrupt, Unblock, coreVars
<1>10. ASSUME Close \/ CoreEnds \/ DispatchEnds \/ UNCHANGED vars PROVE TypeOK'
    BY <1>10 DEF Close, CoreEnds, DispatchEnds, threadVars, vars
<1>11. ASSUME CoreTakes \/ CoreSends \/ CoreRefuses PROVE TypeOK'
    BY <1>11 DEF CoreTakes, CoreSends, CoreRefuses, threadVars
<1> HIDE DEF TypeOK
<1> QED BY <1>1, <1>2, <1>3, <1>4, <1>5, <1>6, <1>7, <1>8, <1>9, <1>10,
           <1>11
        DEF Next, Step

\* Every step keeps the inductive invariant.
LEMMA InvStep == NInv /\ [Next]_vars => NInv'
<1> SUFFICES ASSUME NInv, [Next]_vars PROVE NInv'
    OBVIOUS
<1>1. TypeOK /\ TypeOK'
    BY TypeStep DEF NInv
<1> DEFINE Rest == OwnMethods /\ Effects /\ Exceptions /\ Senders /\ Cleanups /\ NothingLeftRunning
<1>2. Rest
    BY DEF NInv
<1>3. ASSUME NEW t \in Threads, NEW m \in Methods, Call(t, m)
      PROVE  Rest'
  <2> USE <1>1, <1>2, <1>3 DEF TypeOK, Call
  <2>1. OwnMethods'
    <3> SUFFICES ASSUME NEW u \in Threads
                 PROVE  /\ method'[u] \in MayCall[u] \cup {"none"}
                        /\ pc'[u] # "idle" => method'[u] # "none"
      BY DEF OwnMethods
    <3>1. CASE u = t
      BY <3>1 DEF Methods
    <3>2. CASE u # t
      BY <3>2 DEF OwnMethods
    <3> QED BY <3>1, <3>2
  <2>2. Effects'
    BY DEF Effects, Outcome
  <2>3. Exceptions'
    BY DEF Exceptions, InCall, Pcs
  <2>4. Senders'
    BY OneCaller DEF Senders, OwnMethods
  <2>5. Cleanups'
    BY DEF Cleanups
  <2>6. NothingLeftRunning'
    BY CallsAssumption DEF NothingLeftRunning, OwnMethods
  <2> QED BY <2>1, <2>2, <2>3, <2>4, <2>5, <2>6
<1>4. ASSUME NEW t \in Threads, Enter(t)
      PROVE  Rest'
  <2> USE <1>1, <1>2, <1>4 DEF TypeOK, Enter, Goto, coreVars
  <2>1. OwnMethods'
    BY DEF OwnMethods
  <2>2. Effects'
    BY DEF Effects, Outcome
  <2>3. Exceptions'
    BY DEF Exceptions, InCall, Pcs
  <2>4. Senders'
    BY OneCaller DEF Senders, OwnMethods
  <2>5. Cleanups'
    BY DEF Cleanups
  <2>6. NothingLeftRunning'
    BY DEF NothingLeftRunning
  <2> QED BY <2>1, <2>2, <2>3, <2>4, <2>5, <2>6
<1>5. ASSUME NEW t \in Threads, Poll(t)
      PROVE  Rest'
  <2> USE <1>1, <1>2, <1>5 DEF TypeOK, Poll, Goto
  <2>1. OwnMethods'
    BY DEF OwnMethods
  <2>2. Effects'
    BY DEF Effects, Outcome
  <2>3. Exceptions'
    BY DEF Exceptions, InCall, Pcs
  <2>4. Senders'
    BY OneCaller DEF Senders, OwnMethods
  <2>5. Cleanups'
    BY DEF Cleanups
  <2>6. NothingLeftRunning'
    BY DEF NothingLeftRunning
  <2> QED BY <2>1, <2>2, <2>3, <2>4, <2>5, <2>6
<1>6. ASSUME NEW t \in Threads, Complete(t)
      PROVE  Rest'
  <2> USE <1>1, <1>2, <1>6 DEF TypeOK, Complete, Goto
  <2>1. OwnMethods'
    BY DEF OwnMethods
  <2>2. Effects'
    <3>1. core' = core /\ open' = open /\ method' = method /\ pc' = [pc EXCEPT ![t] = "value"]
      OBVIOUS
    <3>2. effects[t] = 0
      BY DEF Effects
    <3>3. CASE effects' = [effects EXCEPT ![t] = @ + 1]
      <4>1. effects'[t] = 1
        BY <3>2, <3>3
      <4> QED BY <3>1, <3>3, <4>1 DEF Effects, Outcome
    <3>4. CASE Undeliverable(method[t]) /\ effects' = effects
      <4>1. method[t] = "push" /\ (~open \/ core = "done")
        BY <3>4 DEF Undeliverable, Senders
      <4> QED BY <3>1, <3>2, <3>4, <4>1 DEF Effects, Outcome
    <3> QED BY <3>3, <3>4
  <2>3. Exceptions'
    BY DEF Exceptions, InCall, Pcs
  <2>4. Senders'
    BY OneCaller DEF Senders, OwnMethods
  <2>5. Cleanups'
    BY DEF Cleanups
  <2>6. NothingLeftRunning'
    BY DEF NothingLeftRunning
  <2> QED BY <2>1, <2>2, <2>3, <2>4, <2>5, <2>6
<1>7. ASSUME NEW t \in Threads, Cancelled(t)
      PROVE  Rest'
  <2> USE <1>1, <1>2, <1>7 DEF TypeOK, Cancelled, Goto
  <2>1. OwnMethods'
    BY DEF OwnMethods
  <2>2. Effects'
    BY DEF Effects, Outcome
  <2>3. Exceptions'
    BY DEF Exceptions, InCall, Pcs
  <2>4. Senders'
    BY OneCaller DEF Senders, OwnMethods
  <2>5. Cleanups'
    BY DEF Cleanups
  <2>6. NothingLeftRunning'
    BY DEF NothingLeftRunning
  <2> QED BY <2>1, <2>2, <2>3, <2>4, <2>5, <2>6
<1>8. ASSUME NEW t \in Threads, Return(t)
      PROVE  Rest'
  <2> USE <1>1, <1>2, <1>8 DEF TypeOK, Return, Goto, coreVars
  <2>1. OwnMethods'
    BY DEF OwnMethods
  <2>2. Effects'
    BY DEF Effects, Outcome
  <2>3. Exceptions'
    BY DEF Exceptions, InCall, Pcs
  <2>4. Senders'
    BY OneCaller DEF Senders, OwnMethods
  <2>5. Cleanups'
    BY DEF Cleanups
  <2>6. NothingLeftRunning'
    BY DEF NothingLeftRunning
  <2> QED BY <2>1, <2>2, <2>3, <2>4, <2>5, <2>6
<1>9. ASSUME NEW t \in Threads, CheckInts(t)
      PROVE  Rest'
  <2> USE <1>1, <1>2, <1>9 DEF TypeOK, CheckInts, Goto
  <2>1. OwnMethods'
    BY DEF OwnMethods
  <2>2. Effects'
    BY DEF Effects, Outcome
  <2>3. Exceptions'
    BY DEF Exceptions, InCall, Pcs
  <2>4. Senders'
    BY OneCaller DEF Senders, OwnMethods
  <2>5. Cleanups'
    BY DEF Cleanups
  <2>6. NothingLeftRunning'
    BY DEF NothingLeftRunning
  <2> QED BY <2>1, <2>2, <2>3, <2>4, <2>5, <2>6
<1>10. ASSUME NEW t \in Threads, CleanedUp(t)
      PROVE  Rest'
  <2> USE <1>1, <1>2, <1>10 DEF TypeOK, CleanedUp, Goto, coreVars
  <2>1. OwnMethods'
    BY DEF OwnMethods
  <2>2. Effects'
    BY DEF Effects, Outcome
  <2>3. Exceptions'
    BY DEF Exceptions, InCall, Pcs
  <2>4. Senders'
    BY OneCaller DEF Senders, OwnMethods
  <2>5. Cleanups'
    BY DEF Cleanups
  <2>6. NothingLeftRunning'
    BY DEF NothingLeftRunning, Cleanups
  <2> QED BY <2>1, <2>2, <2>3, <2>4, <2>5, <2>6
<1>11. ASSUME NEW t \in Threads, NEW how \in {"noise", "raise"}, Interrupt(t, how)
      PROVE  Rest'
  <2> USE <1>1, <1>2, <1>11 DEF TypeOK, Interrupt, coreVars
  <2>1. OwnMethods'
    BY DEF OwnMethods
  <2>2. Effects'
    BY DEF Effects, Outcome
  <2>3. Exceptions'
    <3>1. pc' = pc /\ intr'[t] \in {intr[t], how} /\ pc[t] \in InCall
      OBVIOUS
    <3>2. \A u \in Threads \ {t} : intr'[u] = intr[u] /\ asked'[u] = asked[u]
      OBVIOUS
    <3>3. asked'[t] = (asked[t] \/ how = "raise")
      OBVIOUS
    <3>4. asked[t] \/ how = "raise" => asked'[t]
      BY <3>3
    <3>5. ASSUME NEW u \in Threads
          PROVE  /\ intr'[u] = "raise" \/ pc'[u] \in {"cleanup", "raised"} => asked'[u]
                 /\ pc'[u] \notin InCall => intr'[u] = "none"
      <4>1. CASE u = t
        BY <4>1, <3>1, <3>4 DEF Exceptions
      <4>2. CASE u # t
        BY <4>2, <3>1, <3>2 DEF Exceptions
      <4> QED BY <4>1, <4>2
    <3> QED BY <3>5 DEF Exceptions
  <2>4. Senders'
    BY OneCaller DEF Senders, OwnMethods
  <2>5. Cleanups'
    BY DEF Cleanups
  <2>6. NothingLeftRunning'
    BY DEF NothingLeftRunning
  <2> QED BY <2>1, <2>2, <2>3, <2>4, <2>5, <2>6
<1>12. ASSUME Close \/ CoreTakes \/ CoreSends \/ CoreEnds \/ CoreRefuses \/ DispatchEnds \/ UNCHANGED vars
      PROVE  Rest'
  <2> USE <1>1, <1>2, <1>12 DEF TypeOK, Close, CoreTakes, CoreSends, CoreEnds, CoreRefuses, DispatchEnds, threadVars, vars
  <2>1. OwnMethods'
    BY DEF OwnMethods
  <2>2. Effects'
    BY DEF Effects, Outcome
  <2>3. Exceptions'
    BY DEF Exceptions, InCall, Pcs
  <2>4. Senders'
    BY OneCaller DEF Senders, OwnMethods
  <2>5. Cleanups'
    BY DEF Cleanups
  <2>6. NothingLeftRunning'
    BY DEF NothingLeftRunning
  <2> QED BY <2>1, <2>2, <2>3, <2>4, <2>5, <2>6
<1> QED BY <1>1, <1>3, <1>4, <1>5, <1>6, <1>7, <1>8, <1>9, <1>10, <1>11, <1>12 DEF Next, Step, NInv

\* NInv holds throughout.
THEOREM Invariance == Spec => []NInv
BY InitInv, InvStep, PTL DEF Spec

(***************************************************************************)
(* The theorems                                                            *)
(***************************************************************************)

\* Every variable keeps its type: the incoming channel never holds more than its
\* capacity.
THEOREM Types == Spec => []TypeOK
<1>1. NInv => TypeOK
  BY DEF NInv
<1> QED BY <1>1, Invariance, PTL

\* A call that returned did its work once, or nothing on a closed connection; one
\* that raised did nothing, and was asked to: without_gvl repeats a call only
\* when its future was dropped before it took effect.
THEOREM Outcomes == Spec => []CallOutcome
<1>1. NInv => CallOutcome
  BY DEF NInv, Effects, Exceptions, Outcome, CallOutcome
<1> QED BY <1>1, Invariance, PTL

\* handle_request and run leave no task behind when an exception stops them.
THEOREM LeavesNothing == Spec => []NothingLeftRunning
<1>1. NInv => NothingLeftRunning
  BY DEF NInv
<1> QED BY <1>1, Invariance, PTL

(***************************************************************************)
(* The cleanup of run, which keeps the GVL until its task has ended, waits *)
(* for no Ruby thread that needs it: the core or a push that waits without *)
(* the GVL can go on, and each such step leaves less to wait for.  That    *)
(* the wait ends takes an induction over what is left, and is GvlReleased. *)
(***************************************************************************)

\* The future of a push_message holds the clone of the sender.
HeldByPush == held => \E u \in Threads : pc[u] = "waiting" /\ method[u] = "push"

\* run spawns its task before it waits for it.
RunStarted == \A t \in Threads : method[t] = "run" => core # "none"

\* The push_message of thread u gets room for its frame, without the GVL.
PushGoesOn(u) ==
    pc[u] = "waiting" /\ method[u] = "push" /\ held /\ queued < InCap

\* While a thread cleans up, its wait is over, or the core takes a frame or
\* ends, or a frame under way can be sent.
CleanupWaitsForNoGvl ==
    \A t \in Threads : pc[t] = "cleanup" =>
        \/ core = "done"
        \/ /\ core = "running" /\ ~open
           /\ queued > 0 \/ ~held \/ \E u \in Threads \ {t} : PushGoesOn(u)

\* The frames the core has yet to take; one under way has to be sent and taken.
Left == queued + (IF held THEN 2 ELSE 0)

\* While a thread cleans up no step adds to what is left, and the steps that
\* bring its end nearer take from it.
CleanupShrinks ==
    [][(\E t \in Threads : pc[t] = "cleanup") =>
          /\ Left' =< Left
          /\ CoreTakes \/ (\E u \in Threads : method[u] = "push" /\ Complete(u) /\ held)
                => Left' < Left]_vars

\* Who holds the sender, and when the task of run is there.
LEMMA HoldersStep ==
    ASSUME TypeOK, HeldByPush, RunStarted, [Next]_vars
    PROVE  HeldByPush' /\ RunStarted'
<1> USE DEF TypeOK, HeldByPush, RunStarted
<1>1. ASSUME NEW t \in Threads, NEW m \in Methods, Call(t, m)
      PROVE  HeldByPush' /\ RunStarted'
    BY <1>1 DEF Call, InCall, Pcs
<1>2. ASSUME NEW t \in Threads, Enter(t) \/ Return(t) \/ CheckInts(t) \/ CleanedUp(t)
      PROVE  HeldByPush' /\ RunStarted'
    BY <1>2 DEF Enter, Return, CheckInts, CleanedUp, Goto, coreVars
<1>3. ASSUME NEW t \in Threads, Poll(t)
      PROVE  HeldByPush' /\ RunStarted'
    BY <1>3 DEF Poll, Goto
<1>4. ASSUME NEW t \in Threads, Complete(t) \/ Cancelled(t)
      PROVE  HeldByPush' /\ RunStarted'
    <2>1. held' = (held /\ method[t] # "push") /\ UNCHANGED <<method, core>>
        BY <1>4 DEF Complete, Cancelled, Goto
    <2>2. \A u \in Threads : u # t => pc'[u] = pc[u]
        BY <1>4 DEF Complete, Cancelled, Goto
    <2> QED BY <2>1, <2>2
<1>5. ASSUME NEW t \in Threads, NEW how \in {"noise", "raise"}, Interrupt(t, how)
      PROVE  HeldByPush' /\ RunStarted'
    BY <1>5 DEF Interrupt, coreVars
<1>6. ASSUME Close \/ CoreTakes \/ CoreSends \/ CoreEnds \/ CoreRefuses \/ DispatchEnds
             \/ UNCHANGED vars
      PROVE  HeldByPush' /\ RunStarted'
    BY <1>6 DEF Close, CoreTakes, CoreSends, CoreEnds, CoreRefuses, DispatchEnds,
       threadVars, vars
<1> QED BY <1>1, <1>2, <1>3, <1>4, <1>5, <1>6 DEF Next, Step

\* HeldByPush and RunStarted hold in every reachable state.
LEMMA Holders == Spec => [](HeldByPush /\ RunStarted)
<1>1. Init => HeldByPush /\ RunStarted
    BY DEF Init, HeldByPush, RunStarted
<1> QED BY <1>1, HoldersStep, Types, PTL DEF Spec

\* The cleanup of run can always go on without another Ruby thread.
THEOREM CleanupNeedsNoRuby == Spec => []CleanupWaitsForNoGvl
<1>1. NInv /\ HeldByPush /\ RunStarted => CleanupWaitsForNoGvl
    <2> SUFFICES ASSUME NInv, HeldByPush, RunStarted, NEW t \in Threads,
                        pc[t] = "cleanup", core # "done"
                 PROVE  /\ core = "running" /\ ~open
                        /\ queued > 0 \/ ~held \/ \E u \in Threads \ {t} : PushGoesOn(u)
        BY DEF CleanupWaitsForNoGvl
    <2>1. method[t] = "run" /\ ~open
        BY DEF NInv, Cleanups
    <2>2. core = "running"
        BY <2>1 DEF NInv, TypeOK, RunStarted
    <2>3. ASSUME held, ~(queued > 0)
          PROVE  \E u \in Threads \ {t} : PushGoesOn(u)
        <3>1. PICK u \in Threads : pc[u] = "waiting" /\ method[u] = "push"
            BY <2>3 DEF HeldByPush
        <3>2. queued < InCap
            BY <2>3, CallsAssumption DEF NInv, TypeOK
        <3> QED BY <2>3, <3>1, <3>2 DEF PushGoesOn
    <2> QED BY <2>1, <2>2, <2>3
<1> QED BY <1>1, Invariance, Holders, PTL

\* What the cleanup of run waits for only gets less.
THEOREM CleanupEndsNearer == Spec => CleanupShrinks
<1>1. ASSUME NInv, Next, NEW t \in Threads, pc[t] = "cleanup"
      PROVE  /\ Left' =< Left
             /\ CoreTakes \/ (\E u \in Threads : method[u] = "push" /\ Complete(u) /\ held)
                   => Left' < Left
    <2>1. /\ ~open /\ queued \in Nat /\ held \in BOOLEAN
          /\ method \in [Threads -> Methods \cup {"none"}]
        BY <1>1, CallsAssumption DEF NInv, Cleanups, TypeOK
    <2>0. /\ queued' \in Nat /\ held' \in BOOLEAN
          /\ held => Left = queued + 2
          /\ ~held => Left = queued
          /\ held' => Left' = queued' + 2
          /\ ~held' => Left' = queued'
        BY <1>1, TypeStep, CallsAssumption DEF NInv, TypeOK, Left
    <2>2. ASSUME NEW u \in Threads, Complete(u)
          PROVE  Left' =< Left /\ (method[u] = "push" /\ held => Left' < Left)
        <3>1. CASE method[u] = "push"
            <4>1. ~held' /\ queued' \in {queued, queued + 1}
                BY <2>2, <3>1 DEF Complete, Works, Undeliverable, SendsFrame
            <4>2. queued' = queued + 1 => held
                BY <2>1, <2>2, <3>1 DEF Complete, Works, Undeliverable, SendsFrame
            <4> QED BY <2>0, <2>1, <4>1, <4>2
        <3>2. CASE method[u] # "push"
            <4>1. held' = held /\ queued' = queued
                BY <2>1, <2>2, <3>2 DEF Complete, Works, Undeliverable, TakesMessage, TaskEnded
            <4> QED BY <2>0, <2>1, <3>2, <4>1
        <3> QED BY <3>1, <3>2
    <2>3. CoreTakes => Left' < Left
        BY <2>1 DEF CoreTakes, Left
    <2>4. ASSUME NEW u \in Threads, Step(u), ~Complete(u)
          PROVE  Left' =< Left
        BY <2>1, <2>4 DEF Step, Enter, Poll, Cancelled, Return, CheckInts, CleanedUp,
           coreVars, Left
    <2>5. ASSUME NEW u \in Threads, NEW m \in Methods, Call(u, m)
          PROVE  Left' =< Left
        BY <2>1, <2>5 DEF Call, Left
    <2>6. ASSUME NEW u \in Threads, NEW how \in {"noise", "raise"}, Interrupt(u, how)
          PROVE  Left' =< Left
        BY <2>1, <2>6 DEF Interrupt, coreVars, Left
    <2>7. ASSUME Close \/ CoreSends \/ CoreEnds \/ CoreRefuses \/ DispatchEnds
          PROVE  Left' =< Left
        BY <2>1, <2>7 DEF Close, CoreSends, CoreEnds, CoreRefuses, DispatchEnds, Left
    <2>8. Left' < Left => Left' =< Left
        <3>1. Left \in Nat /\ Left' \in Nat
            BY <2>0, <2>1
        <3> QED BY <3>1
    <2>9. Left' =< Left
        BY <1>1, <2>2, <2>3, <2>4, <2>5, <2>6, <2>7, <2>8 DEF Next
    <2> QED BY <2>2, <2>3, <2>9
<1>2. NInv /\ [Next]_vars =>
        [(\E t \in Threads : pc[t] = "cleanup") =>
            /\ Left' =< Left
            /\ CoreTakes \/ (\E u \in Threads : method[u] = "push" /\ Complete(u) /\ held)
                  => Left' < Left]_vars
    BY <1>1
<1> QED BY <1>2, Invariance, PTL DEF Spec, CleanupShrinks
=============================================================================
