----------------------------- MODULE Component ------------------------------
(***************************************************************************)
(* A component at run time: its thread (component_actor), one timer port   *)
(* with its thread, the one-shot timers of scheduled actions, each a       *)
(* thread of its own, and the controller that terminates the component     *)
(* (ComponentBase::Terminate).                                             *)
(*                                                                         *)
(* The component thread reads one message at a time and runs the handler   *)
(* of the application, which may start, halt and re-arm the timer and      *)
(* schedule actions.  The poller may return any port that has a message.   *)
(***************************************************************************)
EXTENDS PeriodicTimer

CONSTANTS
    MaxTimers,  \* bound: one-shot timers scheduled
    MaxCalls    \* bound: calls of the application in one handler

ASSUME BoundAssumption == MaxTimers \in Nat /\ MaxCalls \in Nat

VARIABLES
    cpc,        \* "first", "poll", "handler", "done"; "aborted": the process is gone
    calls,      \* calls left in this handler
    scheduled,  \* the call that scheduled each one-shot timer; ids count up from 1
    expired,    \* the timers whose message is sent
    action,     \* scheduled_action_, named by the timer it came with; 0 when empty
    ran,        \* history: ran[i], the action that the message of i has run, or 0
    ctl         \* where Terminate() is

actionVars == <<scheduled, expired, action, ran>>
OneShot == 1 .. MaxTimers

vars == <<timerVars, cpc, calls, actionVars, ctl>>

Init ==
    /\ TimerInit
    /\ cpc = "first"
    /\ calls = 0
    /\ scheduled = << >> /\ expired = {}
    /\ action = 0
    /\ ran = [i \in OneShot |-> 0]
    /\ ctl = "run"

-----------------------------------------------------------------------------
(* The component thread.                                                   *)

\* The first turn of the loop creates the timer port, and starts it unless it
\* is sporadic.
FirstRun ==
    /\ cpc = "first"
    /\ cpc' = "handler" /\ calls' = 0
    /\ IF sporadic THEN UNCHANGED <<call, asked>> ELSE StartCall("component")
    /\ UNCHANGED <<sporadic, delay, hasStarted, pipe, started, tpc, events, actionVars, ctl>>

\* Mutant of ReadTimer: a message is read whether there is one or not.
ReadTimerBlindly ==
    /\ cpc = "poll"
    /\ events' = events - 1
    /\ cpc' = "handler" /\ calls' = MaxCalls
    /\ UNCHANGED <<sporadic, delay, hasStarted, call, pipe, started, tpc, asked, actionVars, ctl>>

\* A message of the timer port.
ReadTimer ==
    /\ cpc = "poll" /\ events > 0
    /\ events' = events - 1
    /\ cpc' = "handler" /\ calls' = MaxCalls
    /\ UNCHANGED <<sporadic, delay, hasStarted, call, pipe, started, tpc, asked, actionVars, ctl>>

\* A message of another port: what it holds is the application's.
ReadPort ==
    /\ cpc = "poll"
    /\ cpc' = "handler" /\ calls' = MaxCalls
    /\ UNCHANGED <<timerVars, actionVars, ctl>>

\* The message of a one-shot timer runs scheduled_action_, which has one place
\* for all of them.  An empty one throws, and nothing catches it.
RunAction(i) ==
    /\ cpc = "poll" /\ ran[i] = 0
    /\ ran' = [ran EXCEPT ![i] = action]
    /\ cpc' = IF action = 0 THEN "aborted" ELSE "handler"
    /\ calls' = MaxCalls
    /\ UNCHANGED <<timerVars, scheduled, expired, action, ctl>>

\* $TERM ends the loop.
ReadTerm ==
    /\ cpc = "poll" /\ ctl = "stopComponent"
    /\ cpc' = "done"
    /\ UNCHANGED <<timerVars, calls, actionVars, ctl>>

\* A call of the handler, between two others.
InHandler ==
    /\ cpc = "handler" /\ call["component"] = "none" /\ calls > 0
    /\ calls' = calls - 1
    /\ UNCHANGED <<cpc, ctl>>

CallTimer ==
    /\ InHandler
    /\ Len(pipe) < MaxPipe
    /\ StartCall("component") \/ HaltCall("component")
    /\ UNCHANGED <<sporadic, delay, hasStarted, pipe, started, tpc, events, actionVars>>

SetDelay ==
    /\ InHandler /\ sporadic
    /\ delay' = ~ delay
    /\ UNCHANGED <<sporadic, hasStarted, call, pipe, started, tpc, events, asked, actionVars>>

\* The action of an earlier timer that has not been run yet is overwritten.
ScheduleAction ==
    /\ InHandler /\ Len(scheduled) < MaxTimers
    /\ scheduled' = Append(scheduled, "action")
    /\ action' = Len(scheduled')
    /\ UNCHANGED <<timerVars, expired, ran>>

\* The timer of a component that has no action to run.
ScheduleAbsTimer ==
    /\ InHandler /\ Len(scheduled) < MaxTimers
    /\ scheduled' = Append(scheduled, "timer")
    /\ UNCHANGED <<timerVars, expired, action, ran>>

\* The rest of a Start() or a Halt().  zactor_send asserts that there is an
\* actor: Stop() has set timer_actor_ to null.
FinishCall ==
    \/ SetStarted("component") /\ UNCHANGED <<cpc, calls, actionVars, ctl>>
    \/ /\ ctl \in {"run", "stopTimer"}
       /\ SendCommand("component") /\ UNCHANGED <<cpc, calls, actionVars, ctl>>
    \/ /\ cpc = "handler" /\ call["component"] \in {"send_start", "send_halt"}
       /\ ctl = "stopComponent"
       /\ cpc' = "aborted"
       /\ UNCHANGED <<timerVars, calls, actionVars, ctl>>

HandlerReturns ==
    /\ cpc = "handler" /\ call["component"] = "none"
    /\ cpc' = "poll"
    /\ UNCHANGED <<timerVars, calls, actionVars, ctl>>

ComponentThread ==
    \/ FirstRun \/ ReadTimer \/ ReadPort \/ ReadTerm
    \/ CallTimer \/ SetDelay \/ FinishCall \/ HandlerReturns
    \/ ScheduleAction \/ ScheduleAbsTimer
    \/ \E i \in expired : RunAction(i)

-----------------------------------------------------------------------------
(* The other threads.                                                      *)

\* The thread of a one-shot timer wakes up and sends its message.
Expire(i) ==
    /\ cpc # "aborted" /\ i \in DOMAIN scheduled \ expired
    /\ expired' = expired \cup {i}
    /\ UNCHANGED <<timerVars, cpc, calls, scheduled, action, ran, ctl>>

\* Stop() of the timer sends $TERM and waits.  A component that has not run
\* yet has no timer to stop, and the null pointer is followed.
Terminate ==
    /\ cpc # "aborted" /\ ctl = "run"
    /\ ctl' = "stopTimer"
    /\ IF cpc = "first" THEN cpc' = "aborted" /\ UNCHANGED pipe
       ELSE pipe' = Append(pipe, "$TERM") /\ UNCHANGED cpc
    /\ UNCHANGED <<sporadic, delay, hasStarted, call, started, tpc, events, asked, calls, actionVars>>

\* Mutant of TimerStopped: the end of the timer thread is not waited for.
TimerStoppedAtOnce ==
    /\ cpc # "aborted" /\ ctl = "stopTimer"
    /\ ctl' = "stopComponent"
    /\ UNCHANGED <<timerVars, cpc, calls, actionVars>>

\* The timer thread is gone: $TERM to the component thread.
TimerStopped ==
    /\ cpc # "aborted" /\ ctl = "stopTimer" /\ tpc = "done"
    /\ ctl' = "stopComponent"
    /\ UNCHANGED <<timerVars, cpc, calls, actionVars>>

\* The component thread is gone: the ports are deleted.
ComponentStopped ==
    /\ ctl = "stopComponent" /\ cpc = "done"
    /\ ctl' = "deleted"
    /\ UNCHANGED <<timerVars, cpc, calls, actionVars>>

Stopping == TimerStopped \/ ComponentStopped

\* The timer thread exists once the port does.
RunTimer ==
    /\ cpc \notin {"first", "aborted"}
    /\ TimerThread
    /\ UNCHANGED <<cpc, calls, actionVars, ctl>>

Next ==
    \/ ComponentThread \/ RunTimer \/ Terminate \/ Stopping
    \/ \E i \in OneShot : Expire(i)

Spec == Init /\ [][Next]_vars

\* Every thread runs.  $TERM is not overtaken for ever by the messages of the
\* ports: the command pipe is the first socket of the poller.
Fairness ==
    /\ WF_vars(RunTimer)
    /\ WF_vars(ComponentThread)
    /\ SF_vars(ReadTerm)
    /\ WF_vars(Stopping)

FairSpec == Spec /\ Fairness

-----------------------------------------------------------------------------
TypeOK ==
    /\ TimerTypeOK
    /\ cpc \in {"first", "poll", "handler", "done", "aborted"}
    /\ calls \in 0 .. MaxCalls
    /\ scheduled \in Seq({"action", "timer"}) /\ expired \subseteq DOMAIN scheduled
    /\ DOMAIN scheduled \subseteq OneShot
    /\ action \in OneShot \cup {0} /\ ran \in [OneShot -> OneShot \cup {0}]
    /\ ctl \in {"run", "stopTimer", "stopComponent", "deleted"}

\* A periodic timer obeys its owner: when no call is under way and the pipe
\* is empty, the timer thread fires exactly when has_started_ says so.
PeriodicObeys ==
    ~ sporadic /\ pipe = << >> /\ call["component"] = "none" => started = hasStarted

\* Terminate() deletes the ports (r_componentbase.cc:357) only when nobody can use
\* them any more: the timer thread and the component thread have ended, and neither
\* ended inside a Start() or Halt() of the timer port.
PortsDeletedUnused ==
    ctl = "deleted" =>
        tpc = "done" /\ cpc = "done" /\ \A t \in Thread : call[t] = "none"

\* A periodic timer that is started fires, unless it is halted or the
\* component is terminated first.
PeriodicFires ==
    (~ sporadic /\ asked) ~> (~ asked \/ ctl # "run" \/ cpc = "aborted")

\* Terminate() returns, unless it waits for a sporadic timer that has been
\* started with no delay, whose thread never looks at its pipe.
TerminateEnds ==
    (ctl = "stopTimer") ~>
        (ctl = "deleted" \/ cpc = "aborted" \/ (sporadic /\ started /\ ~ delay))

\* What the header says of Start(): a timer with a period or a delay that is
\* started fires, unless it is halted or the component is terminated first.
StartTakesEffect ==
    asked ~> (~ asked \/ (sporadic /\ ~ delay) \/ ctl # "run" \/ cpc = "aborted")
=============================================================================
