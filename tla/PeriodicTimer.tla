--------------------------- MODULE PeriodicTimer ----------------------------
(***************************************************************************)
(* A timer port (r_periodictimer.cc): the object PeriodicTimer, which the  *)
(* component thread uses, and its thread ptimeractor.  They share          *)
(* has_started_ without a lock and a pipe of commands; the timer thread of *)
(* a sporadic timer calls Halt() too, after every firing.                  *)
(*                                                                         *)
(* has_started_ is a plain bool: its test, its assignment and the send     *)
(* that follows are separate steps of either thread.  Both threads use the *)
(* same end of the pipe, on which commands may arrive in either order.     *)
(* (Up to three threads, with the one that calls Stop(), use one CZMQ      *)
(* socket without a lock, which ZeroMQ forbids.  The order of their        *)
(* commands is modelled; that the socket itself may break is not.)         *)
(***************************************************************************)
EXTENDS Integers, Sequences

CONSTANTS
    MaxPipe,    \* bound: commands the application leaves unread in the pipe
    MaxEvents   \* bound: the high-water mark of the timer channel

ASSUME PipeAssumption == MaxPipe \in Nat /\ MaxEvents \in Nat

VARIABLES
    sporadic,    \* has_delay(): interval_ = 0
    delay,       \* delay_ is not zero
    hasStarted,  \* has_started_
    call,        \* call[t]: what is left of a Start() or Halt() that thread t is in
    pipe,        \* commands on their way to the timer thread
    started,     \* started, local to the timer thread
    tpc,         \* where the timer thread is
    events,      \* firings that the component has not read yet
    asked        \* history: Start() returned, and since then neither Halt() was
                 \* called by the component nor did the timer fire

timerVars == <<sporadic, delay, hasStarted, call, pipe, started, tpc, events, asked>>

Thread == {"component", "timer"}
Command == {"$START", "$HALT", "$TERM"}
Pending == {"none", "set_start", "send_start", "set_halt", "send_halt"}

TimerInit ==
    /\ sporadic \in BOOLEAN
    /\ delay = FALSE
    /\ hasStarted = FALSE
    /\ call = [t \in Thread |-> "none"]
    /\ pipe = << >>
    /\ started = FALSE
    /\ tpc = "loop"
    /\ events = 0
    /\ asked = FALSE

-----------------------------------------------------------------------------
(* Start() and Halt() of thread t.                                         *)

\* The test.  A timer that has started is left alone.
StartCall(t) ==
    /\ call[t] = "none"
    /\ call' = [call EXCEPT ![t] = IF hasStarted THEN "none" ELSE "set_start"]
    /\ asked' = (asked \/ hasStarted)

HaltCall(t) ==
    /\ call[t] = "none"
    /\ call' = [call EXCEPT ![t] = IF hasStarted THEN "set_halt" ELSE "none"]
    /\ asked' = (asked /\ t = "timer")

\* The assignment.
SetStarted(t) ==
    /\ call[t] \in {"set_start", "set_halt"}
    /\ hasStarted' = (call[t] = "set_start")
    /\ call' = [call EXCEPT ![t] = IF @ = "set_start" THEN "send_start" ELSE "send_halt"]
    /\ UNCHANGED <<sporadic, delay, pipe, started, tpc, events, asked>>

\* Mutant of SendCommand: a halted timer is not told.
SendCommandStartOnly(t) ==
    /\ call[t] \in {"send_start", "send_halt"}
    /\ pipe' = IF call[t] = "send_start" THEN Append(pipe, "$START") ELSE pipe
    /\ asked' = (asked \/ call[t] = "send_start")
    /\ call' = [call EXCEPT ![t] = "none"]
    /\ UNCHANGED <<sporadic, delay, hasStarted, started, tpc, events>>

\* The command.
SendCommand(t) ==
    /\ call[t] \in {"send_start", "send_halt"}
    /\ pipe' = Append(pipe, IF call[t] = "send_start" THEN "$START" ELSE "$HALT")
    /\ asked' = (asked \/ call[t] = "send_start")
    /\ call' = [call EXCEPT ![t] = "none"]
    /\ UNCHANGED <<sporadic, delay, hasStarted, started, tpc, events>>

-----------------------------------------------------------------------------
(* The timer thread.                                                       *)

\* Mutant of Loop: a timer that is not started looks at the pipe only when the
\* flag says that there is a command to expect.
LoopWithoutPoll ==
    /\ tpc = "loop"
    /\ tpc' = IF ~ started /\ hasStarted THEN "poll"
              ELSE IF ~ started \/ (sporadic /\ ~ delay) THEN "loop" ELSE "sleep"
    /\ UNCHANGED <<sporadic, delay, hasStarted, call, pipe, started, events, asked>>

\* The top of the loop.  A sporadic timer with a zero delay goes round again
\* without a look at the pipe; a timer that is not started looks there at once.
Loop ==
    /\ tpc = "loop"
    /\ tpc' = IF ~ started THEN "poll"
              ELSE IF sporadic /\ ~ delay THEN "loop" ELSE "sleep"
    /\ UNCHANGED <<sporadic, delay, hasStarted, call, pipe, started, events, asked>>

\* Mutant of Fire: every timer halts itself.
FireAndHalt ==
    /\ tpc = "sleep"
    /\ events' = IF events < MaxEvents THEN events + 1 ELSE events
    /\ asked' = FALSE
    /\ tpc' = "halt"
    /\ UNCHANGED <<sporadic, delay, hasStarted, call, pipe, started>>

\* The wake-up time has come: an event is sent, or dropped when the component
\* does not keep up.
Fire ==
    /\ tpc = "sleep"
    /\ events' = IF events < MaxEvents THEN events + 1 ELSE events
    /\ asked' = FALSE
    /\ tpc' = IF sporadic THEN "halt" ELSE "poll"
    /\ UNCHANGED <<sporadic, delay, hasStarted, call, pipe, started>>

\* A sporadic timer halts itself.
HaltItself ==
    /\ tpc = "halt"
    /\ HaltCall("timer")
    /\ tpc' = "poll"
    /\ UNCHANGED <<sporadic, delay, hasStarted, pipe, started, events>>

\* One command, if there is one, is taken from the pipe.
Poll ==
    /\ tpc = "poll" /\ call["timer"] = "none"
    /\ IF pipe = << >> THEN UNCHANGED <<pipe, started>> /\ tpc' = "loop"
       ELSE /\ pipe' = Tail(pipe)
            /\ started' = CASE Head(pipe) = "$START" -> TRUE
                            [] Head(pipe) = "$HALT" -> FALSE
                            [] OTHER -> started
            /\ tpc' = IF Head(pipe) = "$TERM" THEN "done" ELSE "loop"
    /\ UNCHANGED <<sporadic, delay, hasStarted, call, events, asked>>

TimerThread ==
    Loop \/ Fire \/ HaltItself \/ Poll \/ SetStarted("timer") \/ SendCommand("timer")

TimerTypeOK ==
    /\ sporadic \in BOOLEAN /\ delay \in BOOLEAN /\ hasStarted \in BOOLEAN
    /\ call \in [Thread -> Pending]
    /\ pipe \in Seq(Command)
    /\ started \in BOOLEAN /\ asked \in BOOLEAN
    /\ tpc \in {"loop", "sleep", "halt", "poll", "done"}
    /\ events \in 0 .. MaxEvents
=============================================================================
