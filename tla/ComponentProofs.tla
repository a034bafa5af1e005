-------------------------- MODULE ComponentProofs ---------------------------
(***************************************************************************)
(* Proofs about Component: its types, that a periodic timer obeys its      *)
(* owner whatever the threads do, and that its ports outlive its threads,  *)
(* for any bounds on calls and queues.                                     *)
(***************************************************************************)
EXTENDS Component, TLAPS

-----------------------------------------------------------------------------
(* What the commands in a pipe amount to.                                  *)

\* A timer thread that is started when st, and then reads p to the end, ends up
\* started: the last command that is not $TERM decides.
Told(p, st) ==
    \/ \E i \in DOMAIN p :
           p[i] = "$START" /\ \A j \in DOMAIN p : j > i => p[j] = "$TERM"
    \/ st /\ \A i \in DOMAIN p : p[i] = "$TERM"

\* An empty pipe leaves things as they are.
LEMMA ToldEmpty == ASSUME NEW st \in BOOLEAN PROVE Told(<< >>, st) <=> st
BY DEF Told

\* A command at the end of the pipe decides; $TERM changes nothing.
LEMMA ToldAppend ==
    ASSUME NEW p \in Seq(Command), NEW st \in BOOLEAN
    PROVE  /\ Told(Append(p, "$START"), st)
           /\ ~ Told(Append(p, "$HALT"), st)
           /\ Told(Append(p, "$TERM"), st) <=> Told(p, st)
<1>1. ASSUME NEW c \in Command
      PROVE  /\ DOMAIN p = 1 .. Len(p) /\ DOMAIN Append(p, c) = 1 .. Len(p) + 1
             /\ \A i \in 1 .. Len(p) : Append(p, c)[i] = p[i]
             /\ Append(p, c)[Len(p) + 1] = c /\ Len(p) \in Nat
  OBVIOUS
<1>2. "$START" \in Command /\ "$HALT" \in Command /\ "$TERM" \in Command
  BY DEF Command
<1>3. Told(Append(p, "$START"), st)
  <2>1. \A j \in 1 .. Len(p) + 1 : ~ (j > Len(p) + 1)
    BY <1>1, <1>2
  <2>2. QED
    BY <1>1, <1>2, <2>1 DEF Told
<1>4. ~ Told(Append(p, "$HALT"), st)
  BY <1>1, <1>2 DEF Told
<1>5. Told(Append(p, "$TERM"), st) <=> Told(p, st)
  BY <1>1, <1>2 DEF Told
<1>6. QED
  BY <1>3, <1>4, <1>5

\* Reading the first command moves it from the pipe into the thread.
LEMMA ToldTail ==
    ASSUME NEW p \in Seq(Command), p # << >>, NEW st \in BOOLEAN
    PROVE  /\ Head(p) = "$START" => (Told(p, st) <=> Told(Tail(p), TRUE))
           /\ Head(p) = "$HALT" => (Told(p, st) <=> Told(Tail(p), FALSE))
           /\ Head(p) = "$TERM" => (Told(p, st) <=> Told(Tail(p), st))
<1>1. /\ DOMAIN p = 1 .. Len(p) /\ Len(p) \in Nat /\ Len(p) >= 1
      /\ DOMAIN Tail(p) = 1 .. Len(p) - 1
      /\ \A i \in 1 .. Len(p) - 1 : Tail(p)[i] = p[i + 1]
      /\ Head(p) = p[1]
  OBVIOUS
<1>2. (\E i \in DOMAIN p : i # 1 /\ p[i] = "$START"
                             /\ \A j \in DOMAIN p : j > i => p[j] = "$TERM")
      <=> \E i \in DOMAIN Tail(p) : Tail(p)[i] = "$START"
              /\ \A j \in DOMAIN Tail(p) : j > i => Tail(p)[j] = "$TERM"
  <2>1. ASSUME NEW i \in DOMAIN p, i # 1, p[i] = "$START",
               \A j \in DOMAIN p : j > i => p[j] = "$TERM"
        PROVE  /\ i - 1 \in DOMAIN Tail(p) /\ Tail(p)[i - 1] = "$START"
               /\ \A j \in DOMAIN Tail(p) : j > i - 1 => Tail(p)[j] = "$TERM"
    BY <1>1, <2>1
  <2>2. ASSUME NEW i \in DOMAIN Tail(p), Tail(p)[i] = "$START",
               \A j \in DOMAIN Tail(p) : j > i => Tail(p)[j] = "$TERM"
        PROVE  /\ i + 1 \in DOMAIN p /\ i + 1 # 1 /\ p[i + 1] = "$START"
               /\ \A j \in DOMAIN p : j > i + 1 => p[j] = "$TERM"
    <3>1. ASSUME NEW j \in DOMAIN p, j > i + 1 PROVE p[j] = "$TERM"
      <4>1. j - 1 \in DOMAIN Tail(p) /\ j - 1 > i /\ Tail(p)[j - 1] = p[j]
        BY <1>1, <3>1
      <4>2. QED
        BY <2>2, <4>1
    <3>2. QED
      BY <1>1, <2>2, <3>1
  <2>3. QED
    BY <2>1, <2>2
<1>3. (\A i \in DOMAIN Tail(p) : Tail(p)[i] = "$TERM")
      <=> \A i \in DOMAIN p : i # 1 => p[i] = "$TERM"
  <2>1. ASSUME NEW i \in DOMAIN p, i # 1
        PROVE  i - 1 \in DOMAIN Tail(p) /\ Tail(p)[i - 1] = p[i]
    BY <1>1, <2>1
  <2>2. ASSUME NEW i \in DOMAIN Tail(p)
        PROVE  i + 1 \in DOMAIN p /\ i + 1 # 1 /\ Tail(p)[i] = p[i + 1]
    BY <1>1, <2>2
  <2>3. QED
    BY <2>1, <2>2
<1>4. 1 \in DOMAIN p /\ \A j \in DOMAIN p : j > 1 <=> j # 1
  BY <1>1
<1>5. QED
  BY <1>1, <1>2, <1>3, <1>4 DEF Told

-----------------------------------------------------------------------------
(* Types.                                                                  *)

\* The steps of the system, one disjunct each.
Cases ==
    \/ FirstRun \/ ReadTimer \/ ReadPort \/ ReadTerm \/ CallTimer \/ SetDelay
    \/ FinishCall \/ HandlerReturns \/ ScheduleAction \/ ScheduleAbsTimer
    \/ \E i \in expired : RunAction(i)
    \/ RunTimer \/ Terminate \/ TimerStopped \/ ComponentStopped
    \/ \E i \in OneShot : Expire(i)
    \/ UNCHANGED vars

\* The next-state relation is these steps.
LEMMA StepCases == [Next]_vars => Cases
BY DEF Next, ComponentThread, Stopping, Cases

\* The types hold at the start.
LEMMA InitTypeOK == Init => TypeOK
<1> SUFFICES ASSUME Init PROVE TypeOK
  OBVIOUS
<1>1. TimerTypeOK
  <2>1. sporadic \in BOOLEAN /\ delay \in BOOLEAN /\ hasStarted \in BOOLEAN
        /\ started \in BOOLEAN /\ asked \in BOOLEAN
    BY DEF Init, TimerInit
  <2>2. call \in [Thread -> Pending] /\ pipe \in Seq(Command)
    BY DEF Init, TimerInit, Pending
  <2>3. tpc = "loop" /\ events \in 0 .. MaxEvents
    BY PipeAssumption DEF Init, TimerInit
  <2>4. QED
    BY <2>1, <2>2, <2>3 DEF TimerTypeOK
<1>2. calls \in 0 .. MaxCalls
  BY BoundAssumption DEF Init
<1>3. /\ scheduled \in Seq({"action", "timer"}) /\ DOMAIN scheduled = {}
      /\ expired = {} /\ ran \in [OneShot -> OneShot \cup {0}]
  BY DEF Init
<1>4. QED
  BY <1>1, <1>2, <1>3 DEF Init, TypeOK

\* What is left of a pipe is a pipe.
LEMMA TailType == ASSUME NEW p \in Seq(Command), p # << >> PROVE Tail(p) \in Seq(Command)
OBVIOUS

\* A pipe with one more command is a pipe.
LEMMA AppendType ==
    ASSUME NEW p \in Seq(Command) PROVE Append(p, "$TERM") \in Seq(Command)
<1>1. "$TERM" \in Command
  BY DEF Command
<1>2. QED
  BY <1>1

\* Every step preserves the types.
LEMMA NextTypeOK == TypeOK /\ [Next]_vars => TypeOK'
<1> SUFFICES ASSUME TypeOK, Cases PROVE TypeOK'
  BY StepCases
<1> USE PipeAssumption, BoundAssumption
        DEF TypeOK, TimerTypeOK, timerVars, actionVars, OneShot
<1>1. CASE FirstRun
  BY <1>1 DEF FirstRun, StartCall, Thread, Pending
<1>2. CASE ReadTimer
  BY <1>2 DEF ReadTimer
<1>3. CASE ReadPort
  BY <1>3 DEF ReadPort
<1>4. CASE ReadTerm
  BY <1>4 DEF ReadTerm
<1>5. CASE CallTimer
  <2>1. call' \in [Thread -> Pending] /\ asked' \in BOOLEAN
    BY <1>5 DEF CallTimer, StartCall, HaltCall, Thread, Pending
  <2>2. calls' \in 0 .. MaxCalls
    BY <1>5 DEF CallTimer, InHandler
  <2>3. QED
    BY <1>5, <2>1, <2>2 DEF CallTimer, InHandler
<1>6. CASE SetDelay
  BY <1>6 DEF SetDelay, InHandler
<1>7. CASE FinishCall
  <2>1. CASE SetStarted("component") /\ UNCHANGED <<cpc, calls, actionVars, ctl>>
    BY <2>1 DEF SetStarted, Thread, Pending
  <2>2. CASE SendCommand("component") /\ UNCHANGED <<cpc, calls, actionVars, ctl>>
    BY <2>2 DEF SendCommand, Thread, Pending, Command
  <2>3. QED
    BY <1>7, <2>1, <2>2 DEF FinishCall
<1>8. CASE HandlerReturns
  BY <1>8 DEF HandlerReturns
<1>9. CASE ScheduleAction
  BY <1>9 DEF ScheduleAction, InHandler
<1>10. CASE ScheduleAbsTimer
  BY <1>10 DEF ScheduleAbsTimer, InHandler
<1>11. ASSUME NEW i \in expired, RunAction(i) PROVE TypeOK'
  BY <1>11 DEF RunAction
<1>12. CASE RunTimer
  <2>1. CASE Loop
    BY <1>12, <2>1 DEF RunTimer, Loop
  <2>2. CASE Fire
    <3>1. events' \in 0 .. MaxEvents
      BY <2>2 DEF Fire
    <3>2. QED
      BY <1>12, <2>2, <3>1 DEF RunTimer, Fire
  <2>3. CASE HaltItself
    BY <1>12, <2>3 DEF RunTimer, HaltItself, HaltCall, Thread, Pending
  <2>4. CASE Poll
    <3>1. pipe' \in Seq(Command) /\ started' \in BOOLEAN
      <4>1. pipe = << >> => UNCHANGED <<pipe, started>>
        BY <2>4 DEF Poll
      <4>2. pipe # << >> => pipe' = Tail(pipe) /\ started' \in {TRUE, FALSE, started}
        BY <2>4 DEF Poll
      <4>3. pipe' \in Seq(Command)
        BY <4>1, <4>2, TailType
      <4>4. started' \in BOOLEAN
        BY <4>1, <4>2
      <4>5. QED
        BY <4>3, <4>4
    <3>2. tpc' \in {"loop", "done"}
      BY <2>4 DEF Poll
    <3>3. QED
      BY <1>12, <2>4, <3>1, <3>2 DEF RunTimer, Poll
  <2>5. CASE SetStarted("timer")
    BY <1>12, <2>5 DEF RunTimer, SetStarted, Thread, Pending
  <2>6. CASE SendCommand("timer")
    BY <1>12, <2>6 DEF RunTimer, SendCommand, Thread, Pending, Command
  <2>7. QED
    BY <1>12, <2>1, <2>2, <2>3, <2>4, <2>5, <2>6 DEF RunTimer, TimerThread
<1>13. CASE Terminate
  <2>1. pipe' \in Seq(Command)
    <3>1. pipe' = pipe \/ pipe' = Append(pipe, "$TERM")
      BY <1>13 DEF Terminate
    <3>2. QED
      BY <3>1, AppendType
  <2>2. cpc' \in {"first", "poll", "handler", "done", "aborted"} /\ ctl' = "stopTimer"
    BY <1>13 DEF Terminate
  <2>3. QED
    BY <1>13, <2>1, <2>2 DEF Terminate
<1>14. CASE TimerStopped
  BY <1>14 DEF TimerStopped
<1>15. CASE ComponentStopped
  BY <1>15 DEF ComponentStopped
<1>16. ASSUME NEW i \in OneShot, Expire(i) PROVE TypeOK'
  BY <1>16 DEF Expire
<1>17. CASE UNCHANGED vars
  BY <1>17 DEF vars
<1>18. QED
  BY <1>1, <1>2, <1>3, <1>4, <1>5, <1>6, <1>7, <1>8, <1>9, <1>10, <1>11, <1>12,
     <1>13, <1>14, <1>15, <1>16, <1>17 DEF Cases

\* The types of the component, as an invariant.
THEOREM ComponentTypeOK == Spec => []TypeOK
<1>1. TypeOK /\ [Next]_vars => TypeOK'
  BY NextTypeOK
<1>2. QED
  BY <1>1, InitTypeOK, PTL DEF Spec

-----------------------------------------------------------------------------
(* A periodic timer obeys.                                                 *)

\* The timer thread of a periodic timer never calls Halt(); and the flag says
\* what the pipe will make of the thread, except between the assignment and the
\* command of a call.
Obeys ==
    ~ sporadic =>
        /\ tpc # "halt" /\ call["timer"] = "none"
        /\ call["component"] \in {"none", "set_start", "set_halt"} =>
               (hasStarted <=> Told(pipe, started))
        /\ call["component"] = "send_start" => hasStarted
        /\ call["component"] = "send_halt" => ~ hasStarted

\* Obeys holds at the start.
LEMMA InitObeys == Init => Obeys
BY ToldEmpty DEF Init, TimerInit, Obeys, Thread

\* Obeys survives a step that leaves the flag, the calls and the thread alone.
LEMMA ObeysKept ==
    ASSUME Obeys, UNCHANGED <<sporadic, hasStarted, call, pipe, started, tpc>>
    PROVE  Obeys'
BY DEF Obeys

\* Every step preserves Obeys.
LEMMA NextObeys == TypeOK /\ Obeys /\ [Next]_vars => Obeys'
<1> SUFFICES ASSUME TypeOK, Obeys, Cases PROVE Obeys'
  BY StepCases
<1> USE DEF timerVars, actionVars
<1>0. /\ pipe \in Seq(Command) /\ started \in BOOLEAN /\ hasStarted \in BOOLEAN
      /\ call \in [Thread -> Pending] /\ "component" \in Thread /\ "timer" \in Thread
  BY DEF TypeOK, TimerTypeOK, Thread
<1>1. CASE FirstRun
  BY <1>0, <1>1 DEF FirstRun, StartCall, Obeys
<1>2. CASE ReadTimer
  BY <1>2, ObeysKept DEF ReadTimer
<1>3. CASE ReadPort
  BY <1>3, ObeysKept DEF ReadPort
<1>4. CASE ReadTerm
  BY <1>4, ObeysKept DEF ReadTerm
<1>5. CASE CallTimer
  BY <1>0, <1>5 DEF CallTimer, InHandler, StartCall, HaltCall, Obeys
<1>6. CASE SetDelay
  BY <1>6, ObeysKept DEF SetDelay
<1>7. CASE FinishCall
  <2>1. CASE SetStarted("component")
    BY <1>0, <2>1 DEF SetStarted, Obeys
  <2>2. CASE SendCommand("component")
    <3>1. CASE call["component"] = "send_start"
      BY <1>0, <2>2, <3>1, ToldAppend DEF SendCommand, Obeys
    <3>2. CASE call["component"] = "send_halt"
      BY <1>0, <2>2, <3>2, ToldAppend DEF SendCommand, Obeys
    <3>3. QED
      BY <2>2, <3>1, <3>2 DEF SendCommand
  <2>3. QED
    BY <1>7, <2>1, <2>2, ObeysKept DEF FinishCall
<1>8. CASE HandlerReturns
  BY <1>8, ObeysKept DEF HandlerReturns
<1>9. CASE ScheduleAction
  BY <1>9, ObeysKept DEF ScheduleAction
<1>10. CASE ScheduleAbsTimer
  BY <1>10, ObeysKept DEF ScheduleAbsTimer
<1>11. ASSUME NEW i \in expired, RunAction(i) PROVE Obeys'
  BY <1>11, ObeysKept DEF RunAction
<1>12. CASE RunTimer
  <2>1. CASE Loop
    BY <2>1 DEF Loop, Obeys
  <2>2. CASE Fire
    BY <2>2 DEF Fire, Obeys
  <2>3. CASE HaltItself
    BY <2>3 DEF HaltItself, Obeys
  <2>4. CASE Poll
    <3>1. CASE pipe = << >>
      BY <2>4, <3>1 DEF Poll, Obeys
    <3>2. CASE pipe # << >>
      <4>1. Head(pipe) \in Command /\ pipe' = Tail(pipe)
        BY <1>0, <2>4, <3>2 DEF Poll
      <4>2. Told(pipe, started) <=> Told(pipe', started')
        BY <1>0, <2>4, <3>2, <4>1, ToldTail DEF Poll, Command
      <4>3. tpc' # "halt" /\ UNCHANGED <<sporadic, hasStarted, call>>
        BY <2>4, <3>2 DEF Poll
      <4>4. QED
        BY <4>2, <4>3 DEF Obeys
    <3>3. QED
      BY <3>1, <3>2
  <2>5. CASE SetStarted("timer")
    BY <2>5 DEF SetStarted, Obeys
  <2>6. CASE SendCommand("timer")
    BY <2>6 DEF SendCommand, Obeys
  <2>7. QED
    BY <1>12, <2>1, <2>2, <2>3, <2>4, <2>5, <2>6 DEF RunTimer, TimerThread
<1>13. CASE Terminate
  <2>1. CASE cpc = "first"
    BY <1>13, <2>1, ObeysKept DEF Terminate
  <2>2. CASE cpc # "first"
    <3>1. /\ pipe' = Append(pipe, "$TERM")
          /\ UNCHANGED <<sporadic, hasStarted, call, started, tpc>>
      BY <1>13, <2>2 DEF Terminate
    <3>2. Told(pipe', started') <=> Told(pipe, started)
      BY <1>0, <3>1, ToldAppend
    <3>3. QED
      BY <3>1, <3>2 DEF Obeys
  <2>3. QED
    BY <2>1, <2>2
<1>14. CASE TimerStopped
  BY <1>14, ObeysKept DEF TimerStopped
<1>15. CASE ComponentStopped
  BY <1>15, ObeysKept DEF ComponentStopped
<1>16. ASSUME NEW i \in OneShot, Expire(i) PROVE Obeys'
  BY <1>16, ObeysKept DEF Expire
<1>17. CASE UNCHANGED vars
  BY <1>17, ObeysKept DEF vars
<1>18. QED
  BY <1>1, <1>2, <1>3, <1>4, <1>5, <1>6, <1>7, <1>8, <1>9, <1>10, <1>11, <1>12,
     <1>13, <1>14, <1>15, <1>16, <1>17 DEF Cases

\* A periodic timer fires exactly when has_started_ says so, once its pipe is
\* empty and no call is under way, for every interleaving of the component, the
\* timer and the controller.
THEOREM PeriodicTimersObey == Spec => []PeriodicObeys
<1> DEFINE Inv == TypeOK /\ Obeys
<1>1. Init => Inv
  BY InitTypeOK, InitObeys
<1>2. Inv /\ [Next]_vars => Inv'
  BY NextTypeOK, NextObeys
<1>3. Inv => PeriodicObeys
  <2> SUFFICES ASSUME Inv, ~ sporadic, pipe = << >>, call["component"] = "none"
               PROVE  started = hasStarted
    BY DEF PeriodicObeys
  <2>1. started \in BOOLEAN /\ hasStarted \in BOOLEAN
    BY DEF TypeOK, TimerTypeOK
  <2>2. hasStarted <=> started
    BY <2>1, ToldEmpty DEF Obeys
  <2>3. QED
    BY <2>1, <2>2
<1>4. QED
  BY <1>1, <1>2, <1>3, PTL DEF Spec

-----------------------------------------------------------------------------
(* The end of a component.                                                 *)

\* The component is told to stop only when its timer thread is gone, and deleted
\* only when its own is.  The timer thread ends where it polls, outside of its
\* calls; the component thread ends and waits outside of its handlers.
Ends ==
    /\ ctl \in {"stopComponent", "deleted"} => tpc = "done"
    /\ ctl = "deleted" => cpc = "done"
    /\ tpc \in {"loop", "sleep", "halt", "done"} => call["timer"] = "none"
    /\ cpc \in {"first", "poll", "done"} => call["component"] = "none"

\* Ends holds at the start.
LEMMA InitEnds == Init => Ends
BY DEF Init, TimerInit, Ends, Thread

\* Ends survives a step that leaves the threads where they are.
LEMMA EndsKept ==
    ASSUME Ends, UNCHANGED <<cpc, call, tpc, ctl>> PROVE Ends'
BY DEF Ends

\* Every step preserves Ends.
LEMMA NextEnds == TypeOK /\ Ends /\ [Next]_vars => Ends'
<1> SUFFICES ASSUME TypeOK, Ends, Cases PROVE Ends'
  BY StepCases
<1> USE DEF Ends
<1>0. call \in [Thread -> Pending] /\ "component" \in Thread /\ "timer" \in Thread
  BY DEF TypeOK, TimerTypeOK, Thread
<1>1. CASE FirstRun
  BY <1>0, <1>1 DEF FirstRun, StartCall
<1>2. CASE ReadTimer \/ ReadPort \/ ReadTerm \/ HandlerReturns
  BY <1>2 DEF ReadTimer, ReadPort, ReadTerm, HandlerReturns, timerVars
<1>3. CASE CallTimer
  <2>1. /\ cpc = "handler" /\ UNCHANGED <<cpc, tpc, ctl>>
        /\ call' = [call EXCEPT !["component"] = call'["component"]]
    BY <1>0, <1>3 DEF CallTimer, InHandler, StartCall, HaltCall
  <2> QED
    BY <1>0, <2>1
<1>4. CASE SetDelay \/ ScheduleAction \/ ScheduleAbsTimer
  BY <1>4, EndsKept DEF SetDelay, ScheduleAction, ScheduleAbsTimer, InHandler, timerVars
<1>5. ASSUME NEW i \in expired, RunAction(i) PROVE Ends'
  BY <1>5 DEF RunAction, timerVars
<1>6. CASE FinishCall
  <2>1. CASE SetStarted("component") /\ UNCHANGED <<cpc, calls, actionVars, ctl>>
    BY <1>0, <2>1 DEF SetStarted
  <2>2. CASE SendCommand("component") /\ UNCHANGED <<cpc, calls, actionVars, ctl>>
    BY <1>0, <2>2 DEF SendCommand
  <2>3. CASE cpc = "handler" /\ cpc' = "aborted" /\ UNCHANGED <<timerVars, ctl>>
    BY <2>3 DEF timerVars
  <2> QED
    BY <1>6, <2>1, <2>2, <2>3 DEF FinishCall
<1>7. CASE RunTimer
  <2>1. UNCHANGED <<cpc, ctl>>
    BY <1>7 DEF RunTimer
  <2>2. CASE Loop \/ Fire
    BY <2>1, <2>2 DEF Loop, Fire
  <2>3. CASE HaltItself
    BY <1>0, <2>1, <2>3 DEF HaltItself, HaltCall
  <2>4. CASE Poll
    BY <2>1, <2>4 DEF Poll
  <2>5. CASE SetStarted("timer")
    BY <1>0, <2>1, <2>5 DEF SetStarted
  <2>6. CASE SendCommand("timer")
    BY <1>0, <2>1, <2>6 DEF SendCommand
  <2> QED
    BY <1>7, <2>2, <2>3, <2>4, <2>5, <2>6 DEF RunTimer, TimerThread
<1>8. CASE Terminate
  BY <1>8 DEF Terminate
<1>9. CASE TimerStopped \/ ComponentStopped
  BY <1>9 DEF TimerStopped, ComponentStopped, timerVars
<1>10. ASSUME NEW i \in OneShot, Expire(i) PROVE Ends'
  BY <1>10, EndsKept DEF Expire, timerVars
<1>11. CASE UNCHANGED vars
  BY <1>11, EndsKept DEF vars, timerVars
<1> QED
  BY <1>1, <1>2, <1>3, <1>4, <1>5, <1>6, <1>7, <1>8, <1>9, <1>10, <1>11 DEF Cases

\* Terminate() deletes no port that a thread may still use, however the
\* controller, the component, the timer and the one-shot timers interleave.
THEOREM PortsOutliveThreads == Spec => []PortsDeletedUnused
<1> DEFINE Inv == TypeOK /\ Ends
<1>1. Init => Inv
  BY InitTypeOK, InitEnds
<1>2. Inv /\ [Next]_vars => Inv'
  BY NextTypeOK, NextEnds
<1>3. Inv => PortsDeletedUnused
  BY DEF Ends, PortsDeletedUnused, Thread
<1>4. QED
  BY <1>1, <1>2, <1>3, PTL DEF Spec
=============================================================================
