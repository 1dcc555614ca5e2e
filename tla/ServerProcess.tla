---------------------------- MODULE ServerProcess ----------------------------
(***************************************************************************)
(* The process around PlayerLifecycle: main.go, the start of the server,   *)
(* the console and the signals.  Server.Stop has two callers, the console  *)
(* and main; the first runs it, for the second it returns at once; and the *)
(* process, with everything in it, is over when main returns.              *)
(***************************************************************************)
EXTENDS PlayerLifecycle

VARIABLES
    main,        \* program counter of main
    console,     \* program counter of runConsole
    signal,      \* sigChan holds a signal (its capacity is 1)
    stopChan,    \* stopChan is closed
    stopper,     \* whose call of Server.Stop is the one that runs
    asked        \* what has asked for the end: "console", "signal", or "kill", a
                 \* signal before main listens to any

processVars == <<main, console, signal, stopChan, stopper, asked>>
allVars     == <<vars, processVars>>

MainPc    == {"load", "enable", "run", "select", "stop", "exited"}
ConsolePc == {"none", "scan", "stop", "over"}

ProcessInit ==
    /\ Init
    /\ main = "load" /\ console = "none"
    /\ signal = FALSE /\ stopChan = FALSE
    /\ stopper = "nobody" /\ asked = {}

MainStep(from, to) == main = from /\ main' = to

\* Between signal.Notify and the return of main
Serving == main \in {"select", "stop"}

-----------------------------------------------------------------------------
(***************************************************************************)
(* main until the server runs.  Everything that fails there ends it.       *)
(***************************************************************************)

\* Configuration, data, NewServer and net.Listen.
Load ==
    /\ MainStep("load", "enable") \/ MainStep("load", "exited")
    /\ UNCHANGED <<vars, console, signal, stopChan, stopper, asked>>

\* EnableAll enables every plugin, or none; then the listener is closed again.
Enable ==
    /\ MainStep("enable", "run") \/ MainStep("enable", "exited")
    /\ UNCHANGED <<vars, console, signal, stopChan, stopper, asked>>

\* running.Store(true), the tick loop, which no one has started before, and the
\* goroutines of Start; then the console and, right behind it, signal.Notify.
Run ==
    /\ MainStep("run", "select")
    /\ console' = "scan"
    /\ UNCHANGED <<vars, signal, stopChan, stopper, asked>>

\* SIGINT or SIGTERM.  Before signal.Notify it kills the process; afterwards it
\* waits in sigChan, or is dropped if another one does.  When main is in Stop,
\* nobody receives it any more.
Signal ==
    /\ \/ /\ ~Serving
          /\ main' = "exited"
          /\ asked' = asked \cup {"kill"}
          /\ UNCHANGED signal
       \/ /\ main = "select"
          /\ signal' = TRUE
          /\ asked' = asked \cup {"signal"}
          /\ UNCHANGED main
    /\ UNCHANGED <<vars, console, stopChan, stopper>>

-----------------------------------------------------------------------------
(***************************************************************************)
(* The two callers of Server.Stop.                                         *)
(***************************************************************************)

\* running.Swap(false): the winner runs the rest of Stop.
CallStop(who) ==
    \/ /\ StopBegin
       /\ stopper' = who
    \/ /\ stop # "up"
       /\ UNCHANGED <<vars, stopper>>

StopReturned(who) == stopper # who \/ stop = "stopped"

\* The stop command.  The end of the input is an operator who types no more.
ConsoleStop ==
    /\ console = "scan"
    /\ CallStop("console")
    /\ console' = "stop"
    /\ asked' = asked \cup {"console"}
    /\ UNCHANGED <<main, signal, stopChan>>

\* Mutant: stopChan is closed before Stop has returned.
ConsoleCloseEarly ==
    /\ console = "stop"
    /\ console' = "over"
    /\ stopChan' = TRUE
    /\ UNCHANGED <<vars, main, signal, stopper, asked>>

ConsoleClose ==
    /\ console = "stop"
    /\ StopReturned("console")
    /\ console' = "over"
    /\ stopChan' = TRUE
    /\ UNCHANGED <<vars, main, signal, stopper, asked>>

\* The select of main.
SelectStopChan ==
    /\ stopChan
    /\ MainStep("select", "exited")
    /\ UNCHANGED <<vars, console, signal, stopChan, stopper, asked>>

SelectSignal ==
    /\ signal /\ signal' = FALSE
    /\ MainStep("select", "stop")
    /\ CallStop("main")
    /\ UNCHANGED <<console, stopChan, asked>>

MainReturn ==
    /\ StopReturned("main")
    /\ MainStep("stop", "exited")
    /\ UNCHANGED <<vars, console, signal, stopChan, stopper, asked>>

-----------------------------------------------------------------------------
\* A step of the server: of a session, of the tick owner, or of the Stop that
\* was called.
ServerStep ==
    /\ Serving
    /\ Next
    /\ stop = "up" => stop' = "up"
    /\ UNCHANGED processVars

Starting == Load \/ Enable \/ Run

Stopping == ConsoleClose \/ SelectStopChan \/ SelectSignal \/ MainReturn

Exited == main = "exited" /\ UNCHANGED allVars

ProcessNext ==
    \/ /\ main # "exited"
       /\ Starting \/ Signal \/ ConsoleStop \/ Stopping \/ ServerStep
    \/ Exited

(***************************************************************************)
(* The fairness of PlayerLifecycle, as long as there is a process; and the *)
(* goroutines of main and of the console go on when they can.  Nobody has  *)
(* to type or to send a signal.                                            *)
(***************************************************************************)
Served(A) == Serving /\ A /\ UNCHANGED processVars

ProcessFairness ==
    /\ \A s \in Sessions :
          /\ WF_allVars(Served(ReaderPost(s)))
          /\ WF_allVars(Served(Close(s)))
          /\ WF_allVars(Served(RemovePlayerOwned(s)))
    /\ WF_allVars(Served(Tick))
    /\ SF_allVars(Served(TickExit))
    /\ WF_allVars(Served(Stop))
    /\ WF_allVars(Starting)
    /\ WF_allVars(ConsoleClose)
    /\ WF_allVars(SelectStopChan \/ SelectSignal \/ MainReturn)

ProcessSpec == ProcessInit /\ [][ProcessNext]_allVars /\ ProcessFairness

-----------------------------------------------------------------------------
\* A process that was asked once, on the console or by a signal, ends only when
\* Stop is over: the loop has exited, the plugins are disabled, and they have
\* seen every player that Stop closed leave (Server.Stop, runConsole, main).
\* Who asks in both ways gives this up, because the second Stop returns at once.
ExitAfterShutdown ==
    main = "exited" /\ asked \in {{"console"}, {"signal"}} =>
        /\ tick = "exited" /\ ~PluginsEnabled
        /\ \A s \in Sessions : closer[s] = "stop" => ~registered[s] /\ ~Visible(s)

\* A process that is asked to stop ends, without the help of the timeout of
\* Stop: no goroutine that Stop or main waits for waits for them.
ProcessEnds == (asked # {}) ~> (main = "exited")
==============================================================================
