--------------------------------- MODULE Shell ---------------------------------
(***************************************************************************)
(* The administration shell algolSH (src/algolSH/): the main thread, which *)
(* waits for a signal and then takes everything down; the thread that runs *)
(* the io_service and in it the handlers of the connection's dispatcher;   *)
(* and the thread in algolSH::run, which feeds commands.  The shell owns   *)
(* the plugin manager, whose plugins register delegates.                   *)
(*                                                                         *)
(* What is undefined (the dispatcher's table changed while a handler of it *)
(* runs, a connection that is used after it was deleted) ends the process  *)
(* or goes by unnoticed.                                                   *)
(***************************************************************************)
EXTENDS Plugins

CONSTANTS
  Generic,    \* the target of the generic delegate
  MaxFile,    \* bounds the lines of the plugins file
  MaxFeeds    \* bounds the commands a user feeds

ASSUME ShellAssumption ==
  /\ Generic \notin Libs
  /\ MaxFile \in Nat
  /\ MaxFeeds \in Nat

VARIABLES
  alive,       \* FALSE once an exception or undefined behaviour ended the process
  interactive, \* config_.interactive
  target,      \* config_.target
  main,        \* where the main thread is
  file,        \* the lines of the plugins file that are still to be loaded
  delegates,   \* delegates_
  delegate,    \* delegate_
  feeder,      \* where the thread in run is
  asked,       \* the number of commands fed
  ioRuns,      \* FALSE once the io_service is stopped
  io,          \* where the thread that runs it is
  todo,        \* the handlers that dispatch has yet to call in its loop
  evt,         \* the event it dispatches
  handlers,    \* msg_handlers_
  helped,      \* help_populated
  queue,       \* the posted do_sends
  events,      \* the dispatcher's events, each with its posted dispatch
  shown,       \* the answers that the delegate was given
  signal,      \* whether a SIGINT is pending
  conn,        \* conn_
  server,      \* whether the console's end of the connection is open
  requests,    \* what is on its way to the server
  answers      \* and back

mainVars   == <<main, file, delegates, signal>>
feedVars   == <<feeder, asked, delegate, target>>
ioVars     == <<io, todo, evt, events>>
serverVars == <<server, requests, answers>>
vars == <<alive, interactive, mainVars, pluginVars, feedVars, ioRuns, ioVars,
          handlers, helped, queue, shown, conn, serverVars>>

Targets  == Libs \union {Generic}
Help     == 0
Messages == {Help} \union (1..MaxFeeds)   \* the request for help, or a command
Uids     == {"help", "Unassigned"}

TypeOK ==
  /\ PluginsTypeOK
  /\ alive \in BOOLEAN /\ interactive \in BOOLEAN /\ ioRuns \in BOOLEAN
  /\ helped \in BOOLEAN /\ signal \in BOOLEAN
  /\ target \in Targets /\ delegate \in Targets
  /\ main \in {"connect", "load", "wait", "join", "destroy", "unload", "end", "failed"}
  /\ file \in Seq(Libs)
  /\ delegates \subseteq Targets
  /\ feeder \in {"none", "run", "help", "bind", "bound", "prompt", "ended"}
  /\ asked \in 0..MaxFeeds
  /\ io \in {"none", "idle", "first", "second", "ended"}
  /\ todo \in Seq({"help", "eval", "respond", "refresh"})
  /\ evt \in Messages
  /\ DOMAIN handlers = Uids
  /\ handlers["help"] \in Seq({"help"})
  /\ handlers["Unassigned"] \in Seq({"eval", "respond", "refresh"})
  /\ queue \in Seq(Messages) /\ events \in Seq(Messages)
  /\ requests \in Seq(Messages) /\ answers \in Seq(Messages)
  /\ shown \in Seq(Messages)
  /\ conn \in {"none", "up", "stopped", "deleted"}
  /\ server \in {"open", "closed"}

Init ==
  /\ PluginsInit
  /\ alive = TRUE
  /\ interactive \in BOOLEAN
  /\ target \in Targets
  /\ main = "connect"
  /\ file \in UNION {[1..n -> Libs] : n \in 0..MaxFile}
  /\ delegates = {Generic}
  /\ delegate = Generic
  /\ feeder = "none"
  /\ asked = 0
  /\ ioRuns = TRUE
  /\ io = "none"
  /\ todo = <<>>
  /\ evt = Help
  /\ handlers = [u \in Uids |-> <<>>]
  /\ helped = FALSE
  /\ queue = <<>>
  /\ events = <<>>
  /\ shown = <<>>
  /\ signal = FALSE
  /\ conn = "none"
  /\ server = "open"
  /\ requests = <<>>
  /\ answers = <<>>

----------------------------------------------------------------------------
(* The main thread                                                         *)

\* The constructor of algolSH, which throws when the server cannot be reached, and
\* the first step of load_delegates.
Connect ==
  /\ main = "connect"
  /\ \/ main' = "load" /\ conn' = "up" /\ SetInit(TRUE)
     \/ main' = "failed" /\ UNCHANGED <<conn, pluginVars>>
  /\ UNCHANGED <<alive, interactive, file, delegates, signal, feedVars, ioRuns, ioVars,
                 handlers, helped, queue, shown, serverVars>>

\* load_plugins: the next line of the file.  A file that does not exist is ignored.
LoadNext ==
  /\ main = "load"
  /\ file # <<>>
  /\ file' = Tail(file)
  /\ \/ Loaded(Head(file)) /\ UNCHANGED <<main, conn, delegates>>
     \/ UNCHANGED <<pluginVars, main, conn, delegates>>
     \/ /\ Load(Head(file))
        /\ delegates' = delegates \union {Head(file)}
        /\ UNCHANGED <<main, conn>>
     \/ /\ LoadThrows(Head(file))
        /\ main' = "failed"
        /\ conn' = "deleted"
        /\ UNCHANGED delegates
  /\ UNCHANGED <<alive, interactive, signal, feedVars, ioRuns, ioVars,
                 handlers, helped, queue, shown, serverVars>>

\* main starts the two threads.
Spawn ==
  /\ main = "load"
  /\ file = <<>>
  /\ main' = "wait"
  /\ io' = "idle"
  /\ feeder' = "run"
  /\ UNCHANGED <<alive, interactive, pluginVars, file, delegates, signal, asked, delegate,
                 target, ioRuns, todo, evt, events, handlers, helped, queue, shown, conn,
                 serverVars>>

\* The user interrupts the shell.  All of its threads block the signal.
Interrupt ==
  /\ main = "wait"
  /\ signal' = TRUE
  /\ UNCHANGED <<alive, interactive, main, file, delegates, pluginVars, feedVars, ioRuns,
                 ioVars, handlers, helped, queue, shown, conn, serverVars>>

\* sigwait returns, and the io_service is stopped.
StopIo ==
  /\ main = "wait"
  /\ signal
  /\ main' = "join"
  /\ ioRuns' = FALSE
  /\ UNCHANGED <<alive, interactive, file, delegates, signal, pluginVars, feedVars,
                 ioVars, handlers, helped, queue, shown, conn, serverVars>>

\* The thread in run is joined.  The other one is detached.
Join ==
  /\ main = "join"
  /\ feeder = "ended"
  /\ main' = "destroy"
  /\ UNCHANGED <<alive, interactive, file, delegates, signal, pluginVars, feedVars,
                 ioRuns, ioVars, handlers, helped, queue, shown, conn, serverVars>>

\* The first part of ~algolSH, under whatever handler the io_service still runs.
DropConnection ==
  /\ main = "destroy"
  /\ main' = "unload"
  /\ conn' = "deleted"
  /\ UNCHANGED <<alive, interactive, file, delegates, signal, pluginVars, feedVars,
                 ioRuns, ioVars, handlers, helped, queue, shown, serverVars>>

\* The rest of ~algolSH: unload_plugins, and then shutdown of the manager.
UnloadAll ==
  /\ main = "unload"
  /\ main' = "end"
  /\ UnloadPlugins
  /\ init' = FALSE
  /\ delegates' = {}
  /\ UNCHANGED <<alive, interactive, file, signal, feedVars, ioRuns, ioVars, handlers,
                 helped, queue, shown, conn, serverVars>>

MainStep ==
  alive /\ (Connect \/ LoadNext \/ Spawn \/ StopIo \/ Join \/ DropConnection \/ UnloadAll)

----------------------------------------------------------------------------
(* algolSH::run                                                            *)

\* Binding to the table that dispatch is looking up is a race.
Bind(uid, hs) ==
  /\ handlers' = [handlers EXCEPT ![uid] = @ \o hs]
  /\ alive' \in IF io \in {"first", "second"} THEN BOOLEAN ELSE {TRUE}

\* initialise_plugins, and the choice of the target.
Run ==
  /\ feeder = "run"
  /\ InitialisePlugins
  /\ target' = IF target \in delegates THEN target ELSE Generic
  /\ feeder' = IF interactive THEN "help" ELSE "bind"
  /\ UNCHANGED <<alive, interactive, mainVars, asked, delegate, ioRuns, ioVars,
                 handlers, helped, queue, shown, conn, serverVars>>

\* Mutant of EvalCommand: eval_and_quit is not bound.
EvalCommand_NoQuit ==
  /\ feeder = "bind" /\ ~ interactive
  /\ delegate' = target
  /\ Bind("Unassigned", <<"respond">>)
  /\ asked < MaxFeeds
  /\ asked' = asked + 1
  /\ queue' = Append(queue, asked + 1)
  /\ feeder' = "ended"
  /\ UNCHANGED <<interactive, target, mainVars, pluginVars, ioRuns, ioVars, helped, shown,
                 conn, serverVars>>

\* Not interactive: eval_and_quit is bound, the delegate binds itself, and is fed.
EvalCommand ==
  /\ feeder = "bind" /\ ~ interactive
  /\ delegate' = target
  /\ Bind("Unassigned", <<"eval", "respond">>)
  /\ asked < MaxFeeds
  /\ asked' = asked + 1
  /\ queue' = Append(queue, asked + 1)
  /\ feeder' = "ended"
  /\ UNCHANGED <<interactive, target, mainVars, pluginVars, ioRuns, ioVars, helped, shown,
                 conn, serverVars>>

\* Interactive: ask for the commands first, and wait for the answer's handler.
AskHelp ==
  /\ feeder = "help"
  /\ Bind("help", <<"help">>)
  /\ queue' = Append(queue, Help)
  /\ feeder' = "bind"
  /\ UNCHANGED <<interactive, asked, delegate, target, mainVars, pluginVars, ioRuns, ioVars,
                 helped, shown, conn, serverVars>>

\* Mutant of BindDelegate: the delegate does not bind itself.
BindDelegate_Forgets ==
  /\ feeder = "bind" /\ interactive
  /\ helped
  /\ delegate' = target
  /\ feeder' = "bound"
  /\ UNCHANGED <<alive, interactive, asked, target, mainVars, pluginVars, ioRuns, ioVars,
                 handlers, helped, queue, shown, conn, serverVars>>

BindDelegate ==
  /\ feeder = "bind" /\ interactive
  /\ helped
  /\ delegate' = target
  /\ Bind("Unassigned", <<"respond">>)
  /\ feeder' = "bound"
  /\ UNCHANGED <<interactive, asked, target, mainVars, pluginVars, ioRuns, ioVars, helped,
                 queue, shown, conn, serverVars>>

BindRefresh ==
  /\ feeder = "bound"
  /\ Bind("Unassigned", <<"refresh">>)
  /\ feeder' = "prompt"
  /\ UNCHANGED <<interactive, asked, delegate, target, mainVars, pluginVars, ioRuns, ioVars,
                 helped, queue, shown, conn, serverVars>>

\* The user enters a command.
Feed ==
  /\ alive
  /\ feeder = "prompt"
  /\ asked < MaxFeeds
  /\ asked' = asked + 1
  /\ queue' = Append(queue, asked + 1)
  /\ UNCHANGED <<alive, interactive, feeder, delegate, target, mainVars, pluginVars, ioRuns,
                 ioVars, handlers, helped, shown, conn, serverVars>>

\* The user quits, or ends the input.
Quit ==
  /\ alive
  /\ feeder = "prompt"
  /\ ShutdownPlugins
  /\ signal' = TRUE
  /\ feeder' = "ended"
  /\ UNCHANGED <<alive, interactive, asked, delegate, target, main, file, delegates, ioRuns,
                 ioVars, handlers, helped, queue, shown, conn, serverVars>>

FeederStep == alive /\ (Run \/ EvalCommand \/ AskHelp \/ BindDelegate \/ BindRefresh)

----------------------------------------------------------------------------
(* The thread of the io_service                                            *)

Idle == io = "idle" /\ ioRuns

\* do_send.  What a closed connection does not take is dropped.
Send ==
  /\ Idle
  /\ queue # <<>>
  /\ queue' = Tail(queue)
  /\ \/ /\ conn = "up"
        /\ requests' = Append(requests, Head(queue))
        /\ UNCHANGED conn
     \/ /\ conn = "stopped" \/ server = "closed"
        /\ conn' = "stopped"
        /\ UNCHANGED requests
  /\ UNCHANGED <<alive, interactive, mainVars, pluginVars, feedVars, ioRuns, ioVars, handlers,
                 helped, shown, server, answers>>

\* on_read, and the dispatcher's deliver.
Read ==
  /\ Idle
  /\ conn = "up"
  /\ answers # <<>>
  /\ answers' = Tail(answers)
  /\ events' = Append(events, Head(answers))
  /\ UNCHANGED <<alive, interactive, mainVars, pluginVars, feedVars, ioRuns, io, todo, evt,
                 handlers, helped, queue, shown, conn, server, requests>>

\* on_read with an error, and connection::stop, which tells nobody.
ReadError ==
  /\ Idle
  /\ conn = "up"
  /\ server = "closed" /\ answers = <<>>
  /\ conn' = "stopped"
  /\ UNCHANGED <<alive, interactive, mainVars, pluginVars, feedVars, ioRuns, ioVars, handlers,
                 helped, queue, shown, serverVars>>

\* Mutant of Dispatch: events.back() instead of events.front().
Dispatch_Newest ==
  /\ Idle
  /\ events # <<>>
  /\ evt' = Last(events)
  /\ events' = Front(events)
  /\ todo' = IF Last(events) = Help THEN handlers["help"] ELSE <<>>
  /\ io' = "first"
  /\ UNCHANGED <<alive, interactive, mainVars, pluginVars, feedVars, ioRuns, handlers,
                 helped, queue, shown, conn, serverVars>>

\* dispatch finds the handlers of the message.
Dispatch ==
  /\ Idle
  /\ events # <<>>
  /\ evt' = Head(events)
  /\ events' = Tail(events)
  /\ todo' = IF Head(events) = Help THEN handlers["help"] ELSE <<>>
  /\ io' = "first"
  /\ UNCHANGED <<alive, interactive, mainVars, pluginVars, feedVars, ioRuns, handlers,
                 helped, queue, shown, conn, serverVars>>

\* The handler of the answer to the request for help, which resets the table that it
\* is called from.
HandleHelp ==
  /\ io = "first" /\ conn # "deleted"
  /\ todo # <<>>
  /\ handlers' = [u \in Uids |-> <<>>]
  /\ helped' = TRUE
  /\ todo' = <<>>
  /\ alive' \in BOOLEAN
  /\ UNCHANGED <<interactive, mainVars, pluginVars, feedVars, ioRuns, io, evt, events,
                 queue, shown, conn, serverVars>>

\* dispatch finds the handlers of unassigned messages.
FindUnassigned ==
  /\ io = "first" /\ conn # "deleted"
  /\ todo = <<>>
  /\ io' = "second"
  /\ todo' = handlers["Unassigned"]
  /\ UNCHANGED <<alive, interactive, mainVars, pluginVars, feedVars, ioRuns, evt, events,
                 handlers, helped, queue, shown, conn, serverVars>>

\* eval_and_quit, delegate::on_response, and refresh_shell.
HandleNext ==
  /\ io = "second" /\ conn # "deleted"
  /\ todo # <<>>
  /\ todo' = Tail(todo)
  /\ signal' = (signal \/ Head(todo) = "eval")
  /\ shown' = IF Head(todo) = "respond" THEN Append(shown, evt) ELSE shown
  /\ UNCHANGED <<alive, interactive, main, file, delegates, pluginVars, feedVars, ioRuns,
                 io, evt, events, handlers, helped, queue, conn, serverVars>>

Dispatched ==
  /\ io = "second" /\ conn # "deleted"
  /\ todo = <<>>
  /\ io' = "idle"
  /\ UNCHANGED <<alive, interactive, mainVars, pluginVars, feedVars, ioRuns, todo, evt, events,
                 handlers, helped, queue, shown, conn, serverVars>>

\* dispatch goes on in a connection that was deleted.
UseFreed ==
  /\ io \in {"first", "second"} /\ conn = "deleted"
  /\ io' = "idle"
  /\ todo' = <<>>
  /\ alive' \in BOOLEAN
  /\ UNCHANGED <<interactive, mainVars, pluginVars, feedVars, ioRuns, evt, events, handlers,
                 helped, queue, shown, conn, serverVars>>

\* io_service::run returns when it was stopped or has nothing left to wait for.
IoEnds ==
  /\ io = "idle"
  /\ ~ ioRuns \/ (conn = "stopped" /\ queue = <<>> /\ events = <<>>)
  /\ io' = "ended"
  /\ UNCHANGED <<alive, interactive, mainVars, pluginVars, feedVars, ioRuns, todo, evt, events,
                 handlers, helped, queue, shown, conn, serverVars>>

IoStep ==
  /\ alive
  /\ main # "end"
  /\ Send \/ Read \/ ReadError \/ Dispatch \/ HandleHelp \/ FindUnassigned \/ HandleNext
     \/ Dispatched \/ UseFreed \/ IoEnds

----------------------------------------------------------------------------
(* The console at the other end                                            *)

\* A request is answered, or, when its bot has not bound it, is not.
Serve ==
  /\ alive
  /\ server = "open"
  /\ requests # <<>>
  /\ requests' = Tail(requests)
  /\ \/ answers' = Append(answers, Head(requests))
     \/ Head(requests) # Help /\ UNCHANGED answers
  /\ UNCHANGED <<alive, interactive, mainVars, pluginVars, feedVars, ioRuns, ioVars, handlers,
                 helped, queue, shown, conn, server>>

Hangup ==
  /\ alive
  /\ server = "open"
  /\ main = "wait"
  /\ server' = "closed"
  /\ UNCHANGED <<alive, interactive, mainVars, pluginVars, feedVars, ioRuns, ioVars, handlers,
                 helped, queue, shown, conn, requests, answers>>

----------------------------------------------------------------------------
Next ==
  \/ MainStep \/ FeederStep \/ IoStep
  \/ alive /\ Interrupt
  \/ Feed \/ Quit \/ Serve \/ Hangup

Spec == Init /\ [][Next]_vars

\* The threads go on.  The user and the server may do nothing.
FairSpec == Spec /\ WF_vars(MainStep) /\ WF_vars(FeederStep) /\ WF_vars(IoStep)

----------------------------------------------------------------------------
(* Properties                                                              *)

Gone == ~ alive \/ main \in {"end", "failed"}

\* When the shell has ended in order, every plugin that was installed has been
\* uninstalled, and no library is left.
NothingIsLeft ==
  /\ TypeOK
  /\ main = "end" =>
    /\ mapped = {} /\ libs = <<>> /\ plugins = <<>>
    /\ \A p \in Libs : At(p, "install") # {} => At(p, "uninstall") # {}

\* Plugins are shut down and uninstalled in the reverse of the order in which they
\* came, whenever that is, and in the end all are.  (plugin_manager.cpp:97-160)
PluginsAreUnwound == UnwoundInReverse /\ NothingIsLeft

\* The answers a delegate is given belong to commands that were fed, each of them
\* once and in their order, whatever race they were dispatched in.
ShownInOrder ==
  \A i \in DOMAIN shown : shown[i] =< asked /\ \A j \in 1..(i - 1) : shown[j] < shown[i]

\* An answer that was read reaches the delegate, unless the shell is being stopped.
AnswerIsShown ==
  \A n \in 1..MaxFeeds :
    n \in ToSet(events) ~> n \in ToSet(shown) \/ ~ ioRuns \/ ~ alive

\* A shell whose user quits, or whose only command was answered, ends, whatever its
\* other threads do.
QuitEnds ==
  feeder = "ended" /\ (interactive \/ shown # <<>>) ~> Gone
================================================================================
