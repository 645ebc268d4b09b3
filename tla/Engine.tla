--------------------------------- MODULE Engine ---------------------------------
(***************************************************************************)
(* The Lua engine (src/src/lua/engine.cpp): one Lua state, which start     *)
(* opens, stop closes, and every method invokes scripts in; any script may *)
(* fail.  A failure is handled by on_error, which stops the engine, which  *)
(* invokes a script, which may fail.  The methods that are under way are   *)
(* the frames of a call stack; an exception unwinds them.                  *)
(***************************************************************************)
EXTENDS Integers, Sequences

CONSTANTS
  MaxStates,  \* bounds the Lua states that are ever opened
  MaxCalls    \* the depth of the call stack at which the process ends

\* Six calls are under way before an Algol.stop fails.
ASSUME EngineAssumption == MaxStates \in Nat /\ MaxCalls \in Nat /\ MaxCalls >= 6

VARIABLES
  lua,      \* lua_: "null" or "open"
  corrupt,  \* is_corrupt_
  throws,   \* mConfig.ErrorHandling is CATCH_AND_THROW; set_defaults is never called
  ticks,    \* mConfig.TickScript
  asserts,  \* whether the build keeps assertions
  arb,      \* whether the global "arbitrator" is a function
  route,    \* whether the field "algol.arbitrator" of the globals is one
  bottom,   \* what is at index 1 of the Lua stack: "none", "function" or "other"
  ran,      \* whether the state that is open has run its entry script
  stack,    \* the methods under way, the innermost last
  outcome,  \* of the last call of a client
  met,      \* whether that call met an error
  unstoppable, \* whether an Algol.stop ever failed
  opened,   \* the number of states that were opened
  closed,   \* and closed
  fault     \* why the process ended

config     == <<throws, ticks, asserts>>
scripts    == <<arb, route>>
accounts   == <<opened, closed>>
clientVars == <<outcome, met>>
vars == <<lua, corrupt, config, scripts, bottom, ran, stack, clientVars,
          unstoppable, accounts, fault>>

None     == "none"
Outcomes == {None, "true", "false", "void", "exception"}
Faults   == {None, "assertion", "closed_null", "null_state", "overflow", "terminate"}
Frames   == {"start", "run", "lookup", "started", "failed", "stop", "close",
             "restart", "restarting", "restarted", "invoke", "invoke_stop",
             "error", "caught", "destroyed"}

TypeOK ==
  /\ lua \in {"null", "open"}
  /\ {corrupt, throws, ticks, asserts, arb, route, ran, met, unstoppable} \subseteq BOOLEAN
  /\ bottom \in {"none", "function", "other"}
  /\ stack \in Seq(Frames) /\ Len(stack) <= MaxCalls
  /\ outcome \in Outcomes /\ fault \in Faults
  /\ opened \in 0..MaxStates /\ closed \in 0..MaxStates

Init ==
  /\ lua = "null" /\ corrupt = FALSE
  /\ throws \in BOOLEAN /\ ticks \in BOOLEAN   \* uninitialised
  /\ asserts \in BOOLEAN
  /\ arb = FALSE /\ route = FALSE /\ bottom = "none" /\ ran = FALSE
  /\ stack = <<>> /\ outcome = None /\ met = FALSE
  /\ unstoppable = FALSE /\ opened = 0 /\ closed = 0 /\ fault = None

-----------------------------------------------------------------------------
(***************************************************************************)
(* Control: calls, returns, exceptions and the end of the process.         *)
(***************************************************************************)
At(f)    == fault = None /\ stack # <<>> /\ stack[Len(stack)] = f
Below    == SubSeq(stack, 1, Len(stack) - 1)
Fault(f) == fault' = f /\ stack' = <<>> /\ UNCHANGED outcome

Goto(frame) == stack' = Append(Below, frame) /\ UNCHANGED <<outcome, fault>>

\* the method called goes on at frame when callee returns
Call(callee, frame) ==
  IF Len(stack) < MaxCalls
  THEN stack' = Below \o <<frame, callee>> /\ UNCHANGED <<outcome, fault>>
  ELSE Fault("overflow")

Return(value) ==
  /\ stack' = Below
  /\ outcome' = IF Below = <<>> THEN value ELSE outcome
  /\ UNCHANGED fault

\* on_error catches what its stop throws; a destructor that throws terminates.
Handlers == {i \in 1..Len(Below) : stack[i] = "caught"}

Throw ==
  IF Handlers # {}
  THEN /\ stack' = SubSeq(stack, 1, CHOOSE i \in Handlers : \A j \in Handlers : j <= i)
       /\ UNCHANGED <<outcome, fault>>
  ELSE IF stack[1] = "destroyed" THEN Fault("terminate")
  ELSE stack' = <<>> /\ outcome' = "exception" /\ UNCHANGED fault

\* lua_getglobal leaves what it finds on the Lua stack.
Pushed(isFunction) ==
  IF bottom # "none" THEN bottom ELSE IF isFunction THEN "function" ELSE "other"

-----------------------------------------------------------------------------
(***************************************************************************)
(* start                                                                   *)
(***************************************************************************)
StartOn ==
  /\ At("start") /\ lua = "open"
  /\ Return("true")
  /\ UNCHANGED <<lua, corrupt, scripts, bottom, ran, met, unstoppable, accounts>>

StartOff ==
  /\ At("start") /\ lua = "null" /\ opened < MaxStates
  /\ lua' = "open" /\ opened' = opened + 1
  /\ corrupt' = FALSE /\ bottom' = "none" /\ ran' = FALSE
  /\ arb' = FALSE /\ route' = FALSE
  /\ Goto("run")
  /\ UNCHANGED <<met, unstoppable, closed>>

\* run throws when the script cannot be loaded, and nobody closes the state.
RunFails ==
  /\ At("run")
  /\ bottom' = "none" /\ met' = TRUE
  /\ Throw
  /\ UNCHANGED <<lua, corrupt, scripts, ran, unstoppable, accounts>>

RunLoads ==
  /\ At("run")
  /\ ran' = TRUE
  /\ arb' \in BOOLEAN /\ route' \in BOOLEAN
  /\ Goto("lookup")
  /\ UNCHANGED <<lua, corrupt, bottom, met, unstoppable, accounts>>

StartLookup ==
  /\ At("lookup")
  /\ bottom' = Pushed(arb)
  /\ IF arb THEN Call("invoke", "started") /\ UNCHANGED met
            ELSE Call("error", "failed") /\ met' = TRUE
  /\ UNCHANGED <<lua, corrupt, scripts, ran, unstoppable, accounts>>

Started ==
  /\ At("started")
  /\ Return(IF lua = "open" THEN "true" ELSE "false")
  /\ UNCHANGED <<lua, corrupt, scripts, bottom, ran, met, unstoppable, accounts>>

\* after on_error, in start and in invoke
Failed ==
  /\ At("failed")
  /\ Return("false")
  /\ UNCHANGED <<lua, corrupt, scripts, bottom, ran, met, unstoppable, accounts>>

-----------------------------------------------------------------------------
(***************************************************************************)
(* stop and restart                                                        *)
(***************************************************************************)
\* Mutant of StopOff: whether there is a state is not asked.
StopOff_Unchecked ==
  /\ At("stop") /\ lua = "null"
  /\ Goto("close")
  /\ UNCHANGED <<lua, corrupt, scripts, bottom, ran, met, unstoppable, accounts>>

StopOff ==
  /\ At("stop") /\ lua = "null"
  /\ Return("true")
  /\ UNCHANGED <<lua, corrupt, scripts, bottom, ran, met, unstoppable, accounts>>

StopOn ==
  /\ At("stop") /\ lua = "open"
  /\ bottom' = Pushed(arb)
  /\ IF arb THEN Call("invoke_stop", "close") ELSE Goto("close")
  /\ UNCHANGED <<lua, corrupt, scripts, ran, met, unstoppable, accounts>>

\* Mutant of Close: the state is not closed.
Close_Leaks ==
  /\ At("close")
  /\ lua' = "null" /\ Return("true")
  /\ UNCHANGED <<corrupt, scripts, bottom, ran, met, unstoppable, accounts>>

\* lua_close
Close ==
  /\ At("close")
  /\ IF lua = "open"
     THEN lua' = "null" /\ closed' = closed + 1 /\ Return("true")
     ELSE Fault("closed_null") /\ UNCHANGED <<lua, closed>>
  /\ UNCHANGED <<corrupt, scripts, bottom, ran, met, unstoppable, opened>>

Restart ==
  /\ \/ At("restart") /\ lua = "null" /\ Return("void")
     \/ At("restart") /\ lua = "open" /\ Call("stop", "restarting")
     \/ At("restarting") /\ Call("start", "restarted")
     \/ At("restarted") /\ Return("void")
  /\ UNCHANGED <<lua, corrupt, scripts, bottom, ran, met, unstoppable, accounts>>

-----------------------------------------------------------------------------
(***************************************************************************)
(* invoke                                                                  *)
(***************************************************************************)
Invoking == At("invoke") \/ At("invoke_stop")

InvokeCorrupt ==
  /\ Invoking /\ corrupt
  /\ Return("false")
  /\ UNCHANGED <<lua, corrupt, scripts, bottom, ran, met, unstoppable, accounts>>

\* lua_getfield(nullptr)
InvokeNull ==
  /\ Invoking /\ ~corrupt /\ lua = "null"
  /\ Fault("null_state")
  /\ UNCHANGED <<lua, corrupt, scripts, bottom, ran, met, unstoppable, accounts>>

\* What is tested is the bottom of the Lua stack, and what is called is the field.
InvokeSucceeds ==
  /\ Invoking /\ ~corrupt /\ lua = "open"
  /\ Pushed(route) = "function" /\ route
  /\ arb' \in BOOLEAN /\ route' \in BOOLEAN
  /\ \E b \in {"true", "false"} : Return(b)
  /\ UNCHANGED <<lua, corrupt, bottom, ran, met, unstoppable, accounts>>

InvokeFails ==
  /\ Invoking /\ ~corrupt /\ lua = "open"
  /\ bottom' = Pushed(route)
  /\ met' = TRUE
  /\ unstoppable' = (unstoppable \/ At("invoke_stop"))
  /\ Call("error", "failed")
  /\ UNCHANGED <<lua, corrupt, scripts, ran, accounts>>

-----------------------------------------------------------------------------
(***************************************************************************)
(* on_error: the message is popped, and with it all that is on the Lua     *)
(* stack; then the engine is stopped, whatever that throws.                *)
(***************************************************************************)
OnError ==
  /\ At("error")
  /\ bottom' \in {"none", bottom}
  /\ Call("stop", "caught")
  /\ UNCHANGED <<lua, corrupt, scripts, ran, met, unstoppable, accounts>>

Caught ==
  /\ At("caught")
  /\ corrupt' = TRUE
  /\ IF throws THEN Throw
     ELSE IF asserts THEN Fault("assertion")
     ELSE Return("void")
  /\ UNCHANGED <<lua, scripts, bottom, ran, met, unstoppable, accounts>>

-----------------------------------------------------------------------------
(***************************************************************************)
(* What clients call.                                                      *)
(***************************************************************************)
Idle == fault = None /\ stack = <<>>

ClientCalls(frames) ==
  /\ Idle
  /\ stack' = frames /\ met' = FALSE /\ outcome' = None
  /\ UNCHANGED <<lua, corrupt, scripts, bottom, ran, unstoppable, accounts, fault>>

Client ==
  \/ ClientCalls(<<"start">>) \/ ClientCalls(<<"stop">>) \/ ClientCalls(<<"restart">>)
  \/ ClientCalls(<<"invoke">>)
  \/ ClientCalls(<<"destroyed", "stop">>)
  \/ ticks /\ ClientCalls(<<"invoke">>)   \* update

SetOption ==
  /\ Idle
  /\ throws' \in BOOLEAN /\ ticks' \in BOOLEAN
  /\ met' = FALSE
  /\ UNCHANGED <<lua, corrupt, asserts, scripts, bottom, ran, stack, outcome,
                 unstoppable, accounts, fault>>

Step ==
  \/ StartOn \/ StartOff \/ RunFails \/ RunLoads \/ StartLookup \/ Started \/ Failed
  \/ StopOff \/ StopOn \/ Close \/ Restart
  \/ InvokeCorrupt \/ InvokeNull \/ InvokeSucceeds \/ InvokeFails
  \/ OnError \/ Caught

Next == ((Step \/ Client) /\ UNCHANGED config) \/ SetOption

Spec == Init /\ [][Next]_vars

-----------------------------------------------------------------------------
\* Every state that was opened is closed, once, or is the one lua_ points to, and an
\* engine that was found corrupt is off: whatever failed on the way, its state was
\* closed before the error came out.  (engine.cpp:122, 162, 252-281)
ClosedOnce ==
  /\ TypeOK
  /\ opened = closed + IF lua = "open" THEN 1 ELSE 0
  /\ Idle /\ corrupt => lua = "null"

\* With exceptions an error reaches the client that called, through however many
\* errors of handling it; and unless an Algol.stop fails, the error handler does not
\* run into itself: a null state is never closed, and the call stack never overflows.
\* (engine.cpp:149-168, 252-281)
ErrorsEnd ==
  /\ Idle /\ met /\ throws => outcome = "exception"
  /\ fault \in {"closed_null", "overflow"} => unstoppable

\* An engine that says it started has run its entry script: start "builds the Lua
\* state" (engine.hpp:55).  Not so: when the script cannot be loaded the state stays
\* open, and the next start returns true.  (engine.cpp:112-147)
StartedHasRun == (Idle /\ lua = "open" /\ outcome = "true") => ran
=============================================================================
