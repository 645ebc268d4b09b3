--------------------------------- MODULE Logging ---------------------------------
(***************************************************************************)
(* The log manager (src/src/log_manager.cpp) and the loggers               *)
(* (src/src/logger.cpp).  The manager keeps one appender on a log4cpp      *)
(* category and replaces it whenever it is configured; every logger owns   *)
(* a category object of its own, which writes to the appenders of the      *)
(* category it was made for.                                               *)
(*                                                                         *)
(* What is undefined (a null pointer or a pointer to what was deleted is   *)
(* followed, something is deleted twice) ends the process or goes by       *)
(* unnoticed.                                                              *)
(***************************************************************************)
EXTENDS Naturals, Sequences

CONSTANTS
  Loggers,
  Categories,   \* the names of log4cpp categories
  Algol,        \* the one that init has for a default
  MaxAppenders, \* bounds the appenders that are ever made
  MaxObjects    \* bounds the category objects that are ever made

ASSUME LoggingAssumption ==
  /\ Algol \in Categories /\ Categories \intersect {"none", "deleted"} = {}
  /\ {MaxAppenders, MaxObjects} \subseteq Nat

VARIABLES
  mgr,       \* the log manager
  attached,  \* the appenders of each category
  made,      \* the number of appenders made; they are numbered
  freed,     \* and those that were freed
  exists,    \* of each logger: "no", "yes" or "destroyed"
  log,       \* log_ of each logger, 0 for a null pointer
  heap,      \* the category objects that were made: their category, or "deleted"
  wrote,     \* the appenders that the last message went to
  blame,     \* what was done that is not provided for
  sound      \* FALSE once undefined behaviour ended the process

loggerVars   == <<exists, log, heap>>
appenderVars == <<attached, made, freed>>
logVars      == <<mgr, appenderVars, loggerVars, wrote, blame, sound>>

NoCategory == "none"
Devices    == {"stdout", "syslog", "file"}
Blames     == {"copied", "contextless", "header", "unconfigured", "late", "renamed"}
NoMessage  == [sent |-> FALSE, to |-> {}]

\* log_ and anonymous_log_ (up), log_category_, category_name_, log_appender_, and
\* of config_ the device and silent
Manager ==
  [up : BOOLEAN, category : Categories \union {NoCategory}, name : Categories,
   appender : 0..MaxAppenders, device : Devices, silent : BOOLEAN]

LoggingTypeOK ==
  /\ mgr \in Manager
  /\ attached \in [Categories -> SUBSET (1..MaxAppenders)]
  /\ made \in 0..MaxAppenders /\ freed \subseteq 1..made
  /\ exists \in [Loggers -> {"no", "yes", "destroyed"}]
  /\ log \in [Loggers -> 0..MaxObjects]
  /\ heap \in Seq(Categories \union {"deleted"}) /\ Len(heap) <= MaxObjects
  /\ wrote \in [sent : BOOLEAN, to : SUBSET (1..MaxAppenders)]
  /\ blame \subseteq Blames /\ sound \in BOOLEAN

\* The singleton's constructor calls init with the default.
LoggingInit ==
  /\ mgr = [up |-> TRUE, category |-> Algol, name |-> Algol, appender |-> 0,
            device |-> "stdout", silent |-> FALSE]
  /\ attached = [c \in Categories |-> {}]
  /\ made = 0 /\ freed = {}
  /\ exists = [l \in Loggers |-> "no"]
  /\ log = [l \in Loggers |-> 0]
  /\ heap = <<>>
  /\ wrote = NoMessage
  /\ blame = {} /\ sound = TRUE

Silently == wrote' = NoMessage

\* What is done is defined, or else it is for one of these reasons that it is not.
Goes(defined, reasons) ==
  /\ sound' \in IF defined THEN {TRUE} ELSE BOOLEAN
  /\ blame' = IF defined THEN blame ELSE blame \union reasons

-----------------------------------------------------------------------------
(***************************************************************************)
(* The log manager                                                         *)
(***************************************************************************)
\* init: it names the category even if it does not make one.
InitManager(c) ==
  /\ sound
  /\ mgr' = [mgr EXCEPT !.name = c, !.up = TRUE,
                        !.category = IF mgr.up THEN @ ELSE c]
  /\ blame' = IF c # mgr.name THEN blame \union {"renamed"} ELSE blame
  /\ Silently /\ UNCHANGED <<appenderVars, loggerVars, sound>>

\* set_option; a device that is not known is warned of, with log_, and becomes "file".
SetDevice(d) ==
  /\ sound
  /\ mgr' = [mgr EXCEPT !.device = IF d \in Devices THEN d ELSE "file"]
  /\ Goes(d \in Devices \/ mgr.up, {"late"})
  /\ Silently /\ UNCHANGED <<appenderVars, loggerVars>>

SetHeader(b) ==
  /\ sound
  /\ mgr' = [mgr EXCEPT !.silent = ~b]
  /\ Silently /\ UNCHANGED <<appenderVars, loggerVars, blame, sound>>

\* addAppender hands the appender over, and removeAppender frees it.
Replaced(old, new) ==
  /\ attached' = [attached EXCEPT ![mgr.category] = (@ \ {old}) \union new]
  /\ freed' = freed \union ({old} \ {0})

\* The part of configure that comes before the new appender.
Configuring == sound /\ mgr.category # NoCategory /\ Silently /\ UNCHANGED loggerVars

\* create_directory throws.
ConfigureFails ==
  /\ Configuring /\ mgr.device = "file"
  /\ Replaced(mgr.appender, {})
  /\ mgr' = [mgr EXCEPT !.appender = 0]
  /\ Goes(mgr.appender \notin freed, {})
  /\ UNCHANGED made

\* Mutant of Configure: the old appender is kept.
Configure_KeepsOld ==
  /\ Configuring /\ made < MaxAppenders
  /\ Replaced(0, {made + 1})
  /\ made' = made + 1
  /\ mgr' = [mgr EXCEPT !.appender = made + 1]
  /\ Goes(mgr.appender \notin freed /\ mgr.silent, IF mgr.silent THEN {} ELSE {"header"})

\* The layout of the header is deleted while the appender, which owns its layout, has
\* it, and then replaced.
Configure ==
  /\ Configuring /\ made < MaxAppenders
  /\ Replaced(mgr.appender, {made + 1})
  /\ made' = made + 1
  /\ mgr' = [mgr EXCEPT !.appender = made + 1]
  /\ Goes(mgr.appender \notin freed /\ mgr.silent, IF mgr.silent THEN {} ELSE {"header"})

\* Category::shutdown removes the appenders of all categories.
Cleanup ==
  /\ sound /\ mgr.appender # 0
  /\ attached' = [c \in Categories |-> {}]
  /\ freed' = freed \union {mgr.appender} \union UNION {attached[c] : c \in Categories}
  /\ mgr' = [mgr EXCEPT !.up = FALSE, !.category = NoCategory, !.appender = 0]
  /\ Goes(mgr.appender \notin freed, {})
  /\ Silently /\ UNCHANGED <<made, loggerVars>>

\* A message of the anonymous log, or set_option's of an unknown key.
UseManager ==
  /\ sound
  /\ wrote' = IF mgr.up THEN [sent |-> TRUE, to |-> attached[mgr.category]] ELSE NoMessage
  /\ Goes(mgr.up, {"late"})
  /\ UNCHANGED <<mgr, appenderVars, loggerVars>>

\* After cleanup the pointers are null, and cleanup needs an appender.
ConfigureTooLate ==
  /\ sound /\ mgr.category = NoCategory
  /\ Goes(FALSE, {"late"})
  /\ Silently /\ UNCHANGED <<mgr, appenderVars, loggerVars>>

CleanupTooSoon ==
  /\ sound /\ mgr.appender = 0
  /\ mgr' = [mgr EXCEPT !.up = FALSE, !.category = NoCategory]
  /\ Goes(FALSE, {"unconfigured"})
  /\ Silently /\ UNCHANGED <<appenderVars, loggerVars>>

-----------------------------------------------------------------------------
(***************************************************************************)
(* Loggers                                                                 *)
(***************************************************************************)
ConstructLogger(l) ==
  /\ sound /\ exists[l] = "no"
  /\ exists' = [exists EXCEPT ![l] = "yes"]
  /\ \/ /\ Len(heap) < MaxObjects
        /\ heap' = Append(heap, mgr.name)
        /\ log' = [log EXCEPT ![l] = Len(heap')]
     \/ UNCHANGED <<heap, log>>   \* no context
  /\ Silently /\ UNCHANGED <<mgr, appenderVars, blame, sound>>

\* The copy constructor and the assignment, which forgets what it had: both share log_.
CopyLogger(l, src) ==
  /\ sound /\ l # src /\ exists[l] # "destroyed" /\ exists[src] = "yes"
  /\ exists' = [exists EXCEPT ![l] = "yes"]
  /\ log' = [log EXCEPT ![l] = log[src]]
  /\ blame' = blame \union {"copied"}
  /\ Silently /\ UNCHANGED <<mgr, appenderVars, heap, sound>>

Usable(l) == log[l] # 0 /\ heap[log[l]] # "deleted"

\* assign_uuid
AssignUuid(l) ==
  /\ sound /\ exists[l] = "yes"
  /\ Goes(Usable(l), IF log[l] = 0 THEN {"contextless"} ELSE {})
  /\ Silently /\ UNCHANGED <<mgr, appenderVars, loggerVars>>

\* A message of the logger goes to the appenders of its category.
Write(l) ==
  /\ sound /\ exists[l] = "yes"
  /\ Goes(Usable(l), IF log[l] = 0 THEN {"contextless"} ELSE {})
  /\ wrote' = IF Usable(l) THEN [sent |-> TRUE, to |-> attached[heap[log[l]]]]
                           ELSE NoMessage
  /\ UNCHANGED <<mgr, appenderVars, loggerVars>>

DestroyLogger(l) ==
  /\ sound /\ exists[l] = "yes"
  /\ exists' = [exists EXCEPT ![l] = "destroyed"]
  /\ log' = [log EXCEPT ![l] = 0]
  /\ IF log[l] = 0
     THEN UNCHANGED <<heap, blame, sound>>
     ELSE /\ heap' = [heap EXCEPT ![log[l]] = "deleted"]
          /\ Goes(Usable(l), {})
  /\ Silently /\ UNCHANGED <<mgr, appenderVars>>

LoggingNext ==
  \/ \E c \in Categories : InitManager(c)
  \/ \E d \in Devices \union {"other"} : SetDevice(d)
  \/ \E b \in BOOLEAN : SetHeader(b)
  \/ ConfigureFails \/ Configure \/ Cleanup
  \/ UseManager \/ ConfigureTooLate \/ CleanupTooSoon
  \/ \E l \in Loggers : ConstructLogger(l) \/ AssignUuid(l) \/ Write(l) \/ DestroyLogger(l)
  \/ \E l, src \in Loggers : CopyLogger(l, src)

LoggingSpec == LoggingInit /\ [][LoggingNext]_logVars

-----------------------------------------------------------------------------
\* Whatever the order of the configurations, the ones that fail and the cleanups,
\* a message is written once, to the appender that is in place, if there is one.
\* (log_manager.cpp:84-167; init with a name of one's own excepted)
WrittenOnce ==
  (wrote.sent /\ sound /\ "renamed" \notin blame) =>
    wrote.to = {mgr.appender} \ {0} /\ wrote.to \intersect freed = {}

\* Nothing undefined happens to clients that do not copy loggers or use one without
\* a context, show no header, clean up what is configured and do not use the manager
\* after that.  (log_manager.cpp:84-290, logger.cpp:36-68)
LoggingIsDefined == LoggingTypeOK /\ (~sound => blame \ {"renamed"} # {})

\* What is logged is written once, and logging is defined.  (log_manager.cpp, logger.cpp)
LoggingIsSound == WrittenOnce /\ LoggingIsDefined

\* init takes "a unique identifier for the primary logging category used to create
\* instances of loggers" (log_manager.hpp:81), so that with an appender in place a
\* message is written.  Not so: the constructor has called init before, the new name
\* is that of a category without an appender, and the messages of the loggers made
\* from then on are lost.  (log_manager.cpp:68-72)
NamedCategoryIsWritten == (wrote.sent /\ sound /\ mgr.appender # 0) => wrote.to # {}
==================================================================================
