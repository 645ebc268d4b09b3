-------------------------------- MODULE Plugins --------------------------------
(***************************************************************************)
(* algol::plugin_manager (src/plugin_manager.cpp) and the libraries it     *)
(* loads.  A library carries one plugin, which goes by its name, and is    *)
(* written as plugin.hpp asks: dllStartPlugin creates and installs the     *)
(* plugin, dllStopPlugin uninstalls and deletes it.                        *)
(*                                                                         *)
(* The operations are actions that whoever owns the manager composes.      *)
(***************************************************************************)
EXTENDS Naturals, FiniteSets, SequencesExt

CONSTANT Libs   \* the libraries, by path

VARIABLES
  init,     \* init_
  mapped,   \* dyn_libs_: the libraries that dlopen has mapped
  libs,     \* plugin_libs_
  plugins,  \* plugins_
  calls     \* what was called of which plugin, in order

pluginVars == <<init, mapped, libs, plugins, calls>>

Methods == {"install", "initialise", "shutdown", "uninstall"}

PluginsTypeOK ==
  /\ init \in BOOLEAN
  /\ mapped \subseteq Libs
  /\ libs \in Seq(Libs)
  /\ plugins \in Seq(Libs)
  /\ calls \in Seq([of : Libs, what : Methods])

\* init_ is not initialised by the constructor.
PluginsInit ==
  /\ init \in BOOLEAN
  /\ mapped = {}
  /\ libs = <<>>
  /\ plugins = <<>>
  /\ calls = <<>>

\* The calls of the methods ms of each plugin of ps in turn.
Calls(ps, ms) ==
  [i \in 1..(Len(ps) * Len(ms)) |->
    [of |-> ps[((i - 1) \div Len(ms)) + 1], what |-> ms[((i - 1) % Len(ms)) + 1]]]

\* load_plugin: what is loaded already is left alone.
Loaded(l) ==
  /\ l \in mapped
  /\ UNCHANGED pluginVars

\* load_plugin throws because there is no such library, or it has no dllStartPlugin.
LoadThrows(l) ==
  /\ l \notin mapped
  /\ \/ UNCHANGED <<mapped, libs>>
     \/ /\ mapped' = mapped \union {l}
        /\ libs' = Append(libs, l)
  /\ UNCHANGED <<init, plugins, calls>>

\* load_plugin, dllStartPlugin and install_plugin.
Load(l) ==
  /\ l \notin mapped
  /\ mapped' = mapped \union {l}
  /\ libs' = Append(libs, l)
  /\ plugins' = Append(plugins, l)
  /\ calls' = calls \o
       Calls(<<l>>, IF init THEN <<"install", "initialise">> ELSE <<"install">>)
  /\ UNCHANGED init

SetInit(b) ==
  /\ init' = b
  /\ UNCHANGED <<mapped, libs, plugins, calls>>

InitialisePlugins ==
  /\ calls' = calls \o Calls(plugins, <<"initialise">>)
  /\ UNCHANGED <<init, mapped, libs, plugins>>

\* Mutant of ShutdownPlugins: first to last.
ShutdownPlugins_Forward ==
  /\ calls' = calls \o Calls(plugins, <<"shutdown">>)
  /\ UNCHANGED <<init, mapped, libs, plugins>>

ShutdownPlugins ==
  /\ calls' = calls \o Calls(Reverse(plugins), <<"shutdown">>)
  /\ UNCHANGED <<init, mapped, libs, plugins>>

\* unload_plugins: dllStopPlugin and uninstall_plugin of every library, last to first,
\* which leaves no plugin behind.
UnloadPlugins ==
  /\ calls' = calls \o
       Calls(Reverse(libs), IF init THEN <<"shutdown", "uninstall">> ELSE <<"uninstall">>)
  /\ libs' = <<>>
  /\ mapped' = mapped \ ToSet(libs)
  /\ plugins' = <<>>

Rank(m) == CASE m = "install" -> 1 [] m = "initialise" -> 2
             [] m = "shutdown" -> 3 [] m = "uninstall" -> 4

At(p, m) == {i \in DOMAIN calls : calls[i] = [of |-> p, what |-> m]}

\* A plugin is installed, initialised, shut down and uninstalled in this order, though
\* it may be initialised and shut down more than once, and it is not uninstalled
\* without having been shut down.
LifeCycle ==
  /\ \A i, j \in DOMAIN calls :
       i < j /\ calls[i].of = calls[j].of =>
         /\ Rank(calls[i].what) =< Rank(calls[j].what)
         /\ calls[i].what \in {"install", "uninstall"} => calls[i] # calls[j]
  /\ \A p \in Libs : At(p, "uninstall") # {} => At(p, "shutdown") # {}

\* Of two plugins, the one loaded first is shut down and uninstalled last, each time
\* the plugins are shut down: "reverse order to enforce dependencies"
\* (plugin_manager.cpp:101).
UnwoundInReverse ==
  /\ LifeCycle
  /\ \A p, q \in Libs : \A i \in At(p, "install"), j \in At(q, "install") :
    i < j => \A m \in {"shutdown", "uninstall"}, k \in DOMAIN calls :
               k \in At(p, m) =>
                 Cardinality({n \in At(p, m) : n =< k}) =< Cardinality({n \in At(q, m) : n < k})
================================================================================
