------------------------------ MODULE Registry ------------------------------
(***************************************************************************)
(* Plugins and what they register: commands (src/src/parse_input_string.c), *)
(* tables of handlers for the lines of the server                           *)
(* (src/src/parse_server_string.c), drivers (src/src/io.c), hooks of the    *)
(* main loop and of tab completion (src/src/loop_hooks.c, tab_complete.c),  *)
(* loaded, reloaded and unloaded by src/src/plugin.c at any time a command  *)
(* or a handler runs, and what scripts register on top of it through the    *)
(* plugin for Python (src/plugins/python/python.c).                         *)
(*                                                                         *)
(* A step loads, unloads or reloads one plugin, registers something for a   *)
(* script, or begins or ends a call of registered code.  Code is there      *)
(* while its plugin is mapped, as often as it was opened and not closed.    *)
(***************************************************************************)
EXTENDS Integers, Lists, Links

CONSTANTS
  Plugin,       \* the plugins
  Core,         \* the program itself, as the owner of what it registers
  Python,       \* the plugin that runs scripts
  Command,      \* the names of commands
  CommandList,  \* the names each plugin has in its command_list
  HasStrings,   \* the plugins with a server_string_list
  HasDriver,    \* the plugins with an io_driver
  HasHook,      \* the plugins with an irc_hook, an input_hook or a ctcp_in_hook
  CanFail,      \* the plugins whose plugin_init may fail
  Nobody,       \* no owner
  Sentinel,     \* the sentinel of a list
  MaxLoads,     \* bound of the times each plugin is opened
  MaxOpens      \* bound of the times that any plugin is opened

ASSUME RegistryOK ==
  /\ IsFiniteSet(Plugin)
  /\ Python \in Plugin \ (HasStrings \cup HasDriver)
  /\ HasStrings \subseteq Plugin /\ HasDriver \subseteq Plugin
  /\ HasHook \subseteq Plugin /\ CanFail \subseteq Plugin
  /\ Core \notin Plugin /\ Nobody \notin Plugin \cup {Core}
  /\ Sentinel \notin Plugin
  /\ CommandList \in [Plugin \cup {Core} -> SUBSET Command]
  /\ \A p, q \in Plugin \cup {Core} : p # q => CommandList[p] \cap CommandList[q] = {}
  /\ MaxLoads \in Nat \ {0} /\ MaxOpens \in Nat

\* server_string_list_t: a table, each time that it is registered.
Table == ((HasStrings \cup {Python}) \X (1..MaxLoads)) \cup {<<Core, 1>>}

ASSUME SentinelOK == Sentinel \notin Table

Owner(table) == table[1]

VARIABLES
  plugins,   \* plugin_head
  loads,     \* how often each plugin was opened
  mapped,    \* how many handles of it are not closed
  commands,  \* the hash of commands: who handles each
  tables,    \* the list of handler tables
  drivers,   \* the list of drivers
  hooked,    \* how often Python has its hooks of the main loop and of completion
  scripts,   \* py_commands: the clist of the scripts' commands
  handler,   \* py_server_strings: the table for the line that scripts handle
  timers,    \* the scripts' timed functions and polls: "none", "set", or "left"
  call,      \* the code that runs: its owner, and its table if it handles a line
  again,     \* the plugins that are still to be reloaded
  taken,     \* history: the names that scripts have taken
  spoiled,   \* history: the plugins that registered something twice, or failed
  outcome    \* "running", or what stopped the program

registered == <<commands, tables, drivers, hooked>>
python == <<scripts, handler, timers>>
vars == <<plugins, loads, mapped, registered, python, call, again, taken, spoiled, outcome>>

Idle == [owner |-> Nobody, table |-> Sentinel]

Loaded(p) == p \in Range(plugins)

\* How often any plugin was opened.
Opens == FoldFunction(+, 0, loads)

Mapped(p) == p = Core \/ mapped[p] > 0

Tables == Ahead(tables, Sentinel, Sentinel)

Drivers == Ahead(drivers, Sentinel, Sentinel)

TablesOf(p) == {t \in Tables : Owner(t) = p}

-----------------------------------------------------------------------------
(* Registering.                                                            *)

\* register_command_list: a name that is there is taken over.
RegisterCommandList(names, owner) ==
  [n \in Command |-> IF n \in names THEN owner ELSE commands[n]]

\* Mutant: the loop ends before the last name of a list.
UnregisterAllButLast(names) ==
  [n \in Command |-> IF n \in names /\ names # {n} THEN Nobody ELSE commands[n]]

\* unregister_command_list: whatever goes by the names.
UnregisterCommandList(names) ==
  [n \in Command |-> IF n \in names THEN Nobody ELSE commands[n]]

\* unregister_server_string_list of all that ts are.
UnregisterStrings(l, ts) == ListWithout(l, Sentinel, ts)

\* The tables after register_server_string_list of the t-th of owner p.
RegisterStrings(l, p, t) == ListInsert(l, Sentinel, <<p, t>>)

\* register_io_driver
WithDriver(p) == IF p \in HasDriver THEN ListInsert(drivers, Sentinel, p) ELSE drivers

\* Mutant: the driver stays on the list.
DriverLeft(p) == drivers

\* unregister_io_driver
WithoutDriver(p) == IF p \in HasDriver THEN ListRemove(drivers, p) ELSE drivers

\* add_loop_hook and add_tab_completes
AddHook(p) == IF p = Python THEN hooked + 1 ELSE hooked

\* Mutant: goodbye forgets the hooks.
HookLeft(p) == hooked

\* remove_loop_hook and remove_tab_completes, which remove all that are the same
RemoveHook(p) == IF p = Python THEN 0 ELSE hooked

-----------------------------------------------------------------------------
(* Loading.                                                                *)

\* init_plugin registers, and the plugin_init of Python, which empties its own
\* tables.
InitPlugin(p) ==
  /\ commands' = RegisterCommandList(CommandList[p], p)
  /\ tables' = IF p \in HasStrings THEN RegisterStrings(tables, p, loads'[p]) ELSE tables
  /\ drivers' = WithDriver(p)
  /\ hooked' = AddHook(p)
  /\ IF p = Python
     THEN scripts' = [n \in Command |-> "none"] /\ handler' = Sentinel
     ELSE UNCHANGED <<scripts, handler>>

\* Mutant: a plugin that is on the list is put there again.
RegisterAgain(p) == Append(plugins, p)

\* register_plugin
RegisterPlugin(p) == IF Loaded(p) THEN plugins ELSE Append(plugins, p)

\* load_plugin, whose find_plugin never finds the plugin: it is asked for by the
\* name of its file.  init_plugin may fail at its end.
Load(p) ==
  /\ loads[p] < MaxLoads /\ Opens < MaxOpens
  /\ loads' = [loads EXCEPT ![p] = @ + 1]
  /\ mapped' = [mapped EXCEPT ![p] = @ + 1]
  /\ InitPlugin(p)
  /\ \/ /\ plugins' = RegisterPlugin(p)
        /\ spoiled' = IF Loaded(p) THEN spoiled \cup {p} ELSE spoiled
     \/ /\ p \in CanFail
        /\ plugins' = Unlink(plugins, p)
        /\ spoiled' = spoiled \cup {p}
  /\ UNCHANGED <<timers, taken>>

\* The commands that goodbye finds in py_commands, as far as they have a clist.
Listed == {n \in Command : scripts[n] = "listed"}

\* plugin_cleanup and what unload_plugin takes off the lists.
Unregister(p) ==
  LET names == CommandList[p] \cup IF p = Python THEN Listed ELSE {}
      ts    == IF p = Python THEN {handler} \ {Sentinel} ELSE TablesOf(p)
  IN /\ commands' = UnregisterCommandList(names)
     /\ tables' = UnregisterStrings(tables, ts)
     /\ drivers' = WithoutDriver(p)
     /\ hooked' = RemoveHook(p)
     /\ timers' = IF p = Python /\ timers = "set" THEN "left" ELSE timers

\* goodbye follows the clist of every command, which is not set for one that was
\* registered again; and there is nothing to return to for a plugin that has its
\* own code unloaded.
UnloadOutcomes(p) ==
  IF call.owner = p THEN {"own code gone"}
  ELSE IF p = Python /\ \E n \in Command : scripts[n] = "unset" THEN {"running", "bad list"}
  ELSE {"running"}

Unload(p) ==
  /\ plugins' = Unlink(plugins, p)
  /\ mapped' = [mapped EXCEPT ![p] = @ - 1]
  /\ Unregister(p)
  /\ outcome' \in UnloadOutcomes(p)
  /\ UNCHANGED <<loads, scripts, handler, taken, spoiled>>

-----------------------------------------------------------------------------
(* What commands of the program and scripts may do while they run.         *)

MayLoad == call.owner \in {Core, Python} /\ again = <<>>

LoadPlugin ==
  /\ MayLoad
  /\ \E p \in Plugin : Load(p)
  /\ UNCHANGED <<call, again, outcome>>

UnloadPlugin ==
  /\ MayLoad
  /\ \E p \in Range(plugins) : Unload(p)
  /\ UNCHANGED <<call, again>>

\* reload_all_plugins copies the list, and does the copy from its end;
\* reload_plugin unloads one and loads it, if it can.
ReloadPlugins ==
  /\ MayLoad
  /\ again' \in {Reverse(plugins)} \cup {<<p>> : p \in Range(plugins)}
  /\ UNCHANGED <<plugins, loads, mapped, registered, python, call, taken, spoiled, outcome>>

ReloadUnload ==
  /\ again # <<>> /\ Loaded(Head(again))
  /\ Unload(Head(again))
  /\ UNCHANGED <<call, again>>

ReloadLoad ==
  /\ again # <<>> /\ ~Loaded(Head(again))
  /\ \/ Load(Head(again))
     \/ UNCHANGED <<plugins, loads, mapped, registered, python, taken, spoiled>>
  /\ again' = Tail(again)
  /\ UNCHANGED <<call, outcome>>

ScriptRuns == call.owner = Python /\ again = <<>> /\ Loaded(Python)

\* py_RegisterCommand: a name that py_commands has is not registered again, and
\* the new entry gets no clist.
RegisterCommand(n) ==
  /\ ScriptRuns
  /\ IF scripts[n] = "none"
     THEN /\ commands' = RegisterCommandList({n}, Python)
          /\ scripts' = [scripts EXCEPT ![n] = "listed"]
          /\ UNCHANGED spoiled
     ELSE /\ scripts' = [scripts EXCEPT ![n] = "unset"]
          /\ spoiled' = spoiled \cup {Python}
          /\ UNCHANGED commands
  /\ taken' = taken \cup {n}
  /\ UNCHANGED <<plugins, loads, mapped, tables, drivers, hooked, handler, timers,
                 call, again, outcome>>

\* py_RegisterServerString: a new table takes the place of the one for the same
\* line.
RegisterServerString ==
  /\ ScriptRuns
  /\ LET free == {t \in 1..MaxLoads : <<Python, t>> \notin Tables \cup {call.table}}
     IN /\ free # {}
        /\ handler' = <<Python, Min(free)>>
        /\ tables' = RegisterStrings(UnregisterStrings(tables, {handler} \ {Sentinel}),
                                     Python, Min(free))
  /\ UNCHANGED <<plugins, loads, mapped, commands, drivers, hooked, scripts, timers,
                 call, again, taken, spoiled, outcome>>

\* py_TimedFunction and py_RegisterPoll.
SetTimer ==
  /\ ScriptRuns
  /\ timers = "none"
  /\ timers' = "set"
  /\ UNCHANGED <<plugins, loads, mapped, registered, scripts, handler,
                 call, again, taken, spoiled, outcome>>

Register ==
  (\E n \in Command : RegisterCommand(n)) \/ RegisterServerString \/ SetTimer

-----------------------------------------------------------------------------
(* Calls.                                                                  *)

\* The code of owner is called.
Call(owner, table) ==
  /\ outcome' = IF Mapped(owner) THEN outcome ELSE "code gone"
  /\ call' = [owner |-> owner, table |-> table]
  /\ UNCHANGED <<plugins, loads, mapped, registered, scripts, handler, again, taken, spoiled>>

\* run_py_command and run_py_server_string assert that they find the script's
\* function.
Known(owner, known) == owner = Python /\ Mapped(Python) => known

Unknown ==
  /\ outcome' = "not found"
  /\ UNCHANGED <<plugins, loads, mapped, registered, python, call, again, taken, spoiled>>

RunCommand(n) ==
  /\ call = Idle /\ commands[n] # Nobody
  /\ IF Known(commands[n], scripts[n] # "none" \/ n \in CommandList[Python])
     THEN Call(commands[n], Sentinel) /\ UNCHANGED timers
     ELSE Unknown

\* parse_server_string: a table that has the line, and, if its handler says so,
\* one behind it.
HandleLine(t) ==
  IF Known(Owner(t), handler # Sentinel)
  THEN Call(Owner(t), t) /\ UNCHANGED timers
  ELSE Unknown

ServerLine ==
  /\ call = Idle
  /\ \E t \in Tables : HandleLine(t)

HandlerPasses ==
  /\ call.table # Sentinel /\ again = <<>>
  /\ \E t \in Ahead(tables, call.table, Sentinel) : HandleLine(t)

\* run_loop_hooks, and completion.
RunHook ==
  /\ call = Idle /\ hooked > 0
  /\ Call(Python, Sentinel)
  /\ UNCHANGED timers

\* plugin_irc_hook, plugin_input_hook and plugin_ctcp_in_hook
RunPluginHook ==
  /\ call = Idle
  /\ \E p \in HasHook \cap Range(plugins) : Call(p, Sentinel)
  /\ UNCHANGED timers

\* py_timed_func or py_poll_callback, at the address it had before goodbye: the
\* plugin may have been mapped elsewhere since, and if it is the old place, the
\* function is one of an interpreter that has been finalized.
CallLeft ==
  /\ outcome' \in {"code gone"} \cup (IF Mapped(Python) THEN {"object gone"} ELSE {})
  /\ call' = [owner |-> Python, table |-> Sentinel]
  /\ UNCHANGED <<plugins, loads, mapped, registered, scripts, handler, again, taken, spoiled>>

\* run_timed_funcs and the second pass of poll_loop_func: what scripts asked for
\* is not deleted with the plugin.
RunTimer ==
  /\ call = Idle
  /\ \/ timers = "set" /\ Call(Python, Sentinel) /\ timers' \in {"set", "none"}
     \/ timers = "left" /\ CallLeft /\ UNCHANGED timers

Return ==
  /\ call # Idle /\ again = <<>>
  /\ call' = Idle
  /\ UNCHANGED <<plugins, loads, mapped, registered, python, again, taken, spoiled, outcome>>

Dispatch ==
  \/ \E n \in Command : RunCommand(n)
  \/ ServerLine \/ HandlerPasses \/ RunHook \/ RunPluginHook \/ RunTimer \/ Return

Init ==
  /\ plugins = <<>>
  /\ loads = [p \in Plugin |-> 0] /\ mapped = [p \in Plugin |-> 0]
  /\ commands = [n \in Command |-> IF n \in CommandList[Core] THEN Core ELSE Nobody]
  /\ tables = ListInsert(ListInit(Table \cup {Sentinel}), Sentinel, <<Core, 1>>)
  /\ drivers = ListInit(HasDriver \cup {Sentinel})
  /\ hooked = 0
  /\ scripts = [n \in Command |-> "none"] /\ handler = Sentinel /\ timers = "none"
  /\ call = Idle /\ again = <<>>
  /\ taken = {} /\ spoiled = {}
  /\ outcome = "running"

Next ==
  /\ outcome = "running"
  /\ LoadPlugin \/ UnloadPlugin \/ ReloadPlugins \/ ReloadUnload \/ ReloadLoad
     \/ Register \/ Dispatch

Spec == Init /\ [][Next]_vars

-----------------------------------------------------------------------------
(* Properties.                                                             *)

TypeOK ==
  /\ Range(plugins) \subseteq Plugin /\ IsInjective(plugins)
  /\ loads \in [Plugin -> 0..MaxLoads]
  /\ mapped \in [Plugin -> 0..MaxLoads]
  /\ commands \in [Command -> Plugin \cup {Core, Nobody}]
  /\ LET nodes == Table \cup {Sentinel}
     IN tables \in [next : [nodes -> nodes], prev : [nodes -> nodes]]
  /\ LET nodes == HasDriver \cup {Sentinel}
     IN drivers \in [next : [nodes -> nodes], prev : [nodes -> nodes]]
  /\ hooked \in 0..MaxLoads
  /\ scripts \in [Command -> {"none", "listed", "unset"}]
  /\ handler \in Table \cup {Sentinel}
  /\ timers \in {"none", "set", "left"}
  /\ call.owner \in Plugin \cup {Core, Nobody} /\ call.table \in Table \cup {Sentinel}
  /\ taken \subseteq Command /\ spoiled \subseteq Plugin

\* However plugins are loaded, loaded twice, reloaded and unloaded while commands
\* and handlers run, whatever can still be called is code that is there: by
\* command, by a line of the server, for output, as a hook.  Only a driver that is
\* put on the list twice can keep another one there, and what is left of a script
\* that registered its command again may not be.
Backed ==
  outcome = "running" =>
  /\ \A n \in Command : commands[n] \in Plugin /\ ~(commands[n] = Python /\ Python \in spoiled)
                          => Mapped(commands[n])
  /\ \A t \in Tables : Mapped(Owner(t))
  /\ HasDriver \cap spoiled = {} => \A d \in Drivers : Mapped(d)
  /\ hooked > 0 => Mapped(Python)

\* A plugin that neither failed nor was loaded twice has everything registered
\* once while it is loaded and nothing while it is not, and the program has its
\* own commands, but for the names that a script took: they are not given back.
\* So it is for all drivers if it is for every plugin with a driver: one that is
\* put on the list a second time hides or brings back others.
ExactlyWhileLoaded ==
  /\ \A p \in Plugin \ spoiled :
       /\ \A n \in CommandList[p] \ taken : (commands[n] = p) <=> Loaded(p)
       /\ p \in HasStrings => Cardinality(TablesOf(p)) = IF Loaded(p) THEN 1 ELSE 0
       /\ p = Python => hooked = IF Loaded(p) THEN 1 ELSE 0
       /\ ~Loaded(p) => TablesOf(p) = {} /\ \A n \in Command : commands[n] # p
  /\ \A n \in CommandList[Core] \ taken : commands[n] = Core
  /\ HasDriver \cap spoiled = {} => Drivers = HasDriver \cap Range(plugins)

\* There are three ways to call code that is gone.  A handler whose own table was
\* taken off the list while it ran, by a script that registered one for the same
\* line or by unloading a plugin, may pass the line on: the node still has its
\* pointer, and what that leads to may have left the list since.  A command that a
\* script registered again stays when the plugin for Python goes.  And so do the
\* scripts' timed functions and polls.
Excused ==
  \/ call.table \notin Tables \cup {Sentinel} /\ HandlerPasses
  \/ Python \in spoiled /\ \E n \in Command : commands[n] = Python /\ RunCommand(n)
  \/ timers = "left" /\ RunTimer

\* Everything else that is called is there: commands, handlers of lines, hooks and
\* timed functions, over loads, reloads and unloads under the running code.
CallsLand == [][outcome' = "code gone" => Excused]_vars
=============================================================================
