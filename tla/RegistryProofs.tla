--------------------------- MODULE RegistryProofs ---------------------------
(***************************************************************************)
(* The safety of Registry for any plugins, commands, tables and numbers of  *)
(* times that a plugin is opened.                                          *)
(*                                                                         *)
(* Backed is not inductive: that the code of a command is there follows     *)
(* from its plugin being loaded, or having a handle that nobody will close  *)
(* (Extra), and unloading a plugin takes off what is registered for it only *)
(* because nothing goes by a name that is not on its list (CommandsOK), no  *)
(* script has a table but the last (TablesOK) and the lists are in order    *)
(* (Ring).  A plugin that was loaded twice or failed has a handle open for  *)
(* good; one that did neither is mapped exactly while it is loaded.         *)
(***************************************************************************)
EXTENDS Registry, ListsProofs

TableNodes == Table \cup {Sentinel}

DriverNodes == HasDriver \cup {Sentinel}

\* A handle of p is open that unload_plugin will never close.
Extra(p) == mapped[p] > IF Loaded(p) THEN 1 ELSE 0

\* The code of p stays until it is unloaded, at least.
Stays(p) == Loaded(p) \/ Extra(p)

TypesOK ==
  /\ plugins \in Seq(Plugin) /\ IsInjective(plugins)
  /\ loads \in [Plugin -> Nat] /\ mapped \in [Plugin -> Nat]
  /\ commands \in [Command -> Plugin \cup {Core, Nobody}]
  /\ drivers \in Pointers(DriverNodes)
  /\ again \in Seq(Plugin)
  /\ taken \subseteq Command /\ spoiled \subseteq Plugin

ScriptsOK ==
  /\ scripts \in [Command -> {"none", "listed", "unset"}]
  /\ handler \in {Sentinel} \cup ({Python} \X (1..MaxLoads))
  /\ timers \in {"none", "set", "left"}

CallOK ==
  call \in [owner : Plugin \cup {Core, Nobody}, table : TableNodes]

HandlesOK == \A p \in Plugin :
  /\ mapped[p] <= loads[p] /\ loads[p] <= MaxLoads
  /\ Loaded(p) => mapped[p] >= 1
  /\ p \notin spoiled => ~Extra(p)
  /\ p \in spoiled /\ p # Python => Extra(p)

CommandsOK ==
  /\ \A n \in Command : scripts[n] # "none" => n \in taken
  /\ \A n \in Command, p \in Plugin \ {Python} :
       commands[n] = p => n \in CommandList[p] /\ Stays(p)
  /\ \A n \in Command : commands[n] = Python =>
       \/ Python \in spoiled
       \/ Loaded(Python) /\ (n \in CommandList[Python] \/ scripts[n] = "listed")
  /\ \A p \in Plugin \ spoiled : Loaded(p) =>
       \A n \in CommandList[p] \ taken : commands[n] = p
  /\ \A n \in CommandList[Core] \ taken : commands[n] = Core

TablesOK ==
  /\ Ring(tables, TableNodes, Sentinel, Tables)
  /\ \A t \in Tables : Owner(t) \in HasStrings =>
       t[2] <= loads[Owner(t)] /\ Stays(Owner(t))
  /\ \A t \in Tables : Owner(t) = Python =>
       Extra(Python) \/ (Loaded(Python) /\ handler = t)
  /\ \A p \in HasStrings \ spoiled : Loaded(p) => \E t : TablesOf(p) = {t}

DriversOK ==
  HasDriver \cap spoiled = {} =>
    Ring(drivers, DriverNodes, Sentinel, HasDriver \cap Range(plugins))

HookOK ==
  /\ hooked \in Nat /\ hooked <= loads[Python]
  /\ hooked > 0 => Stays(Python)
  /\ Python \notin spoiled => hooked = IF Loaded(Python) THEN 1 ELSE 0

TimersOK == timers = "set" => Stays(Python)

IInv ==
  /\ TypesOK /\ ScriptsOK /\ CallOK
  /\ HandlesOK /\ CommandsOK /\ TablesOK /\ DriversOK /\ HookOK /\ TimersOK

-----------------------------------------------------------------------------
(* Constants, and lists of plugins.                                        *)

\* Names and owners.
LEMMA ConstantFacts ==
  /\ Python \in Plugin /\ Python \notin HasStrings /\ Python \notin HasDriver
  /\ HasStrings \subseteq Plugin /\ HasDriver \subseteq Plugin
  /\ Core \notin Plugin /\ Nobody \notin Plugin \cup {Core}
  /\ \A p \in Plugin \cup {Core} : CommandList[p] \subseteq Command
  /\ \A p, q \in Plugin \cup {Core} : p # q => CommandList[p] \cap CommandList[q] = {}
  /\ MaxLoads \in Nat \ {0}
  /\ Sentinel \notin Table /\ Sentinel \notin HasDriver
  BY RegistryOK, SentinelOK

\* Tables and their owners.
LEMMA TableFacts ==
  /\ \A t \in Table : Owner(t) \in HasStrings \cup {Python, Core}
  /\ \A p \in HasStrings \cup {Python}, t \in 1..MaxLoads :
       <<p, t>> \in Table /\ Owner(<<p, t>>) = p
  /\ <<Core, 1>> \in Table /\ Owner(<<Core, 1>>) = Core
  /\ Sentinel \in TableNodes /\ IsFiniteSet(TableNodes)
<1> DEFINE A == HasStrings \cup {Python}
           B == 1..MaxLoads
<1>1. IsFiniteSet(A)
  <2>1. A \subseteq Plugin
    BY ConstantFacts
  <2>2. IsFiniteSet(Plugin)
    BY RegistryOK
  <2>3. QED BY <2>1, <2>2, FS_Subset
<1>2. IsFiniteSet(B)
  BY ConstantFacts, FS_Interval
<1>3. IsFiniteSet(A \X B)
  BY <1>1, <1>2, FS_Product
<1>4. IsFiniteSet((A \X B) \cup {<<Core, 1>>})
  BY <1>3, FS_AddElement
<1>5. IsFiniteSet(TableNodes)
  BY <1>4, FS_AddElement DEF TableNodes, Table
<1>6. QED BY <1>5 DEF Table, TableNodes, Owner

\* Tables is what a loop over the list would come by.
LEMMA TablesAre ==
  ASSUME NEW l, NEW R, Ring(l, TableNodes, Sentinel, R)
  PROVE  Ahead(l, Sentinel, Sentinel) = R /\ R \subseteq Table
<1>1. Ahead(l, Sentinel, Sentinel) = R
  BY TableFacts, RingAhead
<1>2. R \subseteq TableNodes \ {Sentinel}
  BY RingType
<1>3. QED BY <1>1, <1>2 DEF TableNodes

\* The same for drivers.
LEMMA DriversAre ==
  ASSUME NEW l, NEW R, Ring(l, DriverNodes, Sentinel, R)
  PROVE  Ahead(l, Sentinel, Sentinel) = R
<1>1. IsFiniteSet(DriverNodes)
  <2>1. IsFiniteSet(HasDriver)
    <3>1. IsFiniteSet(Plugin) /\ HasDriver \in SUBSET Plugin
      BY RegistryOK
    <3>2. QED BY <3>1, FS_Subset
  <2>2. QED BY <2>1, FS_AddElement DEF DriverNodes
<1>2. QED BY <1>1, RingAhead

-----------------------------------------------------------------------------
(* Loading.                                                                *)

\* The handles when a plugin is loaded.
LEMMA LoadHandles ==
  ASSUME TypesOK, HandlesOK, NEW p \in Plugin, Load(p)
  PROVE  /\ plugins' \in Seq(Plugin) /\ IsInjective(plugins')
         /\ loads' \in [Plugin -> Nat] /\ mapped' \in [Plugin -> Nat]
         /\ spoiled \subseteq spoiled' /\ spoiled' \subseteq spoiled \cup {p}
         /\ loads'[p] = loads[p] + 1 /\ loads'[p] \in 1..MaxLoads
         /\ \A q \in Plugin \ {p} : /\ loads'[q] = loads[q]
                                    /\ Loaded(q)' <=> Loaded(q)
                                    /\ Extra(q)' <=> Extra(q)
                                    /\ Stays(q)' <=> Stays(q)
         /\ Stays(p)' /\ (Stays(p) => Extra(p)')
         /\ p \notin spoiled' => /\ Loaded(p)' /\ ~Stays(p) /\ p \notin spoiled
                                 /\ Range(plugins') = Range(plugins) \cup {p}
         /\ HandlesOK'
<1>1. /\ loads[p] < MaxLoads
      /\ loads' = [loads EXCEPT ![p] = @ + 1] /\ mapped' = [mapped EXCEPT ![p] = @ + 1]
      /\ \/ /\ plugins' = RegisterPlugin(p)
            /\ spoiled' = IF Loaded(p) THEN spoiled \cup {p} ELSE spoiled
         \/ /\ plugins' = Unlink(plugins, p)
            /\ spoiled' = spoiled \cup {p}
  BY DEF Load
<1>2. /\ plugins \in Seq(Plugin) /\ IsInjective(plugins)
      /\ loads \in [Plugin -> Nat] /\ mapped \in [Plugin -> Nat] /\ spoiled \subseteq Plugin
      /\ MaxLoads \in Nat
  BY ConstantFacts DEF TypesOK
<1>3. /\ loads' \in [Plugin -> Nat] /\ mapped' \in [Plugin -> Nat]
      /\ loads'[p] = loads[p] + 1 /\ mapped'[p] = mapped[p] + 1
      /\ loads'[p] \in 1..MaxLoads
      /\ \A q \in Plugin \ {p} : loads'[q] = loads[q] /\ mapped'[q] = mapped[q]
  BY <1>1, <1>2
<1>4. /\ plugins' \in Seq(Plugin) /\ IsInjective(plugins')
      /\ \/ /\ Range(plugins') = Range(plugins) \cup {p}
            /\ spoiled' = IF Loaded(p) THEN spoiled \cup {p} ELSE spoiled
         \/ /\ Range(plugins') = Range(plugins) \ {p}
            /\ spoiled' = spoiled \cup {p}
  <2>1. CASE plugins' = Unlink(plugins, p) /\ spoiled' = spoiled \cup {p}
    BY <1>2, <2>1, UnlinkFacts
  <2>2. CASE /\ plugins' = RegisterPlugin(p)
             /\ spoiled' = IF Loaded(p) THEN spoiled \cup {p} ELSE spoiled
    <3>1. CASE Loaded(p)
      BY <1>2, <2>2, <3>1 DEF RegisterPlugin, Loaded
    <3>2. CASE ~Loaded(p)
      <4>1. plugins' = Append(plugins, p) /\ p \notin Range(plugins)
        BY <2>2, <3>2 DEF RegisterPlugin, Loaded
      <4>2. /\ plugins' \in Seq(Plugin) /\ IsInjective(plugins')
            /\ Range(plugins') = Range(plugins) \cup {p}
        BY <1>2, <4>1, AppendFacts
      <4>3. QED BY <2>2, <4>2
    <3>3. QED BY <3>1, <3>2
  <2>3. QED BY <1>1, <2>1, <2>2
<1>5. \A q \in Plugin \ {p} : /\ Loaded(q)' <=> Loaded(q)
                              /\ Extra(q)' <=> Extra(q)
                              /\ Stays(q)' <=> Stays(q)
  BY <1>3, <1>4 DEF Loaded, Extra, Stays
<1>6. /\ mapped[p] \in Nat /\ loads[p] \in Nat
      /\ mapped[p] <= loads[p] /\ (Loaded(p) => mapped[p] >= 1)
      /\ p \notin spoiled => ~Extra(p)
      /\ p \in spoiled /\ p # Python => Extra(p)
  BY <1>2 DEF HandlesOK
<1>7. CASE /\ Range(plugins') = Range(plugins) \cup {p}
           /\ spoiled' = IF Loaded(p) THEN spoiled \cup {p} ELSE spoiled
  <2>1. Loaded(p)' /\ Stays(p)'
    BY <1>7 DEF Loaded, Stays
  <2>2. Extra(p)' <=> mapped[p] > 0
    BY <1>3, <1>6, <2>1 DEF Extra
  <2>3. Stays(p) <=> mapped[p] > 0
    BY <1>6 DEF Stays, Extra
  <2>4. p \notin spoiled' => ~Loaded(p) /\ ~Stays(p) /\ p \notin spoiled
    BY <1>6, <1>7 DEF Stays
  <2>5. p \in spoiled' /\ p # Python => Extra(p)'
    BY <1>6, <1>7, <2>2, <2>3 DEF Stays
  <2>6. HandlesOK'
    <3> SUFFICES ASSUME NEW q \in Plugin
                 PROVE  /\ mapped'[q] <= loads'[q] /\ loads'[q] <= MaxLoads
                        /\ Loaded(q)' => mapped'[q] >= 1
                        /\ q \notin spoiled' => ~Extra(q)'
                        /\ q \in spoiled' /\ q # Python => Extra(q)'
      BY DEF HandlesOK
    <3>1. CASE q = p
      BY <1>3, <1>6, <2>2, <2>3, <2>4, <2>5, <3>1
    <3>2. CASE q # p
      <4>1. q \in spoiled' <=> q \in spoiled
        BY <1>7, <3>2
      <4>2. QED BY <1>3, <1>5, <3>2, <4>1 DEF HandlesOK
    <3>3. QED BY <3>1, <3>2
  <2>7. QED BY <1>3, <1>4, <1>5, <1>7, <2>1, <2>2, <2>3, <2>4, <2>6
<1>8. CASE Range(plugins') = Range(plugins) \ {p} /\ spoiled' = spoiled \cup {p}
  <2>1. ~Loaded(p)' /\ Extra(p)' /\ Stays(p)'
    BY <1>3, <1>6, <1>8 DEF Loaded, Extra, Stays
  <2>2. HandlesOK'
    <3> SUFFICES ASSUME NEW q \in Plugin
                 PROVE  /\ mapped'[q] <= loads'[q] /\ loads'[q] <= MaxLoads
                        /\ Loaded(q)' => mapped'[q] >= 1
                        /\ q \notin spoiled' => ~Extra(q)'
                        /\ q \in spoiled' /\ q # Python => Extra(q)'
      BY DEF HandlesOK
    <3>1. CASE q = p
      BY <1>3, <1>6, <1>8, <2>1, <3>1
    <3>2. CASE q # p
      <4>1. q \in spoiled' <=> q \in spoiled
        BY <1>8, <3>2
      <4>2. QED BY <1>3, <1>5, <3>2, <4>1 DEF HandlesOK
    <3>3. QED BY <3>1, <3>2
  <2>3. QED BY <1>3, <1>4, <1>5, <1>8, <2>1, <2>2
<1>9. QED BY <1>4, <1>7, <1>8

\* The commands when a plugin is loaded.
LEMMA LoadCommands ==
  ASSUME IInv, NEW p \in Plugin, Load(p)
  PROVE  /\ commands' \in [Command -> Plugin \cup {Core, Nobody}]
         /\ ScriptsOK' /\ CommandsOK'
<1>1. /\ commands' = RegisterCommandList(CommandList[p], p)
      /\ IF p = Python
         THEN scripts' = [n \in Command |-> "none"] /\ handler' = Sentinel
         ELSE UNCHANGED <<scripts, handler>>
      /\ UNCHANGED <<timers, taken>>
  BY DEF Load, InitPlugin
<1>2. /\ commands \in [Command -> Plugin \cup {Core, Nobody}] /\ ScriptsOK
      /\ CommandsOK /\ TypesOK /\ HandlesOK
  BY DEF IInv, TypesOK
<1>3. /\ spoiled \subseteq spoiled'
      /\ \A q \in Plugin \ {p} : (Loaded(q)' <=> Loaded(q)) /\ (Stays(q)' <=> Stays(q))
      /\ Stays(p)'
      /\ p \notin spoiled' => Loaded(p)' /\ ~Stays(p) /\ p \notin spoiled
      /\ spoiled' \subseteq spoiled \cup {p}
  BY <1>2, LoadHandles
<1>4. /\ commands' \in [Command -> Plugin \cup {Core, Nobody}]
      /\ \A n \in Command :
           commands'[n] = IF n \in CommandList[p] THEN p ELSE commands[n]
  BY <1>1, <1>2 DEF RegisterCommandList
<1>5. ScriptsOK'
  BY <1>1, <1>2 DEF ScriptsOK, TableNodes
<1>6. \A n \in Command : scripts'[n] # "none" => n \in taken'
  BY <1>1, <1>2 DEF CommandsOK
<1>7. ASSUME NEW n \in Command, NEW q \in Plugin \ {Python}, commands'[n] = q
      PROVE  n \in CommandList[q] /\ Stays(q)'
  <2>1. CASE n \in CommandList[p]
    BY <1>3, <1>4, <1>7, <2>1
  <2>2. CASE n \notin CommandList[p]
    <3>1. commands[n] = q
      BY <1>4, <1>7, <2>2
    <3>2. n \in CommandList[q] /\ Stays(q)
      BY <1>2, <3>1 DEF CommandsOK
    <3>3. QED BY <1>3, <3>2
  <2>3. QED BY <2>1, <2>2
<1>8. ASSUME NEW n \in Command, commands'[n] = Python, Python \notin spoiled'
      PROVE  Loaded(Python)' /\ (n \in CommandList[Python] \/ scripts'[n] = "listed")
  <2>1. Python \notin spoiled
    BY <1>3, <1>8
  <2>2. commands[n] = Python =>
          Loaded(Python) /\ (n \in CommandList[Python] \/ scripts[n] = "listed")
    BY <1>2, <2>1 DEF CommandsOK
  <2>3. CASE p = Python
    <3>1. Loaded(Python)' /\ ~Loaded(Python)
      BY <1>3, <1>8, <2>3 DEF Stays
    <3>2. QED BY <1>4, <1>8, <2>2, <2>3, <3>1
  <2>4. CASE p # Python
    <3>1. commands[n] = Python
      BY <1>4, <1>8, <2>4
    <3>2. scripts' = scripts /\ (Loaded(Python)' <=> Loaded(Python))
      BY <1>1, <1>3, <2>4, ConstantFacts
    <3>3. QED BY <2>2, <3>1, <3>2
  <2>5. QED BY <2>3, <2>4
<1>9. ASSUME NEW q \in Plugin \ spoiled', Loaded(q)', NEW n \in CommandList[q] \ taken'
      PROVE  commands'[n] = q
  <2>1. n \in Command
    BY ConstantFacts
  <2>2. CASE q = p
    BY <1>4, <2>1, <2>2
  <2>3. CASE q # p
    <3>1. n \notin CommandList[p]
      BY <2>3, ConstantFacts
    <3>2. commands[n] = q
      BY <1>1, <1>2, <1>3, <1>9, <2>3 DEF CommandsOK
    <3>3. QED BY <1>4, <2>1, <3>1, <3>2
  <2>4. QED BY <2>2, <2>3
<1>10. ASSUME NEW n \in CommandList[Core] \ taken' PROVE commands'[n] = Core
  <2>1. n \in Command /\ n \notin CommandList[p] /\ commands[n] = Core
    BY <1>1, <1>2, ConstantFacts DEF CommandsOK
  <2>2. QED BY <1>4, <2>1
<1>11. CommandsOK'
  BY <1>6, <1>7, <1>8, <1>9, <1>10 DEF CommandsOK
<1>12. QED BY <1>4, <1>5, <1>11

\* The tables when a plugin is loaded.
LEMMA LoadTables ==
  ASSUME IInv, NEW p \in Plugin, Load(p)
  PROVE  TablesOK'
<1>1. /\ tables' = IF p \in HasStrings THEN RegisterStrings(tables, p, loads'[p]) ELSE tables
      /\ p # Python => handler' = handler
  BY DEF Load, InitPlugin
<1>2. /\ TypesOK /\ HandlesOK /\ TablesOK
      /\ Ring(tables, TableNodes, Sentinel, Tables)
  BY DEF IInv, TablesOK
<1>3. /\ spoiled \subseteq spoiled'
      /\ loads'[p] = loads[p] + 1 /\ loads'[p] \in 1..MaxLoads /\ loads[p] \in Nat
      /\ \A q \in Plugin \ {p} :
           /\ loads'[q] = loads[q]
           /\ (Loaded(q)' <=> Loaded(q)) /\ (Stays(q)' <=> Stays(q)) /\ (Extra(q)' <=> Extra(q))
      /\ Stays(p)' /\ (Stays(p) => Extra(p)')
      /\ p \notin spoiled' => Loaded(p)' /\ ~Stays(p) /\ p \notin spoiled
  BY <1>2, LoadHandles DEF TypesOK
<1> DEFINE new == <<p, loads'[p]>>
<1>4. /\ Tables \subseteq Table /\ Ring(tables', TableNodes, Sentinel, Tables')
      /\ Tables' = IF p \in HasStrings THEN Tables \cup {new} ELSE Tables
      /\ p \in HasStrings => new \in Table /\ Owner(new) = p /\ new[2] = loads'[p]
  <2>1. Tables \subseteq Table
    BY <1>2, TablesAre
  <2>2. CASE p \in HasStrings
    <3>1. new \in Table /\ Owner(new) = p /\ new[2] = loads'[p]
      BY <1>3, <2>2, TableFacts
    <3>2. new \notin Tables
      <4>1. ASSUME new \in Tables PROVE new[2] <= loads[p]
        BY <1>2, <2>2, <3>1, <4>1 DEF TablesOK
      <4>2. QED BY <1>3, <3>1, <4>1
    <3>3. new \in TableNodes /\ new # Sentinel
      BY <3>1, ConstantFacts DEF TableNodes
    <3>4. tables' = ListInsert(tables, Sentinel, new)
      BY <1>1, <2>2 DEF RegisterStrings
    <3> HIDE DEF new
    <3>5. Ring(tables', TableNodes, Sentinel, Tables \cup {new})
      BY <1>2, <3>2, <3>3, <3>4, RingInsert
    <3>6. Tables' = Tables \cup {new}
      BY <3>5, TablesAre DEF Tables
    <3>7. QED BY <2>1, <2>2, <3>1, <3>5, <3>6 DEF new
  <2>3. CASE p \notin HasStrings
    <3>1. tables' = tables /\ Tables' = Tables
      BY <1>1, <2>3 DEF Tables
    <3>2. QED BY <1>2, <2>1, <2>3, <3>1
  <2>4. QED BY <2>2, <2>3
<1> HIDE DEF new
<1>5. ASSUME NEW t \in Tables', Owner(t) \in HasStrings
      PROVE  t[2] <= loads'[Owner(t)] /\ Stays(Owner(t))'
  <2>1. CASE t = new /\ p \in HasStrings
    <3>1. Owner(t) = p /\ t[2] = loads'[p]
      BY <1>4, <2>1
    <3>2. QED BY <1>3, <3>1
  <2>2. CASE t \in Tables
    <3>1. t[2] <= loads[Owner(t)] /\ Stays(Owner(t))
      BY <1>2, <1>5, <2>2 DEF TablesOK
    <3>2. Owner(t) \in Plugin
      BY <1>5, ConstantFacts
    <3>3. CASE Owner(t) = p
      <4>1. t \in Table
        BY <1>4, <2>2
      <4>2. t[2] \in Nat
        BY <4>1, ConstantFacts DEF Table
      <4>3. QED BY <1>3, <3>1, <3>3, <4>2
    <3>4. CASE Owner(t) # p
      BY <1>3, <3>1, <3>2, <3>4
    <3>5. QED BY <3>3, <3>4
  <2>3. QED BY <1>4, <1>5, <2>1, <2>2
<1>6. ASSUME NEW t \in Tables', Owner(t) = Python
      PROVE  Extra(Python)' \/ (Loaded(Python)' /\ handler' = t)
  <2>1. t \in Tables
    BY <1>4, <1>6, ConstantFacts
  <2>2. Extra(Python) \/ (Loaded(Python) /\ handler = t)
    BY <1>2, <1>6, <2>1 DEF TablesOK
  <2>3. CASE p = Python
    BY <1>3, <2>2, <2>3 DEF Stays
  <2>4. CASE p # Python
    BY <1>1, <1>3, <2>2, <2>4, ConstantFacts
  <2>5. QED BY <2>3, <2>4
<1>7. ASSUME NEW q \in HasStrings \ spoiled', Loaded(q)' PROVE \E t : TablesOf(q)' = {t}
  <2>1. TablesOf(q)' = {t \in Tables' : Owner(t) = q}
    BY DEF TablesOf
  <2>2. CASE q = p
    <3>1. \A t \in Tables : Owner(t) # p
      BY <1>2, <1>3, <1>7, <2>2 DEF TablesOK
    <3>2. TablesOf(q)' = {new}
      BY <1>4, <1>7, <2>1, <2>2, <3>1
    <3>3. QED BY <3>2
  <2>3. CASE q # p
    <3>1. {t \in Tables' : Owner(t) = q} = {t \in Tables : Owner(t) = q}
      BY <1>4, <2>3
    <3>2. TablesOf(q)' = TablesOf(q)
      BY <2>1, <3>1 DEF TablesOf
    <3>3. q \in Plugin /\ q \notin spoiled /\ Loaded(q)
      BY <1>3, <1>7, <2>3, ConstantFacts
    <3>4. QED BY <1>2, <1>7, <3>2, <3>3 DEF TablesOK
  <2>4. QED BY <2>2, <2>3
<1>8. QED BY <1>4, <1>5, <1>6, <1>7 DEF TablesOK

\* The drivers when a plugin is loaded.
LEMMA LoadDrivers ==
  ASSUME IInv, NEW p \in Plugin, Load(p)
  PROVE  drivers' \in Pointers(DriverNodes) /\ DriversOK'
<1>1. drivers' = IF p \in HasDriver THEN ListInsert(drivers, Sentinel, p) ELSE drivers
  BY DEF Load, InitPlugin, WithDriver
<1>2. TypesOK /\ HandlesOK /\ DriversOK /\ drivers \in Pointers(DriverNodes)
  BY DEF IInv, TypesOK
<1>3. /\ spoiled \subseteq spoiled'
      /\ \A q \in Plugin \ {p} : Loaded(q)' <=> Loaded(q)
      /\ p \notin spoiled' => /\ Loaded(p)' /\ ~Loaded(p) /\ p \notin spoiled
                              /\ Range(plugins') = Range(plugins) \cup {p}
  BY <1>2, LoadHandles DEF Stays
<1>4. drivers' \in Pointers(DriverNodes)
  <2>1. CASE p \in HasDriver
    <3>1. p \in DriverNodes /\ Sentinel \in DriverNodes
      BY <2>1 DEF DriverNodes
    <3>2. QED BY <1>1, <1>2, <2>1, <3>1, InsertPointers
  <2>2. CASE p \notin HasDriver
    BY <1>1, <1>2, <2>2
  <2>3. QED BY <2>1, <2>2
<1>5. ASSUME HasDriver \cap spoiled' = {}
      PROVE  Ring(drivers', DriverNodes, Sentinel, HasDriver \cap Range(plugins'))
  <2> DEFINE R == HasDriver \cap Range(plugins)
  <2>1. Ring(drivers, DriverNodes, Sentinel, R)
    BY <1>2, <1>3, <1>5 DEF DriversOK
  <2>2. CASE p \in HasDriver
    <3>1. p \notin R /\ HasDriver \cap Range(plugins') = R \cup {p}
      BY <1>3, <1>5, <2>2 DEF Loaded
    <3>2. p \in DriverNodes /\ p # Sentinel
      BY <2>2, ConstantFacts DEF DriverNodes
    <3> HIDE DEF R
    <3>3. Ring(ListInsert(drivers, Sentinel, p), DriverNodes, Sentinel, R \cup {p})
      BY <2>1, <3>1, <3>2, RingInsert
    <3>4. QED BY <1>1, <2>2, <3>1, <3>3
  <2>3. CASE p \notin HasDriver
    <3>1. \A q \in HasDriver : q \in Range(plugins') <=> q \in Range(plugins)
      BY <1>3, <2>3, ConstantFacts DEF Loaded
    <3>2. HasDriver \cap Range(plugins') = R
      BY <3>1
    <3>3. QED BY <1>1, <2>1, <2>3, <3>2
  <2>4. QED BY <2>2, <2>3
<1>6. QED BY <1>4, <1>5 DEF DriversOK

\* Python's hooks when a plugin is loaded.
LEMMA LoadHooks ==
  ASSUME IInv, NEW p \in Plugin, Load(p)
  PROVE  HookOK'
<1>1. hooked' = IF p = Python THEN hooked + 1 ELSE hooked
  BY DEF Load, InitPlugin, AddHook
<1>2. TypesOK /\ HandlesOK /\ HookOK
  BY DEF IInv
<1>3. /\ hooked \in Nat /\ hooked <= loads[Python] /\ (hooked > 0 => Stays(Python))
      /\ Python \notin spoiled => hooked = IF Loaded(Python) THEN 1 ELSE 0
      /\ loads[Python] \in Nat
  BY <1>2, ConstantFacts DEF HookOK, TypesOK
<1>4. /\ spoiled \subseteq spoiled' /\ loads'[p] = loads[p] + 1
      /\ \A q \in Plugin \ {p} : /\ loads'[q] = loads[q]
                                 /\ Loaded(q)' <=> Loaded(q)
                                 /\ Stays(q)' <=> Stays(q)
      /\ Stays(p)'
      /\ p \notin spoiled' => Loaded(p)' /\ ~Loaded(p) /\ p \notin spoiled
  BY <1>2, LoadHandles DEF Stays
<1>5. CASE p = Python
  BY <1>1, <1>3, <1>4, <1>5 DEF HookOK
<1>6. CASE p # Python
  <2>1. /\ loads'[Python] = loads[Python] /\ hooked' = hooked
        /\ (Loaded(Python)' <=> Loaded(Python)) /\ (Stays(Python)' <=> Stays(Python))
        /\ Python \notin spoiled' => Python \notin spoiled
    BY <1>1, <1>4, <1>6, ConstantFacts
  <2>2. QED BY <1>3, <2>1 DEF HookOK
<1>7. QED BY <1>5, <1>6

\* Loading a plugin, once, again, or in vain.
LEMMA LoadKeeps ==
  ASSUME IInv, NEW p \in Plugin, Load(p), UNCHANGED call, again' \in Seq(Plugin)
  PROVE  IInv'
<1>1. TypesOK /\ HandlesOK /\ CallOK
  BY DEF IInv
<1>2. /\ plugins' \in Seq(Plugin) /\ IsInjective(plugins')
      /\ loads' \in [Plugin -> Nat] /\ mapped' \in [Plugin -> Nat]
      /\ spoiled' \subseteq spoiled \cup {p}
      /\ HandlesOK'
  BY <1>1, LoadHandles
<1>3. taken' = taken
  BY DEF Load
<1>4. commands' \in [Command -> Plugin \cup {Core, Nobody}] /\ ScriptsOK' /\ CommandsOK'
  BY LoadCommands
<1>5. drivers' \in Pointers(DriverNodes) /\ DriversOK'
  BY LoadDrivers
<1>6. TypesOK'
  BY <1>1, <1>2, <1>3, <1>4, <1>5 DEF TypesOK
<1>7. CallOK'
  BY <1>1 DEF CallOK
<1>8. TimersOK'
  <2>1. timers' = timers /\ (timers = "set" => Stays(Python))
    BY DEF Load, IInv, TimersOK
  <2>2. Stays(Python) => Stays(Python)'
    BY <1>1, LoadHandles, ConstantFacts
  <2>3. QED BY <2>1, <2>2 DEF TimersOK
<1>9. QED BY <1>2, <1>4, <1>5, <1>6, <1>7, <1>8, LoadTables, LoadHooks DEF IInv

-----------------------------------------------------------------------------
(* Unloading.                                                              *)

\* The handles when a plugin is unloaded.
LEMMA UnloadHandles ==
  ASSUME TypesOK, HandlesOK, NEW p \in Range(plugins), Unload(p)
  PROVE  /\ p \in Plugin
         /\ plugins' \in Seq(Plugin) /\ IsInjective(plugins')
         /\ Range(plugins') = Range(plugins) \ {p}
         /\ loads' = loads /\ spoiled' = spoiled /\ taken' = taken
         /\ mapped' \in [Plugin -> Nat]
         /\ ~Loaded(p)'
         /\ \A q \in Plugin : Extra(q)' <=> Extra(q)
         /\ \A q \in Plugin \ {p} : /\ Loaded(q)' <=> Loaded(q)
                                    /\ Stays(q)' <=> Stays(q)
         /\ HandlesOK'
<1>1. /\ plugins' = Unlink(plugins, p) /\ mapped' = [mapped EXCEPT ![p] = @ - 1]
      /\ loads' = loads /\ spoiled' = spoiled /\ taken' = taken
  BY DEF Unload
<1>2. /\ plugins \in Seq(Plugin) /\ IsInjective(plugins)
      /\ loads \in [Plugin -> Nat] /\ mapped \in [Plugin -> Nat]
  BY DEF TypesOK
<1>3. p \in Plugin /\ Loaded(p)
  BY <1>2, RangeFacts DEF Loaded
<1>4. /\ plugins' \in Seq(Plugin) /\ IsInjective(plugins')
      /\ Range(plugins') = Range(plugins) \ {p}
  BY <1>1, <1>2, UnlinkFacts
<1>5. mapped[p] \in Nat /\ mapped[p] >= 1 /\ mapped[p] <= loads[p] /\ loads[p] \in Nat
  BY <1>2, <1>3 DEF HandlesOK
<1>6. /\ mapped' \in [Plugin -> Nat] /\ mapped'[p] = mapped[p] - 1
      /\ \A q \in Plugin \ {p} : mapped'[q] = mapped[q]
  BY <1>1, <1>2, <1>3, <1>5
<1>7. ~Loaded(p)' /\ \A q \in Plugin \ {p} : Loaded(q)' <=> Loaded(q)
  BY <1>4 DEF Loaded
<1>8. \A q \in Plugin \ {p} : Extra(q)' <=> Extra(q)
  BY <1>6, <1>7 DEF Extra
<1>9. Extra(p)' <=> Extra(p)
  <2>1. Extra(p)' <=> mapped[p] - 1 > 0
    BY <1>6, <1>7 DEF Extra
  <2>2. Extra(p) <=> mapped[p] > 1
    BY <1>3 DEF Extra
  <2>3. QED BY <1>5, <2>1, <2>2
<1>10. HandlesOK'
  <2> SUFFICES ASSUME NEW q \in Plugin
               PROVE  /\ mapped'[q] <= loads'[q] /\ loads'[q] <= MaxLoads
                      /\ Loaded(q)' => mapped'[q] >= 1
                      /\ q \notin spoiled' => ~Extra(q)'
                      /\ q \in spoiled' /\ q # Python => Extra(q)'
    BY DEF HandlesOK
  <2>1. loads[q] <= MaxLoads
    BY DEF HandlesOK
  <2>2. /\ q \notin spoiled => ~Extra(q)
        /\ q \in spoiled /\ q # Python => Extra(q)
    BY DEF HandlesOK
  <2>3. CASE q = p
    BY <1>1, <1>5, <1>6, <1>7, <1>9, <2>1, <2>2, <2>3
  <2>4. CASE q # p
    <3>1. mapped[q] <= loads[q] /\ (Loaded(q) => mapped[q] >= 1)
      BY DEF HandlesOK
    <3>2. QED BY <1>1, <1>6, <1>7, <1>8, <2>1, <2>2, <2>4, <3>1
  <2>5. QED BY <2>3, <2>4
<1>11. \A q \in Plugin \ {p} : Stays(q)' <=> Stays(q)
  BY <1>7, <1>8 DEF Stays
<1>12. QED BY <1>1, <1>3, <1>4, <1>6, <1>7, <1>8, <1>9, <1>10, <1>11

\* The commands when a plugin is unloaded.
LEMMA UnloadCommands ==
  ASSUME IInv, NEW p \in Range(plugins), Unload(p)
  PROVE  /\ commands' \in [Command -> Plugin \cup {Core, Nobody}]
         /\ ScriptsOK' /\ CommandsOK'
<1> DEFINE names == CommandList[p] \cup IF p = Python THEN Listed ELSE {}
<1>1. /\ commands' = UnregisterCommandList(names)
      /\ timers' = IF p = Python /\ timers = "set" THEN "left" ELSE timers
      /\ scripts' = scripts /\ handler' = handler
  BY DEF Unload, Unregister
<1>2. /\ commands \in [Command -> Plugin \cup {Core, Nobody}] /\ ScriptsOK
      /\ CommandsOK /\ TypesOK /\ HandlesOK
  BY DEF IInv, TypesOK
<1>3. /\ p \in Plugin /\ spoiled' = spoiled /\ taken' = taken /\ ~Loaded(p)'
      /\ \A q \in Plugin \ {p} : (Loaded(q)' <=> Loaded(q)) /\ (Stays(q)' <=> Stays(q))
  BY <1>2, UnloadHandles
<1>4. /\ commands' \in [Command -> Plugin \cup {Core, Nobody}]
      /\ \A n \in Command : commands'[n] = IF n \in names THEN Nobody ELSE commands[n]
  BY <1>1, <1>2 DEF UnregisterCommandList
<1>5. Listed \subseteq taken /\ \A n \in Command : n \in Listed <=> scripts[n] = "listed"
  BY <1>2 DEF CommandsOK, Listed
<1>6. ScriptsOK'
  BY <1>1, <1>2 DEF ScriptsOK
<1>7. CommandList[p] \subseteq names /\ (p = Python => Listed \subseteq names)
  OBVIOUS
<1>8. \A q \in Plugin \cup {Core} : q # p =>
        (CommandList[q] \ taken) \cap names = {}
  BY <1>3, <1>5, ConstantFacts
<1> HIDE DEF names
<1>9. \A n \in Command : scripts'[n] # "none" => n \in taken'
  BY <1>1, <1>2, <1>3 DEF CommandsOK
<1>10. \A n \in Command : commands'[n] \in Plugin => n \notin names /\ commands'[n] = commands[n]
  BY <1>4, ConstantFacts
<1>11. ASSUME NEW n \in Command, NEW q \in Plugin \ {Python}, commands'[n] = q
       PROVE  n \in CommandList[q] /\ Stays(q)'
  <2>1. commands[n] = q /\ n \notin names
    BY <1>10, <1>11
  <2>2. n \in CommandList[q] /\ Stays(q)
    BY <1>2, <2>1 DEF CommandsOK
  <2>3. QED BY <1>3, <1>7, <2>1, <2>2
<1>12. ASSUME NEW n \in Command, commands'[n] = Python, Python \notin spoiled'
       PROVE  Loaded(Python)' /\ (n \in CommandList[Python] \/ scripts'[n] = "listed")
  <2>1. commands[n] = Python /\ n \notin names
    BY <1>10, <1>12, ConstantFacts
  <2>2. Loaded(Python) /\ (n \in CommandList[Python] \/ scripts[n] = "listed")
    BY <1>2, <1>3, <1>12, <2>1 DEF CommandsOK
  <2>3. p # Python
    BY <1>5, <1>7, <2>1, <2>2
  <2>4. Loaded(Python)' <=> Loaded(Python)
    BY <1>3, <2>3, ConstantFacts
  <2>5. QED BY <1>1, <2>2, <2>4
<1>13. ASSUME NEW q \in Plugin \ spoiled', Loaded(q)', NEW n \in CommandList[q] \ taken'
       PROVE  commands'[n] = q
  <2>1. n \in Command /\ q # p /\ Loaded(q)
    BY <1>3, <1>13, ConstantFacts
  <2>2. commands[n] = q
    BY <1>2, <1>3, <2>1 DEF CommandsOK
  <2>3. n \notin names
    BY <1>3, <1>8, <2>1
  <2>4. QED BY <1>4, <2>1, <2>2, <2>3
<1>14. ASSUME NEW n \in CommandList[Core] \ taken' PROVE commands'[n] = Core
  <2>1. n \in Command /\ commands[n] = Core
    BY <1>2, <1>3, ConstantFacts DEF CommandsOK
  <2>2. n \notin names
    BY <1>3, <1>8, ConstantFacts
  <2>3. QED BY <1>4, <2>1, <2>2
<1>15. CommandsOK'
  BY <1>9, <1>11, <1>12, <1>13, <1>14 DEF CommandsOK
<1>16. QED BY <1>4, <1>6, <1>15

\* The tables when a plugin is unloaded.
LEMMA UnloadTables ==
  ASSUME IInv, NEW p \in Range(plugins), Unload(p)
  PROVE  TablesOK'
<1> DEFINE ts == IF p = Python THEN {handler} \ {Sentinel} ELSE TablesOf(p)
<1>1. tables' = ListWithout(tables, Sentinel, ts) /\ handler' = handler
  BY DEF Unload, Unregister, UnregisterStrings
<1>2. TypesOK /\ HandlesOK /\ ScriptsOK /\ TablesOK
  BY DEF IInv
<1>3. /\ p \in Plugin /\ loads' = loads /\ spoiled' = spoiled /\ ~Loaded(p)'
      /\ \A q \in Plugin : Extra(q)' <=> Extra(q)
      /\ \A q \in Plugin \ {p} : (Loaded(q)' <=> Loaded(q)) /\ (Stays(q)' <=> Stays(q))
  BY <1>2, UnloadHandles
<1>4. Ring(tables, TableNodes, Sentinel, Tables) /\ Tables \subseteq Table
  BY <1>2, TablesAre DEF TablesOK
<1>5. \A t \in ts : Owner(t) = p
  BY <1>2 DEF ScriptsOK, Owner, TablesOf
<1>6. p # Python => \A t \in Tables : Owner(t) = p => t \in ts
  BY DEF TablesOf
<1>7. p = Python => ts = {handler} \ {Sentinel}
  OBVIOUS
<1> HIDE DEF ts
<1>8. Ring(tables', TableNodes, Sentinel, Tables \ ts)
  BY <1>1, <1>4, TableFacts, RingWithout
<1>9. Tables' = Tables \ ts
  BY <1>8, TablesAre DEF Tables
<1>10. ASSUME NEW t \in Tables', Owner(t) \in HasStrings
       PROVE  t[2] <= loads'[Owner(t)] /\ Stays(Owner(t))'
  <2>1. t \in Tables /\ t \notin ts
    BY <1>9
  <2>2. t[2] <= loads[Owner(t)] /\ Stays(Owner(t))
    BY <1>2, <1>10, <2>1 DEF TablesOK
  <2>3. Owner(t) \in Plugin /\ Owner(t) # Python
    BY <1>10, ConstantFacts
  <2>4. Owner(t) # p
    BY <1>6, <2>1, <2>3
  <2>5. QED BY <1>3, <2>2, <2>3, <2>4
<1>11. ASSUME NEW t \in Tables', Owner(t) = Python
       PROVE  Extra(Python)' \/ (Loaded(Python)' /\ handler' = t)
  <2>1. t \in Tables /\ t \notin ts
    BY <1>9
  <2>2. Extra(Python) \/ (Loaded(Python) /\ handler = t)
    BY <1>2, <1>11, <2>1 DEF TablesOK
  <2>3. CASE p = Python
    <3>1. handler # t
      BY <1>4, <1>7, <2>1, <2>3, ConstantFacts
    <3>2. QED BY <1>3, <2>2, <3>1, ConstantFacts
  <2>4. CASE p # Python
    BY <1>1, <1>3, <2>2, <2>4, ConstantFacts
  <2>5. QED BY <2>3, <2>4
<1>12. ASSUME NEW q \in HasStrings \ spoiled', Loaded(q)' PROVE \E t : TablesOf(q)' = {t}
  <2>1. q \in Plugin /\ q # p /\ q \notin spoiled /\ Loaded(q)
    BY <1>3, <1>12, ConstantFacts
  <2>2. TablesOf(q)' = {t \in Tables' : Owner(t) = q}
    BY DEF TablesOf
  <2>3. {t \in Tables' : Owner(t) = q} = {t \in Tables : Owner(t) = q}
    BY <1>5, <1>9, <2>1
  <2>4. TablesOf(q)' = TablesOf(q)
    BY <2>2, <2>3 DEF TablesOf
  <2>5. QED BY <1>2, <1>12, <2>1, <2>4 DEF TablesOK
<1>13. QED BY <1>8, <1>9, <1>10, <1>11, <1>12 DEF TablesOK

\* The drivers when a plugin is unloaded.
LEMMA UnloadDrivers ==
  ASSUME IInv, NEW p \in Range(plugins), Unload(p)
  PROVE  drivers' \in Pointers(DriverNodes) /\ DriversOK'
<1>1. drivers' = IF p \in HasDriver THEN ListRemove(drivers, p) ELSE drivers
  BY DEF Unload, Unregister, WithoutDriver
<1>2. TypesOK /\ HandlesOK /\ DriversOK /\ drivers \in Pointers(DriverNodes)
  BY DEF IInv, TypesOK
<1>3. spoiled' = spoiled /\ Range(plugins') = Range(plugins) \ {p}
  BY <1>2, UnloadHandles
<1>4. drivers' \in Pointers(DriverNodes)
  <2>1. CASE p \in HasDriver
    <3>1. p \in DriverNodes
      BY <2>1 DEF DriverNodes
    <3>2. QED BY <1>1, <1>2, <2>1, <3>1, RemovePointers
  <2>2. CASE p \notin HasDriver
    BY <1>1, <1>2, <2>2
  <2>3. QED BY <2>1, <2>2
<1>5. ASSUME HasDriver \cap spoiled' = {}
      PROVE  Ring(drivers', DriverNodes, Sentinel, HasDriver \cap Range(plugins'))
  <2> DEFINE R == HasDriver \cap Range(plugins)
  <2>1. Ring(drivers, DriverNodes, Sentinel, R)
    BY <1>2, <1>3, <1>5 DEF DriversOK
  <2>2. HasDriver \cap Range(plugins') = R \ {p}
    BY <1>3
  <2>3. p \in HasDriver => p \in R
    OBVIOUS
  <2>4. p \notin HasDriver => R \ {p} = R
    OBVIOUS
  <2> HIDE DEF R
  <2>5. CASE p \in HasDriver
    <3>1. Ring(ListRemove(drivers, p), DriverNodes, Sentinel, R \ {p})
      BY <2>1, <2>3, <2>5, RingRemove
    <3>2. QED BY <1>1, <2>2, <2>5, <3>1
  <2>6. CASE p \notin HasDriver
    BY <1>1, <2>1, <2>2, <2>4, <2>6
  <2>7. QED BY <2>5, <2>6
<1>6. QED BY <1>4, <1>5 DEF DriversOK

\* Python's hooks when a plugin is unloaded.
LEMMA UnloadHooks ==
  ASSUME IInv, NEW p \in Range(plugins), Unload(p)
  PROVE  HookOK'
<1>1. hooked' = IF p = Python THEN 0 ELSE hooked
  BY DEF Unload, Unregister, RemoveHook
<1>2. TypesOK /\ HandlesOK /\ HookOK
  BY DEF IInv
<1>3. /\ hooked \in Nat /\ hooked <= loads[Python] /\ (hooked > 0 => Stays(Python))
      /\ Python \notin spoiled => hooked = IF Loaded(Python) THEN 1 ELSE 0
      /\ loads[Python] \in Nat
  BY <1>2, ConstantFacts DEF HookOK, TypesOK
<1>4. /\ spoiled' = spoiled /\ loads' = loads /\ ~Loaded(p)'
      /\ \A q \in Plugin \ {p} : (Loaded(q)' <=> Loaded(q)) /\ (Stays(q)' <=> Stays(q))
  BY <1>2, UnloadHandles
<1>5. CASE p = Python
  BY <1>1, <1>3, <1>4, <1>5 DEF HookOK
<1>6. CASE p # Python
  <2>1. /\ hooked' = hooked
        /\ (Loaded(Python)' <=> Loaded(Python)) /\ (Stays(Python)' <=> Stays(Python))
    BY <1>1, <1>4, <1>6, ConstantFacts
  <2>2. QED BY <1>3, <1>4, <2>1 DEF HookOK
<1>7. QED BY <1>5, <1>6

\* Unloading a plugin.
LEMMA UnloadKeeps ==
  ASSUME IInv, NEW p \in Range(plugins), Unload(p), UNCHANGED <<call, again>>
  PROVE  IInv'
<1>1. TypesOK /\ HandlesOK /\ CallOK
  BY DEF IInv
<1>2. /\ plugins' \in Seq(Plugin) /\ IsInjective(plugins')
      /\ loads' = loads /\ mapped' \in [Plugin -> Nat]
      /\ spoiled' = spoiled /\ taken' = taken
      /\ HandlesOK'
  BY <1>1, UnloadHandles
<1>3. commands' \in [Command -> Plugin \cup {Core, Nobody}] /\ ScriptsOK' /\ CommandsOK'
  BY UnloadCommands
<1>4. drivers' \in Pointers(DriverNodes) /\ DriversOK'
  BY UnloadDrivers
<1>5. TypesOK'
  BY <1>1, <1>2, <1>3, <1>4 DEF TypesOK
<1>6. CallOK'
  BY <1>1 DEF CallOK
<1>7. TimersOK'
  <2>1. timers' = IF p = Python /\ timers = "set" THEN "left" ELSE timers
    BY DEF Unload, Unregister
  <2>2. timers = "set" => Stays(Python)
    BY DEF IInv, TimersOK
  <2>3. p # Python => (Stays(Python)' <=> Stays(Python))
    BY <1>1, UnloadHandles, ConstantFacts
  <2>4. QED BY <2>1, <2>2, <2>3 DEF TimersOK
<1>8. QED BY <1>2, <1>3, <1>4, <1>5, <1>6, <1>7, UnloadTables, UnloadHooks DEF IInv

-----------------------------------------------------------------------------
(* Scripts.                                                                *)

\* What the plugins' lists and handles say of them.
LEMMA SamePlugins ==
  ASSUME plugins' = plugins, mapped' = mapped
  PROVE  \A p \in Plugin : /\ Loaded(p)' <=> Loaded(p)
                           /\ Extra(p)' <=> Extra(p)
                           /\ Stays(p)' <=> Stays(p)
  BY DEF Loaded, Extra, Stays

\* A step that leaves the lists alone, and may spoil Python.
LEMMA SameLists ==
  ASSUME IInv,
         UNCHANGED <<plugins, loads, mapped, tables, drivers, hooked, handler>>,
         spoiled' \in {spoiled, spoiled \cup {Python}}
  PROVE  HandlesOK' /\ TablesOK' /\ DriversOK' /\ HookOK'
<1>1. HandlesOK /\ TablesOK /\ DriversOK /\ HookOK
  BY DEF IInv
<1>2. \A p \in Plugin : /\ Loaded(p)' <=> Loaded(p)
                        /\ Extra(p)' <=> Extra(p)
                        /\ Stays(p)' <=> Stays(p)
  BY SamePlugins
<1>3. /\ plugins' = plugins /\ loads' = loads /\ mapped' = mapped /\ tables' = tables
      /\ drivers' = drivers /\ hooked' = hooked /\ handler' = handler
  OBVIOUS
<1>4. HandlesOK'
  <2> SUFFICES ASSUME NEW q \in Plugin
               PROVE  /\ mapped'[q] <= loads'[q] /\ loads'[q] <= MaxLoads
                      /\ Loaded(q)' => mapped'[q] >= 1
                      /\ q \notin spoiled' => ~Extra(q)'
                      /\ q \in spoiled' /\ q # Python => Extra(q)'
    BY DEF HandlesOK
  <2>1. /\ mapped[q] <= loads[q] /\ loads[q] <= MaxLoads
        /\ Loaded(q) => mapped[q] >= 1
        /\ q \notin spoiled => ~Extra(q)
        /\ q \in spoiled /\ q # Python => Extra(q)
    BY <1>1 DEF HandlesOK
  <2>2. (q \notin spoiled' => q \notin spoiled) /\ (q \in spoiled' /\ q # Python => q \in spoiled)
    OBVIOUS
  <2>3. QED BY <1>2, <1>3, <2>1, <2>2
<1>5. TablesOK'
  <2>1. Tables' = Tables /\ \A q : TablesOf(q)' = TablesOf(q)
    BY <1>3 DEF Tables, TablesOf
  <2>2. Ring(tables', TableNodes, Sentinel, Tables')
    BY <1>1, <1>3, <2>1 DEF TablesOK
  <2>3. \A t \in Tables' : Owner(t) \in HasStrings =>
          t[2] <= loads'[Owner(t)] /\ Stays(Owner(t))'
    BY <1>1, <1>2, <1>3, <2>1, ConstantFacts DEF TablesOK
  <2>4. \A t \in Tables' : Owner(t) = Python =>
          Extra(Python)' \/ (Loaded(Python)' /\ handler' = t)
    BY <1>1, <1>2, <1>3, <2>1, ConstantFacts DEF TablesOK
  <2>5. \A p \in HasStrings \ spoiled' : Loaded(p)' => \E t : TablesOf(p)' = {t}
    <3> SUFFICES ASSUME NEW p \in HasStrings \ spoiled', Loaded(p)'
                 PROVE  \E t : TablesOf(p)' = {t}
      OBVIOUS
    <3>1. p \in HasStrings \ spoiled /\ Loaded(p) /\ TablesOf(p)' = TablesOf(p)
      BY <1>2, <2>1, ConstantFacts
    <3>2. QED BY <1>1, <3>1 DEF TablesOK
  <2>6. QED BY <2>2, <2>3, <2>4, <2>5 DEF TablesOK
<1>6. DriversOK'
  BY <1>1, <1>3 DEF DriversOK
<1>7. HookOK'
  BY <1>1, <1>2, <1>3, ConstantFacts DEF HookOK
<1>8. QED BY <1>4, <1>5, <1>6, <1>7

\* py_RegisterCommand
LEMMA RegisterCommandKeeps ==
  ASSUME IInv, NEW n \in Command, RegisterCommand(n)
  PROVE  IInv'
<1>1. /\ Loaded(Python)
      /\ UNCHANGED <<plugins, loads, mapped, tables, drivers, hooked, handler, timers,
                     call, again>>
      /\ taken' = taken \cup {n}
      /\ \/ /\ scripts[n] = "none"
            /\ commands' = RegisterCommandList({n}, Python)
            /\ scripts' = [scripts EXCEPT ![n] = "listed"]
            /\ spoiled' = spoiled
         \/ /\ scripts[n] # "none"
            /\ scripts' = [scripts EXCEPT ![n] = "unset"]
            /\ spoiled' = spoiled \cup {Python}
            /\ commands' = commands
  BY DEF RegisterCommand, ScriptRuns
<1>2. TypesOK /\ ScriptsOK /\ CallOK /\ CommandsOK
  BY DEF IInv
<1>3. \A p \in Plugin : (Loaded(p)' <=> Loaded(p)) /\ (Stays(p)' <=> Stays(p))
  BY <1>1, SamePlugins
<1>4. spoiled' \in {spoiled, spoiled \cup {Python}}
  BY <1>1
<1>5. HandlesOK' /\ TablesOK' /\ DriversOK' /\ HookOK'
  BY <1>1, <1>4, SameLists
<1>6. scripts \in [Command -> {"none", "listed", "unset"}]
  BY <1>2 DEF ScriptsOK
<1>7. ScriptsOK'
  BY <1>1, <1>2, <1>6 DEF ScriptsOK
<1>8. /\ commands \in [Command -> Plugin \cup {Core, Nobody}]
      /\ taken \subseteq Command /\ spoiled \subseteq Plugin
  BY <1>2 DEF TypesOK
<1>9. /\ commands' \in [Command -> Plugin \cup {Core, Nobody}]
      /\ \A m \in Command \ {n} : commands'[m] = commands[m] /\ scripts'[m] = scripts[m]
      /\ commands'[n] \in {commands[n], Python}
      /\ commands'[n] = Python => \/ Python \in spoiled'
                                  \/ scripts'[n] = "listed"
  BY <1>1, <1>6, <1>8, ConstantFacts DEF RegisterCommandList
<1>10. TypesOK'
  BY <1>1, <1>2, <1>4, <1>8, <1>9, ConstantFacts DEF TypesOK
<1>11. CallOK'
  BY <1>1, <1>2 DEF CallOK
<1>12. CommandsOK'
  <2>1. \A m \in Command : scripts'[m] # "none" => m \in taken'
    BY <1>1, <1>2, <1>9 DEF CommandsOK
  <2>2. \A m \in Command, p \in Plugin \ {Python} :
          commands'[m] = p => m \in CommandList[p] /\ Stays(p)'
    BY <1>2, <1>3, <1>9 DEF CommandsOK
  <2>3. ASSUME NEW m \in Command, commands'[m] = Python, Python \notin spoiled'
        PROVE  Loaded(Python)' /\ (m \in CommandList[Python] \/ scripts'[m] = "listed")
    <3>1. Loaded(Python)'
      BY <1>1, <1>3, ConstantFacts
    <3>2. CASE m = n
      BY <1>9, <2>3, <3>1, <3>2
    <3>3. CASE m # n
      BY <1>2, <1>4, <1>9, <2>3, <3>1, <3>3 DEF CommandsOK
    <3>4. QED BY <3>2, <3>3
  <2>4. ASSUME NEW p \in Plugin \ spoiled', Loaded(p)', NEW m \in CommandList[p] \ taken'
        PROVE  commands'[m] = p
    <3>1. p \in Plugin \ spoiled /\ Loaded(p) /\ m \in CommandList[p] \ taken /\ m # n
      BY <1>1, <1>3, <1>4, <2>4
    <3>2. m \in Command
      BY <3>1, ConstantFacts
    <3>3. QED BY <1>2, <1>9, <3>1, <3>2 DEF CommandsOK
  <2>5. ASSUME NEW m \in CommandList[Core] \ taken' PROVE commands'[m] = Core
    <3>1. m \in CommandList[Core] \ taken /\ m # n /\ m \in Command
      BY <1>1, ConstantFacts
    <3>2. QED BY <1>2, <1>9, <3>1 DEF CommandsOK
  <2>6. QED BY <2>1, <2>2, <2>3, <2>4, <2>5 DEF CommandsOK
<1>13. TimersOK'
  BY <1>1, <1>3, ConstantFacts DEF IInv, TimersOK
<1>14. QED BY <1>5, <1>7, <1>10, <1>11, <1>12, <1>13 DEF IInv

\* The commands when a step leaves them and the plugins alone.
LEMMA SameCommands ==
  ASSUME CommandsOK,
         UNCHANGED <<plugins, mapped, commands, scripts, taken, spoiled>>
  PROVE  CommandsOK'
<1>1. \A p \in Plugin : (Loaded(p)' <=> Loaded(p)) /\ (Stays(p)' <=> Stays(p))
  BY SamePlugins
<1>2. /\ commands' = commands /\ scripts' = scripts /\ taken' = taken /\ spoiled' = spoiled
  OBVIOUS
<1>3. QED BY <1>1, <1>2, ConstantFacts DEF CommandsOK

\* py_RegisterServerString
LEMMA RegisterServerStringKeeps ==
  ASSUME IInv, RegisterServerString
  PROVE  IInv'
<1> DEFINE free == {t \in 1..MaxLoads : <<Python, t>> \notin Tables \cup {call.table}}
           k    == Min(free)
           new  == <<Python, k>>
           ts   == {handler} \ {Sentinel}
<1>1. /\ Loaded(Python)
      /\ free # {} /\ handler' = new
      /\ tables' = ListInsert(ListWithout(tables, Sentinel, ts), Sentinel, new)
      /\ UNCHANGED <<plugins, loads, mapped, commands, drivers, hooked, scripts, timers,
                     call, again, taken, spoiled>>
  BY DEF RegisterServerString, ScriptRuns, RegisterStrings, UnregisterStrings
<1>2. /\ TypesOK /\ ScriptsOK /\ CallOK /\ HandlesOK /\ CommandsOK /\ TablesOK
      /\ DriversOK /\ HookOK
  BY DEF IInv
<1>3. \A p \in Plugin : /\ Loaded(p)' <=> Loaded(p)
                        /\ Extra(p)' <=> Extra(p)
                        /\ Stays(p)' <=> Stays(p)
  BY <1>1, SamePlugins
<1>4. k \in 1..MaxLoads /\ new \notin Tables
  <2>1. free \subseteq Nat
    BY ConstantFacts
  <2>2. k \in free
    <3> HIDE DEF free
    <3>1. QED BY <1>1, <2>1, MinFacts
  <2>3. QED BY <2>2
<1>5. new \in Table /\ Owner(new) = Python
  <2> HIDE DEF k
  <2>1. QED BY <1>4, TableFacts
<1>6. Ring(tables, TableNodes, Sentinel, Tables) /\ Tables \subseteq Table
  BY <1>2, TablesAre DEF TablesOK
<1> HIDE DEF new, ts, free, k
<1>7. new \in TableNodes /\ new # Sentinel
  BY <1>5, ConstantFacts DEF TableNodes
<1>8. Ring(ListWithout(tables, Sentinel, ts), TableNodes, Sentinel, Tables \ ts)
  BY <1>6, TableFacts, RingWithout
<1>9. Ring(tables', TableNodes, Sentinel, (Tables \ ts) \cup {new})
  <2> DEFINE l == ListWithout(tables, Sentinel, ts)
             R == Tables \ ts
  <2>1. Ring(l, TableNodes, Sentinel, R) /\ new \notin R
    BY <1>4, <1>8
  <2>2. tables' = ListInsert(l, Sentinel, new)
    BY <1>1
  <2> HIDE DEF l, R
  <2>3. Ring(tables', TableNodes, Sentinel, R \cup {new})
    BY <1>7, <2>1, <2>2, RingInsert
  <2>4. QED BY <2>3 DEF R
<1>10. Tables' = (Tables \ ts) \cup {new}
  BY <1>9, TablesAre DEF Tables
<1>11. handler \in ts \/ handler = Sentinel
  BY DEF ts
<1>12. \A t \in ts : Owner(t) = Python
  BY <1>2 DEF ts, ScriptsOK, Owner
<1>13. TablesOK'
  <2>1. ASSUME NEW t \in Tables', Owner(t) \in HasStrings
        PROVE  t[2] <= loads'[Owner(t)] /\ Stays(Owner(t))'
    <3>1. t \in Tables
      BY <1>5, <1>10, <2>1, ConstantFacts
    <3>2. t[2] <= loads[Owner(t)] /\ Stays(Owner(t))
      BY <1>2, <2>1, <3>1 DEF TablesOK
    <3>3. Owner(t) \in Plugin
      BY <2>1, ConstantFacts
    <3>4. QED BY <1>1, <1>3, <3>2, <3>3
  <2>2. ASSUME NEW t \in Tables', Owner(t) = Python
        PROVE  Extra(Python)' \/ (Loaded(Python)' /\ handler' = t)
    <3>1. CASE t = new
      BY <1>1, <1>3, <3>1, ConstantFacts
    <3>2. CASE t # new
      <4>1. t \in Tables /\ t \notin ts /\ t # Sentinel
        BY <1>6, <1>10, <3>2, ConstantFacts
      <4>2. Extra(Python) \/ handler = t
        BY <1>2, <2>2, <4>1 DEF TablesOK
      <4>3. QED BY <1>3, <1>11, <4>1, <4>2, ConstantFacts
    <3>3. QED BY <3>1, <3>2
  <2>3. ASSUME NEW q \in HasStrings \ spoiled', Loaded(q)'
        PROVE  \E t : TablesOf(q)' = {t}
    <3>1. q \in HasStrings \ spoiled /\ Loaded(q) /\ q # Python
      BY <1>1, <1>3, <2>3, ConstantFacts
    <3>2. TablesOf(q)' = {t \in Tables' : Owner(t) = q}
      BY DEF TablesOf
    <3>3. {t \in Tables' : Owner(t) = q} = {t \in Tables : Owner(t) = q}
      BY <1>5, <1>10, <1>12, <3>1
    <3>4. TablesOf(q)' = TablesOf(q)
      BY <3>2, <3>3 DEF TablesOf
    <3>5. QED BY <1>2, <3>1, <3>4 DEF TablesOK
  <2>4. QED BY <1>9, <1>10, <2>1, <2>2, <2>3 DEF TablesOK
<1>14. HandlesOK' /\ DriversOK' /\ HookOK'
  <2>1. /\ plugins' = plugins /\ loads' = loads /\ mapped' = mapped /\ drivers' = drivers
        /\ hooked' = hooked /\ spoiled' = spoiled
    BY <1>1
  <2>2. HandlesOK'
    BY <1>2, <1>3, <2>1 DEF HandlesOK
  <2>3. DriversOK'
    BY <1>2, <2>1 DEF DriversOK
  <2>4. HookOK'
    BY <1>2, <1>3, <2>1, ConstantFacts DEF HookOK
  <2>5. QED BY <2>2, <2>3, <2>4
<1>15. CommandsOK'
  BY <1>1, <1>2, SameCommands
<1>16. ScriptsOK'
  <2>1. new \in {Python} \X (1..MaxLoads)
    BY <1>4 DEF new
  <2>2. QED BY <1>1, <1>2, <2>1 DEF ScriptsOK
<1>17. TypesOK' /\ CallOK'
  BY <1>1, <1>2 DEF TypesOK, CallOK
<1>18. TimersOK'
  BY <1>1, <1>3, ConstantFacts DEF IInv, TimersOK
<1>19. QED BY <1>13, <1>14, <1>15, <1>16, <1>17, <1>18 DEF IInv

\* A step that leaves alone what is registered, and whose it is.
LEMMA QuietKeeps ==
  ASSUME IInv,
         UNCHANGED <<plugins, loads, mapped, registered, scripts, handler, taken, spoiled>>,
         timers' \in {timers, "none"} \/ (timers' = "set" /\ Loaded(Python)),
         again' \in Seq(Plugin),
         call' \in [owner : Plugin \cup {Core, Nobody}, table : TableNodes]
  PROVE  IInv'
<1>1. TypesOK /\ ScriptsOK /\ CommandsOK
  BY DEF IInv
<1>2. UNCHANGED <<plugins, loads, mapped, commands, tables, drivers, hooked, scripts,
                  handler, taken, spoiled>>
  BY DEF registered
<1>3. HandlesOK' /\ TablesOK' /\ DriversOK' /\ HookOK'
  BY <1>2, SameLists
<1>4. CommandsOK'
  BY <1>1, <1>2, SameCommands
<1>5. TypesOK' /\ ScriptsOK' /\ CallOK'
  BY <1>1, <1>2 DEF TypesOK, ScriptsOK, CallOK
<1>6. TimersOK'
  <2>1. Stays(Python)' <=> Stays(Python)
    BY <1>2, SamePlugins, ConstantFacts
  <2>2. timers = "set" => Stays(Python)
    BY DEF IInv, TimersOK
  <2>3. QED BY <2>1, <2>2 DEF TimersOK, Stays
<1>7. QED BY <1>3, <1>4, <1>5, <1>6 DEF IInv

\* py_TimedFunction and py_RegisterPoll
LEMMA SetTimerKeeps ==
  ASSUME IInv, SetTimer
  PROVE  IInv'
<1>1. /\ timers' = "set" /\ Loaded(Python)
      /\ UNCHANGED <<plugins, loads, mapped, registered, scripts, handler,
                     call, again, taken, spoiled>>
  BY DEF SetTimer, ScriptRuns
<1>2. again' \in Seq(Plugin)
  BY <1>1 DEF IInv, TypesOK
<1>3. call' \in [owner : Plugin \cup {Core, Nobody}, table : TableNodes]
  BY <1>1 DEF IInv, CallOK
<1>4. UNCHANGED <<plugins, loads, mapped, registered, scripts, handler, taken, spoiled>>
  BY <1>1
<1>5. QED BY <1>1, <1>2, <1>3, <1>4, QuietKeeps

-----------------------------------------------------------------------------
(* Reloading and calls.                                                    *)

\* reload_all_plugins and reload_plugin, before the first of them is unloaded.
LEMMA ReloadPluginsKeeps ==
  ASSUME IInv, ReloadPlugins
  PROVE  IInv'
<1>1. /\ again' \in {Reverse(plugins)} \cup {<<p>> : p \in Range(plugins)}
      /\ UNCHANGED <<plugins, loads, mapped, registered, python, call, taken, spoiled>>
  BY DEF ReloadPlugins
<1>2. plugins \in Seq(Plugin) /\ Range(plugins) \subseteq Plugin
  <2>1. plugins \in Seq(Plugin)
    BY DEF IInv, TypesOK
  <2>2. QED BY <2>1, RangeFacts
<1>3. Reverse(plugins) \in Seq(Plugin)
  <2>1. Len(plugins) \in Nat /\ \A i \in 1..Len(plugins) : plugins[i] \in Plugin
    BY <1>2, LenProperties, ElementOfSeq
  <2>2. Reverse(plugins) \in [1..Len(plugins) -> Plugin]
    BY <2>1 DEF Reverse
  <2>3. QED BY <2>1, <2>2, SeqDef
<1>4. again' \in Seq(Plugin)
  <2>1. CASE again' = Reverse(plugins)
    BY <1>3, <2>1
  <2>2. CASE again' \in {<<p>> : p \in Range(plugins)}
    <3>1. PICK p \in Range(plugins) : again' = <<p>>
      BY <2>2
    <3>2. p \in Plugin
      BY <1>2
    <3>3. QED BY <3>1, <3>2
  <2>3. QED BY <1>1, <2>1, <2>2
<1>5. call' \in [owner : Plugin \cup {Core, Nobody}, table : TableNodes]
  BY <1>1 DEF IInv, CallOK
<1>6. timers' \in {timers, "none"}
  BY <1>1 DEF python
<1>7. UNCHANGED <<plugins, loads, mapped, registered, scripts, handler, taken, spoiled>>
  BY <1>1 DEF python
<1>8. QED BY <1>4, <1>5, <1>6, <1>7, QuietKeeps

\* The plugin that is reloaded next is loaded, if it can be.
LEMMA ReloadLoadKeeps ==
  ASSUME IInv, ReloadLoad
  PROVE  IInv'
<1>1. again \in Seq(Plugin) /\ again # <<>>
  BY DEF IInv, TypesOK, ReloadLoad
<1>2. again' = Tail(again) /\ UNCHANGED call
  BY DEF ReloadLoad
<1>3. Head(again) \in Plugin /\ again' \in Seq(Plugin)
  BY <1>1, <1>2
<1>4. CASE Load(Head(again))
  <2> DEFINE p == Head(again)
  <2>1. p \in Plugin /\ Load(p)
    BY <1>3, <1>4
  <2> HIDE DEF p
  <2>2. QED BY <1>2, <1>3, <2>1, LoadKeeps
<1>5. CASE UNCHANGED <<plugins, loads, mapped, registered, python, taken, spoiled>>
  <2>1. call' \in [owner : Plugin \cup {Core, Nobody}, table : TableNodes]
    BY <1>2 DEF IInv, CallOK
  <2>2. timers' \in {timers, "none"}
    BY <1>5 DEF python
  <2>3. UNCHANGED <<plugins, loads, mapped, registered, scripts, handler, taken, spoiled>>
    BY <1>5 DEF python
  <2>4. QED BY <1>3, <2>1, <2>2, <2>3, QuietKeeps
<1>6. QED BY <1>4, <1>5 DEF ReloadLoad

\* The code of owner is called.
LEMMA CallKeeps ==
  ASSUME IInv, NEW owner \in Plugin \cup {Core, Nobody}, NEW table \in TableNodes,
         Call(owner, table), timers' \in {timers, "none"}
  PROVE  IInv'
<1>1. /\ call' = [owner |-> owner, table |-> table]
      /\ UNCHANGED <<plugins, loads, mapped, registered, scripts, handler, again, taken, spoiled>>
  BY DEF Call
<1>2. call' \in [owner : Plugin \cup {Core, Nobody}, table : TableNodes]
  BY <1>1
<1>3. again' \in Seq(Plugin)
  BY <1>1 DEF IInv, TypesOK
<1>4. UNCHANGED <<plugins, loads, mapped, registered, scripts, handler, taken, spoiled>>
  BY <1>1
<1>5. QED BY <1>2, <1>3, <1>4, QuietKeeps

\* Nothing but the outcome and the code that runs changes.
LEMMA OutcomeKeeps ==
  ASSUME IInv, call' \in {call, Idle},
         UNCHANGED <<plugins, loads, mapped, registered, python, again, taken, spoiled>>
  PROVE  IInv'
<1>1. again' \in Seq(Plugin)
  BY DEF IInv, TypesOK
<1>2. timers' \in {timers, "none"}
  BY DEF python
<1>3. Idle \in [owner : Plugin \cup {Core, Nobody}, table : TableNodes]
  BY TableFacts DEF Idle
<1>4. call' \in [owner : Plugin \cup {Core, Nobody}, table : TableNodes]
  BY <1>3 DEF IInv, CallOK
<1>5. UNCHANGED <<plugins, loads, mapped, registered, scripts, handler, taken, spoiled>>
  BY DEF python
<1>6. QED BY <1>1, <1>2, <1>4, <1>5, QuietKeeps

\* A table's handler of a line.
LEMMA HandleLineKeeps ==
  ASSUME IInv, NEW t \in Table, HandleLine(t)
  PROVE  IInv'
<1>1. Owner(t) \in Plugin \cup {Core, Nobody} /\ t \in TableNodes
  BY TableFacts, ConstantFacts DEF TableNodes
<1>2. CASE Call(Owner(t), t) /\ UNCHANGED timers
  <2> DEFINE owner == Owner(t)
  <2>1. owner \in Plugin \cup {Core, Nobody} /\ Call(owner, t)
    BY <1>1, <1>2
  <2>2. timers' \in {timers, "none"}
    BY <1>2
  <2> HIDE DEF owner
  <2>3. QED BY <1>1, <2>1, <2>2, CallKeeps
<1>3. CASE Unknown
  <2>1. /\ call' = call
        /\ UNCHANGED <<plugins, loads, mapped, registered, python, again, taken, spoiled>>
    BY <1>3 DEF Unknown
  <2>2. QED BY <2>1, OutcomeKeeps
<1>4. QED BY <1>2, <1>3 DEF HandleLine

\* A command that is run.
LEMMA RunCommandKeeps ==
  ASSUME IInv, NEW n \in Command, RunCommand(n)
  PROVE  IInv'
<1>1. CASE Call(commands[n], Sentinel) /\ UNCHANGED timers
  <2> DEFINE owner == commands[n]
  <2>1. owner \in Plugin \cup {Core, Nobody} /\ Call(owner, Sentinel)
    BY <1>1 DEF IInv, TypesOK
  <2>2. timers' \in {timers, "none"}
    BY <1>1
  <2>3. Sentinel \in TableNodes
    BY TableFacts
  <2> HIDE DEF owner
  <2>4. QED BY <2>1, <2>2, <2>3, CallKeeps
<1>2. CASE Unknown
  <2>1. /\ call' = call
        /\ UNCHANGED <<plugins, loads, mapped, registered, python, again, taken, spoiled>>
    BY <1>2 DEF Unknown
  <2>2. QED BY <2>1, OutcomeKeeps
<1>3. QED BY <1>1, <1>2 DEF RunCommand

\* Every call and every return.
LEMMA DispatchKeeps ==
  ASSUME IInv, Dispatch
  PROVE  IInv'
<1>1. Sentinel \in TableNodes
  BY TableFacts
<1>2. CASE \E n \in Command : RunCommand(n)
  BY <1>2, RunCommandKeeps
<1>3. CASE ServerLine
  <2>1. PICK t \in Tables : HandleLine(t)
    BY <1>3 DEF ServerLine
  <2>2. t \in Table
    <3>1. Ring(tables, TableNodes, Sentinel, Tables)
      BY DEF IInv, TablesOK
    <3>2. QED BY <3>1, TablesAre
  <2>3. QED BY <2>1, <2>2, HandleLineKeeps
<1>4. CASE HandlerPasses
  <2>1. PICK t \in Ahead(tables, call.table, Sentinel) : HandleLine(t)
    BY <1>4 DEF HandlerPasses
  <2>2. t \in Table
    <3> DEFINE start == call.table
    <3>1. start \in TableNodes
      BY DEF IInv, CallOK
    <3>2. tables \in Pointers(TableNodes)
      <4>1. Ring(tables, TableNodes, Sentinel, Tables)
        BY DEF IInv, TablesOK
      <4>2. QED BY <4>1, RingType
    <3> HIDE DEF start
    <3>3. Ahead(tables, start, Sentinel) \subseteq TableNodes \ {Sentinel}
      BY <3>1, <3>2, AheadType
    <3>4. QED BY <3>3 DEF start, TableNodes
  <2>3. QED BY <2>1, <2>2, HandleLineKeeps
<1>5. CASE RunHook
  <2>1. Call(Python, Sentinel) /\ timers' = timers
    BY <1>5 DEF RunHook
  <2>2. QED BY <1>1, <2>1, ConstantFacts, CallKeeps
<1>6. CASE RunPluginHook
  <2>1. PICK p \in HasHook \cap Range(plugins) : Call(p, Sentinel)
    BY <1>6 DEF RunPluginHook
  <2>2. timers' = timers
    BY <1>6 DEF RunPluginHook
  <2>3. p \in Plugin
    BY RegistryOK
  <2>4. QED BY <1>1, <2>1, <2>2, <2>3, CallKeeps
<1>7. CASE RunTimer
  <2>1. CASE timers = "set" /\ Call(Python, Sentinel) /\ timers' \in {"set", "none"}
    <3>1. timers' \in {timers, "none"}
      BY <2>1
    <3>2. QED BY <1>1, <2>1, <3>1, ConstantFacts, CallKeeps
  <2>2. CASE CallLeft /\ timers' = timers
    <3>1. /\ call' = [owner |-> Python, table |-> Sentinel]
          /\ UNCHANGED <<plugins, loads, mapped, registered, scripts, handler, taken, spoiled>>
          /\ again' = again
      BY <2>2 DEF CallLeft
    <3>2. call' \in [owner : Plugin \cup {Core, Nobody}, table : TableNodes]
      BY <1>1, <3>1, ConstantFacts
    <3>3. again' \in Seq(Plugin) /\ timers' \in {timers, "none"}
      BY <2>2, <3>1 DEF IInv, TypesOK
    <3>4. QED BY <3>1, <3>2, <3>3, QuietKeeps
  <2>3. QED BY <1>7, <2>1, <2>2 DEF RunTimer
<1>8. CASE Return
  <2>1. /\ call' = Idle
        /\ UNCHANGED <<plugins, loads, mapped, registered, python, again, taken, spoiled>>
    BY <1>8 DEF Return
  <2>2. QED BY <2>1, OutcomeKeeps
<1>9. QED BY <1>2, <1>3, <1>4, <1>5, <1>6, <1>7, <1>8 DEF Dispatch

-----------------------------------------------------------------------------
(* The program.                                                            *)

\* Before anything is loaded the program has its commands and its table.
LEMMA InitOK == Init => IInv
<1> SUFFICES ASSUME Init PROVE IInv
  OBVIOUS
<1>1. /\ plugins = <<>> /\ again = <<>>
      /\ loads = [p \in Plugin |-> 0] /\ mapped = [p \in Plugin |-> 0]
      /\ commands = [n \in Command |-> IF n \in CommandList[Core] THEN Core ELSE Nobody]
      /\ tables = ListInsert(ListInit(TableNodes), Sentinel, <<Core, 1>>)
      /\ drivers = ListInit(DriverNodes)
      /\ hooked = 0
      /\ scripts = [n \in Command |-> "none"] /\ handler = Sentinel /\ timers = "none"
      /\ call = Idle /\ taken = {} /\ spoiled = {}
  BY DEF Init, TableNodes, DriverNodes
<1>2. /\ plugins \in Seq(Plugin) /\ again \in Seq(Plugin)
      /\ Range(plugins) = {} /\ IsInjective(plugins)
  BY <1>1, EmptySeq DEF Range, IsInjective
<1>3. \A p \in Plugin : ~Loaded(p) /\ ~Extra(p) /\ mapped[p] = 0 /\ loads[p] = 0
  <2>1. \A p \in Plugin : ~Loaded(p) /\ mapped[p] = 0 /\ loads[p] = 0
    BY <1>1, <1>2 DEF Loaded
  <2>2. QED BY <2>1 DEF Extra
<1>4. Ring(drivers, DriverNodes, Sentinel, {})
  <2>1. Sentinel \in DriverNodes
    BY DEF DriverNodes
  <2>2. QED BY <1>1, <2>1, RingInit
<1>5. Ring(tables, TableNodes, Sentinel, {<<Core, 1>>}) /\ Tables = {<<Core, 1>>}
  <2> DEFINE new == <<Core, 1>>
             l   == ListInit(TableNodes)
  <2>1. new \in TableNodes /\ new # Sentinel /\ Sentinel \in TableNodes
    BY TableFacts, ConstantFacts DEF TableNodes
  <2>2. Ring(l, TableNodes, Sentinel, {}) /\ new \notin {}
    BY <2>1, RingInit
  <2>3. tables = ListInsert(l, Sentinel, new)
    BY <1>1
  <2> HIDE DEF new, l
  <2>4. Ring(tables, TableNodes, Sentinel, {} \cup {new})
    BY <2>1, <2>2, <2>3, RingInsert
  <2>5. {} \cup {new} = {new}
    OBVIOUS
  <2>6. Ring(tables, TableNodes, Sentinel, {new})
    BY <2>4, <2>5
  <2>7. Tables = {new}
    BY <2>6, TablesAre DEF Tables
  <2>8. QED BY <2>6, <2>7 DEF new
<1>6. /\ commands \in [Command -> Plugin \cup {Core, Nobody}]
      /\ \A n \in Command : commands[n] \notin Plugin
      /\ \A n \in CommandList[Core] : commands[n] = Core
  BY <1>1, ConstantFacts
<1>7. TypesOK
  <2>1. drivers \in Pointers(DriverNodes)
    BY <1>4, RingType
  <2>2. QED BY <1>1, <1>2, <1>6, <2>1 DEF TypesOK
<1>8. ScriptsOK
  BY <1>1 DEF ScriptsOK
<1>9. CallOK
  BY <1>1, TableFacts DEF CallOK, Idle
<1>10. HandlesOK
  BY <1>1, <1>3, ConstantFacts DEF HandlesOK
<1>11. CommandsOK
  BY <1>1, <1>3, <1>6, ConstantFacts DEF CommandsOK
<1>12. TablesOK
  <2>1. \A t \in Tables : Owner(t) = Core
    BY <1>5, TableFacts
  <2>2. QED BY <1>3, <1>5, <2>1, ConstantFacts DEF TablesOK
<1>13. DriversOK
  <2>1. HasDriver \cap Range(plugins) = {}
    BY <1>2
  <2>2. QED BY <1>4, <2>1 DEF DriversOK
<1>14. HookOK
  BY <1>1, <1>3, ConstantFacts DEF HookOK
<1>15. TimersOK
  BY <1>1 DEF TimersOK
<1>16. QED BY <1>7, <1>8, <1>9, <1>10, <1>11, <1>12, <1>13, <1>14, <1>15 DEF IInv

\* Every step keeps the lists, the handles and what goes by them in order.
LEMMA NextOK == IInv /\ [Next]_vars => IInv'
<1> SUFFICES ASSUME IInv, [Next]_vars PROVE IInv'
  OBVIOUS
<1>1. CASE LoadPlugin
  <2>1. PICK p \in Plugin : Load(p)
    BY <1>1 DEF LoadPlugin
  <2>2. UNCHANGED call /\ again' \in Seq(Plugin)
    BY <1>1 DEF LoadPlugin, IInv, TypesOK
  <2>3. QED BY <2>1, <2>2, LoadKeeps
<1>2. CASE UnloadPlugin
  <2>1. PICK p \in Range(plugins) : Unload(p)
    BY <1>2 DEF UnloadPlugin
  <2>2. UNCHANGED <<call, again>>
    BY <1>2 DEF UnloadPlugin
  <2>3. QED BY <2>1, <2>2, UnloadKeeps
<1>3. CASE ReloadPlugins
  BY <1>3, ReloadPluginsKeeps
<1>4. CASE ReloadUnload
  <2> DEFINE p == Head(again)
  <2>1. p \in Range(plugins) /\ Unload(p) /\ UNCHANGED <<call, again>>
    BY <1>4 DEF ReloadUnload, Loaded
  <2> HIDE DEF p
  <2>2. QED BY <2>1, UnloadKeeps
<1>5. CASE ReloadLoad
  BY <1>5, ReloadLoadKeeps
<1>6. CASE Register
  <2>1. CASE \E n \in Command : RegisterCommand(n)
    BY <2>1, RegisterCommandKeeps
  <2>2. QED BY <1>6, <2>1, RegisterServerStringKeeps, SetTimerKeeps DEF Register
<1>7. CASE Dispatch
  BY <1>7, DispatchKeeps
<1>8. CASE UNCHANGED vars
  <2>1. /\ call' \in {call, Idle}
        /\ UNCHANGED <<plugins, loads, mapped, registered, python, again, taken, spoiled>>
    BY <1>8 DEF vars
  <2>2. QED BY <2>1, OutcomeKeeps
<1>9. QED BY <1>1, <1>2, <1>3, <1>4, <1>5, <1>6, <1>7, <1>8 DEF Next

\* The inductive invariant.
THEOREM Inductive == Spec => []IInv
<1>1. IInv /\ [Next]_vars => IInv'
  BY NextOK
<1>2. QED BY <1>1, InitOK, PTL DEF Spec

\* Every list is a ring of its own nodes, every handle is counted, and everything
\* that is registered belongs to a plugin or the program.
THEOREM TypeCorrect == Spec => []TypeOK
<1>1. IInv => TypeOK
  <2> SUFFICES ASSUME IInv PROVE TypeOK
    OBVIOUS
  <2>1. TypesOK /\ ScriptsOK /\ CallOK /\ HandlesOK /\ TablesOK /\ HookOK
    BY DEF IInv
  <2>2. Range(plugins) \subseteq Plugin /\ IsInjective(plugins)
    BY <2>1, RangeFacts DEF TypesOK
  <2>3. loads \in [Plugin -> 0..MaxLoads] /\ mapped \in [Plugin -> 0..MaxLoads]
    <3>1. \A p \in Plugin : /\ mapped[p] \in Nat /\ loads[p] \in Nat
                            /\ mapped[p] <= loads[p] /\ loads[p] <= MaxLoads
      BY <2>1 DEF TypesOK, HandlesOK
    <3>2. \A p \in Plugin : mapped[p] \in 0..MaxLoads /\ loads[p] \in 0..MaxLoads
      BY <3>1, ConstantFacts
    <3>3. QED BY <2>1, <3>2 DEF TypesOK
  <2>4. tables \in Pointers(TableNodes)
    <3>1. Ring(tables, TableNodes, Sentinel, Tables)
      BY <2>1 DEF TablesOK
    <3>2. QED BY <3>1, RingType
  <2>5. hooked \in 0..MaxLoads
    BY <2>1, <2>3, ConstantFacts DEF HookOK
  <2>6. handler \in Table \cup {Sentinel}
    <3>1. {Python} \X (1..MaxLoads) \subseteq Table
      BY DEF Table
    <3>2. QED BY <2>1, <3>1 DEF ScriptsOK
  <2>7. call.owner \in Plugin \cup {Core, Nobody} /\ call.table \in Table \cup {Sentinel}
    BY <2>1 DEF CallOK, TableNodes
  <2>8. QED BY <2>1, <2>2, <2>3, <2>4, <2>5, <2>6, <2>7
            DEF TypeOK, TypesOK, ScriptsOK, Pointers, TableNodes, DriverNodes
<1>2. QED BY <1>1, Inductive, PTL

\* The invariant has what can be called mapped.
LEMMA BackedOK == IInv => Backed
<1> SUFFICES ASSUME IInv PROVE Backed
  OBVIOUS
<1>1. TypesOK /\ HandlesOK /\ CommandsOK /\ TablesOK /\ DriversOK /\ HookOK
  BY DEF IInv
<1>2. \A p \in Plugin : Stays(p) \/ Loaded(p) => mapped[p] > 0
  <2> SUFFICES ASSUME NEW p \in Plugin, Stays(p) \/ Loaded(p) PROVE mapped[p] > 0
    OBVIOUS
  <2>1. mapped[p] \in Nat /\ (Loaded(p) => mapped[p] >= 1)
    BY <1>1 DEF TypesOK, HandlesOK
  <2>2. QED BY <2>1 DEF Stays, Extra
<1>3. \A p \in Plugin : Stays(p) \/ Loaded(p) => Mapped(p)
  BY <1>2 DEF Mapped
<1>4. ASSUME NEW n \in Command, commands[n] \in Plugin,
             ~(commands[n] = Python /\ Python \in spoiled)
      PROVE  Mapped(commands[n])
  <2>1. commands[n] # Python => Stays(commands[n])
    BY <1>1, <1>4 DEF CommandsOK
  <2>2. commands[n] = Python => Loaded(commands[n])
    BY <1>1, <1>4 DEF CommandsOK
  <2>3. QED BY <1>3, <1>4, <2>1, <2>2
<1>5. ASSUME NEW t \in Tables PROVE Mapped(Owner(t))
  <2>1. t \in Table
    BY <1>1, TablesAre DEF TablesOK
  <2>2. CASE Owner(t) \in HasStrings
    BY <1>1, <1>3, <2>2, ConstantFacts DEF TablesOK
  <2>3. CASE Owner(t) = Python
    <3>1. Extra(Python) \/ Loaded(Python)
      BY <1>1, <2>3 DEF TablesOK
    <3>2. QED BY <1>3, <2>3, <3>1, ConstantFacts DEF Stays
  <2>4. CASE Owner(t) = Core
    BY <2>4 DEF Mapped
  <2>5. QED BY <2>1, <2>2, <2>3, <2>4, TableFacts
<1>6. ASSUME HasDriver \cap spoiled = {}, NEW d \in Drivers PROVE Mapped(d)
  <2>1. Drivers = HasDriver \cap Range(plugins)
    BY <1>1, <1>6, DriversAre DEF DriversOK, Drivers
  <2>2. d \in Plugin /\ Loaded(d)
    BY <1>6, <2>1, ConstantFacts DEF Loaded
  <2>3. QED BY <1>3, <2>2
<1>7. hooked > 0 => Mapped(Python)
  BY <1>1, <1>3, ConstantFacts DEF HookOK
<1>8. QED BY <1>4, <1>5, <1>6, <1>7 DEF Backed

\* However plugins are loaded, loaded twice, reloaded and unloaded, whatever can
\* still be called is code that is there.
THEOREM CodeIsThere == Spec => []Backed
<1>1. IInv => Backed
  BY BackedOK
<1>2. QED BY <1>1, Inductive, PTL

\* A plugin that neither failed nor was loaded twice has everything registered
\* once while it is loaded and nothing while it is not.
THEOREM RegisteredWhileLoaded == Spec => []ExactlyWhileLoaded
<1>1. IInv => ExactlyWhileLoaded
  <2> SUFFICES ASSUME IInv PROVE ExactlyWhileLoaded
    OBVIOUS
  <2>1. TypesOK /\ HandlesOK /\ CommandsOK /\ TablesOK /\ DriversOK /\ HookOK
    BY DEF IInv
  <2>2. \A p \in Plugin \ spoiled : ~Extra(p) /\ (Stays(p) => Loaded(p))
    BY <2>1 DEF HandlesOK, Stays
  <2>3. ASSUME NEW p \in Plugin \ spoiled, NEW n \in Command, commands[n] = p
        PROVE  Loaded(p)
    <3>1. CASE p = Python
      BY <2>1, <2>3, <3>1 DEF CommandsOK
    <3>2. CASE p # Python
      BY <2>1, <2>2, <2>3, <3>2 DEF CommandsOK
    <3>3. QED BY <3>1, <3>2
  <2>4. ASSUME NEW p \in Plugin \ spoiled, NEW n \in CommandList[p] \ taken
        PROVE  (commands[n] = p) <=> Loaded(p)
    <3>1. n \in Command
      BY ConstantFacts
    <3>2. Loaded(p) => commands[n] = p
      BY <2>1 DEF CommandsOK
    <3>3. QED BY <2>3, <3>1, <3>2
  <2>5. ASSUME NEW p \in Plugin \ spoiled, ~Loaded(p) PROVE TablesOf(p) = {}
    <3> SUFFICES ASSUME NEW t \in Tables, Owner(t) = p PROVE FALSE
      BY DEF TablesOf
    <3>1. p \in HasStrings \/ p = Python
      <4>1. t \in Table
        BY <2>1, TablesAre DEF TablesOK
      <4>2. QED BY <4>1, TableFacts, ConstantFacts
    <3>2. CASE p \in HasStrings
      BY <2>1, <2>2, <2>5, <3>2 DEF TablesOK
    <3>3. CASE p = Python
      BY <2>1, <2>2, <2>5, <3>3 DEF TablesOK
    <3>4. QED BY <3>1, <3>2, <3>3
  <2>6. ASSUME NEW p \in Plugin \ spoiled, p \in HasStrings
        PROVE  Cardinality(TablesOf(p)) = IF Loaded(p) THEN 1 ELSE 0
    <3>1. CASE Loaded(p)
      <4>1. PICK t : TablesOf(p) = {t}
        BY <2>1, <2>6, <3>1 DEF TablesOK
      <4>2. QED BY <3>1, <4>1, FS_Singleton
    <3>2. CASE ~Loaded(p)
      BY <2>5, <3>2, FS_EmptySet
    <3>3. QED BY <3>1, <3>2
  <2>7. ASSUME NEW p \in Plugin \ spoiled, p = Python
        PROVE  hooked = IF Loaded(p) THEN 1 ELSE 0
    BY <2>1, <2>7 DEF HookOK
  <2>8. \A n \in CommandList[Core] \ taken : commands[n] = Core
    BY <2>1 DEF CommandsOK
  <2>9. HasDriver \cap spoiled = {} => Drivers = HasDriver \cap Range(plugins)
    BY <2>1, DriversAre DEF DriversOK, Drivers
  <2>10. QED BY <2>3, <2>4, <2>5, <2>6, <2>7, <2>8, <2>9 DEF ExactlyWhileLoaded
<1>2. QED BY <1>1, Inductive, PTL

\* What is called is there.
LEMMA LandedCall ==
  ASSUME NEW owner, NEW table, outcome = "running", Call(owner, table), Mapped(owner)
  PROVE  outcome' # "code gone"
  BY DEF Call

\* A handler of a line that belongs to a table on the list.
LEMMA LandedLine ==
  ASSUME IInv, outcome = "running", NEW t \in Tables, HandleLine(t)
  PROVE  outcome' # "code gone"
<1> DEFINE owner == Owner(t)
<1>1. Mapped(owner)
  BY BackedOK DEF Backed
<1>2. CASE Call(owner, t)
  <2> HIDE DEF owner
  <2>1. QED BY <1>1, <1>2, LandedCall
<1>3. CASE Unknown
  BY <1>3 DEF Unknown
<1>4. QED BY <1>2, <1>3 DEF HandleLine

\* A call leads to code that is there, but for what a handler whose table was taken
\* off the list passes a line on to, what is left of a script's command, and what
\* is left of a script's timed function or poll.
THEOREM CallsReachCode == Spec => CallsLand
<1>1. ASSUME IInv, Next, outcome' = "code gone" PROVE Excused
  <2> SUFFICES ASSUME ~Excused PROVE FALSE
    OBVIOUS
  <2>1. outcome = "running" /\ Backed
    BY <1>1, BackedOK DEF Next
  <2>2. CASE LoadPlugin \/ ReloadPlugins \/ ReloadLoad
    BY <1>1, <2>1, <2>2 DEF LoadPlugin, ReloadPlugins, ReloadLoad
  <2>3. CASE UnloadPlugin \/ ReloadUnload
    <3>1. PICK p : outcome' \in UnloadOutcomes(p)
      BY <2>3 DEF UnloadPlugin, ReloadUnload, Unload
    <3>2. QED BY <1>1, <3>1 DEF UnloadOutcomes
  <2>4. CASE Register
    BY <1>1, <2>1, <2>4 DEF Register, RegisterCommand, RegisterServerString, SetTimer
  <2>5. ASSUME NEW n \in Command, RunCommand(n) PROVE FALSE
    <3> DEFINE owner == commands[n]
    <3>1. CASE Call(owner, Sentinel)
      <4>1. ~Mapped(owner) /\ call' = [owner |-> owner, table |-> Sentinel]
        BY <1>1, <2>1, <3>1 DEF Call
      <4>2. owner \in Plugin
        BY <1>1, <2>5, <4>1 DEF RunCommand, IInv, TypesOK, Mapped
      <4>3. owner = Python /\ Python \in spoiled
        BY <2>1, <4>1, <4>2 DEF Backed
      <4>4. QED BY <2>5, <4>3 DEF Excused
    <3>2. CASE Unknown
      BY <1>1, <3>2 DEF Unknown
    <3>3. QED BY <2>5, <3>1, <3>2 DEF RunCommand
  <2>6. CASE ServerLine
    BY <1>1, <2>1, <2>6, LandedLine DEF ServerLine
  <2>7. CASE HandlerPasses
    <3> DEFINE start == call.table
    <3>1. start \in Tables
      BY <2>7 DEF HandlerPasses, Excused
    <3>2. PICK t \in Ahead(tables, start, Sentinel) : HandleLine(t)
      BY <2>7 DEF HandlerPasses
    <3>3. Ring(tables, TableNodes, Sentinel, Tables)
      BY <1>1 DEF IInv, TablesOK
    <3> HIDE DEF start
    <3>4. t \in Tables
      BY <3>1, <3>2, <3>3, RingAheadFrom
    <3>5. QED BY <1>1, <2>1, <3>2, <3>4, LandedLine
  <2>8. CASE RunHook
    <3>1. Call(Python, Sentinel) /\ Mapped(Python)
      BY <2>1, <2>8 DEF RunHook, Backed
    <3>2. QED BY <1>1, <2>1, <3>1, LandedCall
  <2>9. ASSUME NEW p \in Plugin, Stays(p) \/ Loaded(p) PROVE Mapped(p)
    <3>1. mapped[p] \in Nat /\ (Loaded(p) => mapped[p] >= 1)
      BY <1>1 DEF IInv, TypesOK, HandlesOK
    <3>2. QED BY <2>9, <3>1 DEF Stays, Extra, Mapped
  <2>10. CASE RunPluginHook
    <3>1. PICK p \in HasHook \cap Range(plugins) : Call(p, Sentinel)
      BY <2>10 DEF RunPluginHook
    <3>2. p \in Plugin /\ Loaded(p)
      BY RegistryOK DEF Loaded
    <3>3. Mapped(p)
      BY <2>9, <3>2
    <3>4. QED BY <1>1, <2>1, <3>1, <3>3, LandedCall
  <2>11. CASE RunTimer
    <3>1. timers = "set" /\ Call(Python, Sentinel)
      BY <1>1, <2>11 DEF RunTimer, Excused
    <3>2. Mapped(Python)
      BY <1>1, <2>9, <3>1, ConstantFacts DEF IInv, TimersOK
    <3>3. QED BY <1>1, <2>1, <3>1, <3>2, LandedCall
  <2>12. CASE Return
    BY <1>1, <2>1, <2>12 DEF Return
  <2>13. CASE Dispatch
    BY <2>5, <2>6, <2>7, <2>8, <2>10, <2>11, <2>12, <2>13 DEF Dispatch
  <2>14. QED BY <1>1, <2>2, <2>3, <2>4, <2>13 DEF Next
<1>2. IInv /\ [Next]_vars => [outcome' = "code gone" => Excused]_vars
  BY <1>1
<1>3. QED BY <1>2, Inductive, PTL DEF Spec, CallsLand
=============================================================================
