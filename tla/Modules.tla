------------------------------ MODULE Modules ------------------------------
(***************************************************************************)
(* Modules that come and go while services run: OperServ's MOD LOAD,       *)
(* RELOAD and UNLOAD (modules/operserv.c), src/conf/modules.c, the INIT    *)
(* and CLEANUP functions of the modules, the callback chains of            *)
(* libio/misc/hook.c and the command tables of src/parse.c.                *)
(*                                                                         *)
(* A load of a module is the pair of the module and its number; what a     *)
(* load leaves behind points into memory that is no longer mapped.         *)
(* Commands are shortened to the letters in which they differ.             *)
(***************************************************************************)
EXTENDS CommandTree, FiniteSetsExt

CONSTANT MaxLoads    \* bound on the number of loads

VARIABLES
  loaded,      \* module -> the number of its load, 0 if not loaded
  loads,       \* loads so far
  tree,        \* irc_msg_tree
  chain,       \* callback -> its hooks, the head first
  services,    \* services_list
  commands,    \* service -> msg_tree, for services of services_list
  events,      \* events of the event table
  database,    \* the module the pointer of dbm.c is to
  clients,     \* services that have a client in the network
  protocolMoved  \* history: irc was loaded or unloaded after oftc was loaded

vars == <<loaded, loads, tree, chain, services, commands, events, database, clients, protocolMoved>>

Server == <<"S", "E">>
Sjoin == <<"S", "J">>
Sid == <<"S", "I">>
Eob == <<"E">>

-----------------------------------------------------------------------------
(* What INIT_MODULE enters and CLEANUP_MODULE removes: messages, hooks and  *)
(* the hooks it leaves, commands, events, and whether the Service leaves    *)
(* services_list and its client the network.                                *)

Plain == [messages |-> {}, hooks |-> {}, left |-> {}, commands |-> <<>>, event |-> FALSE,
          delisted |-> TRUE, quits |-> TRUE, passes |-> {}]

\* The hooks that send to the network ("send" for fifteen of them) stay.
Irc == [Plain EXCEPT !.messages = {Server, Sjoin, Eob},
                     !.hooks = {"connected", "newuser", "send"}, !.left = {"newuser", "send"}]

\* send_nick_cb and send_chops_notice_cb ("svsnick") stay.
Oftc == [Plain EXCEPT !.messages = {Server, Sid, Eob},
                      !.hooks = {"connected", "newuser", "svsnick", "identify"},
                      !.left = {"svsnick"}, !.passes = {"identify"}]

\* The Service stays in services_list, as that of GroupServ does.
NickServ == [Plain EXCEPT !.hooks = {"identify", "quit"}, !.passes = {"identify", "quit"},
                          !.commands = << <<"I", "D">>, <<"I", "D", "E">>, <<"I", "N">> >>,
                          !.event = TRUE, !.delisted = FALSE]

\* INVITE is entered twice.
ChanServ == [Plain EXCEPT !.hooks = {"join"}, !.passes = {"join"},
                          !.commands = << <<"I", "N", "V">>, <<"I", "N", "F">>, <<"I", "N", "V">> >>,
                          !.event = TRUE]

\* fs_on_chan_drop stays.
FloodServ == [Plain EXCEPT !.hooks = {"join", "drop"}, !.left = {"drop"},
                           !.passes = {"join", "drop"}, !.commands = << <<"H">> >>, !.event = TRUE]

Modules == {"irc", "oftc", "nickserv", "chanserv", "floodserv", "pgsql"}
Of(m) == CASE m = "irc" -> Irc [] m = "oftc" -> Oftc [] m = "nickserv" -> NickServ
           [] m = "chanserv" -> ChanServ [] m = "floodserv" -> FloodServ [] m = "pgsql" -> Plain

IsService(m) == Of(m).commands # <<>>
Callbacks == UNION {Of(m).hooks : m \in Modules}

-----------------------------------------------------------------------------
(* Callback chains *)

\* Mutant: hooks are called in the order in which they were installed.
InstallHooksMutant(c, m, v) ==
  [cb \in Callbacks |-> IF cb \in Of(m).hooks THEN Append(c[cb], v) ELSE c[cb]]

\* install_hook puts the new hook first.
InstallHooks(c, m, v) == [cb \in Callbacks |-> IF cb \in Of(m).hooks THEN <<v>> \o c[cb] ELSE c[cb]]

\* Mutant: CLEANUP of a module leaves all its hooks.
UninstallHooksMutant(c, m) == c

\* uninstall_hook, for the hooks CLEANUP names: dlinkFind by address.
UninstallHooks(c, m) ==
  [cb \in Callbacks |->
     IF cb \in Of(m).hooks \ Of(m).left
     THEN RemoveFirst(c[cb], <<m, loaded[m]>>) ELSE c[cb]]

\* execute_callback and pass_callback: the head, and on while hooks pass.
Called(c, cb) ==
  {c[cb][i] : i \in {i \in 1..Len(c[cb]) : \A j \in 1..(i - 1) : cb \in Of(c[cb][j][1]).passes}}

-----------------------------------------------------------------------------
(* src/conf/modules.c; the state without a module and with a load of it *)

\* The tables of a state, so that MOD RELOAD can unload and load in one step.
Now == [loaded |-> loaded, tree |-> tree, chain |-> chain, services |-> services,
        commands |-> commands, events |-> events, clients |-> clients]

\* The messages and commands INIT_MODULE enters one by one, and the messages
\* CLEANUP_MODULE deletes.
AddMessages(t, m, v) == FoldSet(LAMBDA w, u : ModAddCmd(u, w, v), t, Of(m).messages)
DelMessages(t, m) == FoldSet(LAMBDA w, u : ModDelCmd(u, w), t, Of(m).messages)
NewCommands(m, v) == FoldLeft(LAMBDA t, w : ModAddServcmd(t, w, v), EmptyTree, Of(m).commands)

\* load_shared_module, init_module, INIT_MODULE
Load(s, m, v) ==
  [s EXCEPT
     !.loaded[m] = v[2],
     !.tree = AddMessages(@, m, v),
     !.chain = InstallHooks(@, m, v),
     !.services = IF IsService(m) THEN @ \cup {v} ELSE @,
     !.commands = IF IsService(m)
                  THEN [w \in DOMAIN @ \cup {v} |-> IF w = v THEN NewCommands(m, v) ELSE @[w]]
                  ELSE @,
     !.events = IF Of(m).event THEN @ \cup {v} ELSE @,
     !.clients = IF IsService(m) THEN @ \cup {m} ELSE @]

\* unload_module, CLEANUP_MODULE
Unload(s, m) ==
  LET v == <<m, s.loaded[m]>>
      kept == IF Of(m).delisted THEN s.services \ {v} ELSE s.services
  IN  [s EXCEPT
        !.loaded[m] = 0,
        !.tree = DelMessages(@, m),
        !.chain = UninstallHooks(@, m),
        !.services = kept,
        !.commands = [w \in kept |-> IF w = v THEN ServClearMessages(@[w]) ELSE @[w]],
        !.events = @ \ {v},
        !.clients = IF Of(m).quits THEN @ \ {m} ELSE @]

Becomes(s) ==
  /\ loaded' = s.loaded /\ tree' = s.tree /\ chain' = s.chain /\ services' = s.services
  /\ commands' = s.commands /\ events' = s.events /\ clients' = s.clients

Moved(m, on) ==
  protocolMoved' = CASE m = "irc" -> TRUE [] m = "oftc" -> ~on [] OTHER -> protocolMoved

NewLoad == loads < MaxLoads /\ loads' = loads + 1

\* boot_modules: first irc, then oftc, then the services and the database.
BootOrder == <<"pgsql", "irc", "oftc", "nickserv", "chanserv", "floodserv">>

Blank ==
  [loaded |-> [m \in Modules |-> 0], tree |-> EmptyTree, chain |-> [cb \in Callbacks |-> <<>>],
   services |-> {}, commands |-> <<>>, events |-> {}, clients |-> {}]

Init ==
  /\ loaded = Blank.loaded /\ tree = Blank.tree /\ chain = Blank.chain
  /\ services = Blank.services /\ commands = Blank.commands /\ events = Blank.events
  /\ clients = Blank.clients
  /\ loads = 0 /\ database = <<>> /\ protocolMoved = FALSE

\* One step of boot_modules; init_db loads the database module.
Boot ==
  /\ loads < Len(BootOrder)
  /\ loads' = loads + 1
  /\ LET m == BootOrder[loads']
     IN  /\ Becomes(Load(Now, m, <<m, loads'>>))
         /\ database' = IF m = "pgsql" THEN <<m, loads'>> ELSE database
         /\ Moved(m, TRUE)

Running == loads >= Len(BootOrder)

-----------------------------------------------------------------------------
(* OperServ, which cannot reload itself, and crashes if it unloads itself *)

ModLoad(m) ==
  /\ Running /\ loaded[m] = 0
  /\ NewLoad
  /\ Becomes(Load(Now, m, <<m, loads'>>))
  /\ Moved(m, TRUE)
  /\ UNCHANGED database

ModUnload(m) ==
  /\ Running /\ loaded[m] # 0
  /\ Becomes(Unload(Now, m))
  /\ Moved(m, FALSE)
  /\ UNCHANGED <<loads, database>>

\* MOD RELOAD with the name of the module: ".so" is appended.
ModReload(m) ==
  /\ Running /\ loaded[m] # 0
  /\ NewLoad
  /\ Becomes(Load(Unload(Now, m), m, <<m, loads'>>))
  /\ Moved(m, TRUE)
  /\ UNCHANGED database

\* MOD RELOAD with the name of the file: ".so" is appended to that, too, so the
\* module is found and unloaded and then not found.
ModReloadFile(m) == ModUnload(m)

\* The uplink is back: irc_server_connected or oftc_server_connected, whichever
\* is first, introduces what is in services_list.
Connected ==
  /\ Running /\ chain["connected"] # <<>>
  /\ clients' = {v[1] : v \in services}
  /\ UNCHANGED <<loaded, loads, tree, chain, services, commands, events, database, protocolMoved>>

Next ==
  \/ Boot \/ Connected
  \/ \E m \in Modules : ModLoad(m) \/ ModUnload(m) \/ ModReload(m) \/ ModReloadFile(m)

Spec == Init /\ [][Next]_vars

-----------------------------------------------------------------------------
Live(v) == v # <<>> /\ loaded[v[1]] = v[2]

\* The tries are well-formed after any sequence of loads, so that no node is
\* freed early or leaked, HELP lists what can be called, and the command of a
\* service is found exactly while the service is loaded.
\* (add_msg_element, del_msg_element, mod_add_servcmd, serv_clear_messages)
TreesAreSound ==
  /\ WellFormed(tree)
  /\ \A v \in services :
       /\ Live(v) => WellFormed(commands[v]) /\ Listed(commands[v]) = {v}
       /\ \A w \in ToSet(Of(v[1]).commands) :
            FindMsg(commands[v], w) = IF Live(v) THEN v ELSE Nothing

\* Nothing that will be called points into a module that is gone, except: what
\* services send while irc or oftc is not loaded, the DROP of a channel after
\* FloodServ was unloaded once, and the database once its module was.
\* (the CLEANUP_MODULE functions, unload_module, pass_callback)
CallsAreLive ==
  /\ \A cb \in Callbacks : \A v \in Called(chain, cb) :
       Live(v) \/ cb = "drop" \/ (cb \in Of(v[1]).left /\ loaded[v[1]] = 0)
  /\ \A v \in events : Live(v)
  /\ \A w \in DOMAIN tree : tree[w].msg # Nothing => Live(tree[w].msg)
  /\ \A v \in services : Live(v) \/ ~Of(v[1]).delisted

\* The protocol of oftc extends that of irc: SERVER, EOB, the greeting and the
\* introduction of services are oftc's, as long as irc was not loaded later.
\* (mod_add_cmd, mod_del_cmd, install_hook, core_modules)
ProtocolIsOftc ==
  Running /\ loaded["oftc"] # 0 /\ ~protocolMoved =>
    /\ \A w \in Oftc.messages : FindMsg(tree, w) = <<"oftc", loaded["oftc"]>>
    /\ \A cb \in Oftc.hooks \ Oftc.passes : Head(chain[cb]) = <<"oftc", loaded["oftc"]>>

Table == INSTANCE ModuleTable WITH
  Names <- LAMBDA m : Of(m).messages,
  AllNames <- Irc.messages \cup Oftc.messages,
  Versions <- 1..(MaxLoads + Len(BootOrder)),
  table <- [w \in Irc.messages \cup Oftc.messages |-> FindMsg(tree, w)]

\* The trie is the table of messages it stands for.
\* (mod_add_cmd, mod_del_cmd, find_command)
TreeIsTable == Table!Spec
=============================================================================
