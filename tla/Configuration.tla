--------------------------- MODULE Configuration ---------------------------
(***************************************************************************)
(* The configuration manager: a file of blocks is read in two passes, at    *)
(* the start and again in the main loop once SIGHUP has set dorehash; hooks *)
(* reset what they own before the passes and verify it after them.  The     *)
(* administrator writes the file and sends SIGHUP whenever he likes, also   *)
(* between the passes.  A text is a sequence of blocks, a block a section   *)
(* with its items; each pass reads the file as it finds it.  Strings stand  *)
(* for the values, "" for an empty string or the number 0.                  *)
(***************************************************************************)
EXTENDS Naturals, FiniteSets, Sequences, SequencesExt

CONSTANTS
  Texts,      \* what the file may hold: [section, value, items], items of [field, type, v]
  OnDisk,     \* the modules that can be loaded
  Start       \* the texts of the start

VARIABLES
  file,       \* its text, or Unreadable
  opened,     \* the text that conf_curctx.f reads
  dorehash,
  doing,      \* how far main and read_services_conf are
  conf_cold,
  conf,       \* the settings, and whether services_die was called
  loaded,     \* loaded_modules
  tor,        \* the file that the list of tor nodes was read from
  seen,       \* history: the texts of the last two passes
  born        \* history: the text of the first pass of the start

vars == <<file, opened, dorehash, doing, conf_cold, conf, loaded, tor, seen, born>>

Unreadable == <<[section |-> "no file", value |-> FALSE, items |-> <<>>]>>
Null == "NULL"
Bad == "bad"          \* what a handler refuses: a long name, no SID, no address, no directory

-----------------------------------------------------------------------------
(* The sections and their fields.                                          *)

Sections == {"servicesinfo", "service", "modules", "connect", "database", "mail", "logging"}

\* add_conf_section: the pass that reads the section
Pass(s) == IF s \in {"servicesinfo", "service", "modules"} THEN 1 ELSE 2

Name == <<"servicesinfo", "name">>
Sid == <<"servicesinfo", "sid">>
LogPath == <<"logging", "logpath">>
Levels == {<<"logging", "gnotice_log_level">>, <<"logging", "file_log_level">>}
Vhosts == {<<"servicesinfo", "vhost">>, <<"servicesinfo", "vhost6">>}
TorList == <<"servicesinfo", "tor_list_fname">>
ModuleFields == {<<"modules", "path">>, <<"modules", "module">>}
ServiceFields == {<<"service", "name">>, <<"service", "module">>}
Times == {<<"servicesinfo", "default_akill_duration">>, <<"servicesinfo", "default_forbid_duration">>,
          <<"mail", "expire_time">>}
Numbers == {<<"servicesinfo", "min_nonwildcard">>, <<"connect", "port">>, <<"database", "port">>}
UseLogging == <<"logging", "use_logging">>
LogFiles == {"logging"} \X {"fname_sqllog", "fname_serviceslog", "fname_debuglog", "fname_parselog"}

\* Character arrays, which are never NULL
Arrays == {Name, Sid, <<"servicesinfo", "description">>, TorList, <<"servicesinfo", "default_cloak">>}

\* Strings that conf_assign_string allocates
Pointers ==
  {<<"servicesinfo", "hmac_secret">>} \cup ServiceFields
  \cup ({"connect"} \X {"host", "name", "protocol", "password"})
  \cup ({"database"} \X {"driver", "dbname", "username", "password", "hostname"})
  \cup ({"mail"} \X {"command", "from_address"})

Fields == Arrays \cup Pointers \cup Vhosts \cup Times \cup Numbers \cup Levels
          \cup LogFiles \cup ModuleFields \cup {UseLogging, LogPath}

\* add_conf_field
FieldType(f) ==
  IF f \in Numbers THEN "NUMBER" ELSE IF f \in Times THEN "TIME"
  ELSE IF f \in Levels THEN "LIST" ELSE IF f = UseLogging THEN "BOOL" ELSE "STRING"

\* What the hooks of reset_conf clear; the lists of services and modules too.
\* Those of connect{}, database{} and mail{} clear nothing.
ResetServicesInfo == {TorList} \cup Vhosts
ResetLogging == {UseLogging} \cup Levels \cup LogFiles
Reset == ResetServicesInfo \cup ResetLogging

\* use_logging and the levels have a default, which "" stands for here.
Unset(f) == IF f \in Pointers THEN Null ELSE ""

Fresh ==
  [set |-> [f \in Fields |-> Unset(f)], services |-> <<>>, paths |-> <<>>, extra |-> <<>>,
   hashed |-> 0, end |-> ""]

Die(c, why) == [c EXCEPT !.end = why]

\* Mutant: the whole of ServicesInfo is cleared.
ResetConfMutant(c) ==
  [c EXCEPT !.set = [f \in Fields |-> IF f \in Reset \/ f[2] = "hmac_secret" THEN Unset(f) ELSE c.set[f]],
            !.services = <<>>, !.paths = <<>>, !.extra = <<>>]

\* reset_service
WithoutServices(c) == [c EXCEPT !.services = <<>>]

\* The hooks of reset_conf.
ResetConf(c) ==
  [WithoutServices(c) EXCEPT !.set = [f \in Fields |-> IF f \in Reset THEN Unset(f) ELSE c.set[f]],
                             !.paths = <<>>, !.extra = <<>>]

\* What the handlers of the fields refuse, with parse_error
Refused(f, v) == v = Bad /\ f \in Vhosts \cup Levels \cup {Sid, <<"modules", "path">>}

\* Mutant: the name may change with a reload.
KeepsMutant(f, v, cold) == Refused(f, v)

\* The name and the SID are those of the start.
Keeps(f, v, cold) == Refused(f, v) \/ (f \in {Name, Sid} /\ ~cold)

\* The handler of a field; "logpath" is a string with nowhere to put it.
Handle(c, cold, f, v) ==
  CASE Keeps(f, v, cold) -> c
    [] f = LogPath -> Die(c, "crashed")
    [] f = Name /\ v = Bad -> Die(c, "name")
    [] f = <<"modules", "path">> -> [c EXCEPT !.paths = Append(@, v)]
    [] f = <<"modules", "module">> -> [c EXCEPT !.extra = Append(@, v)]
    [] OTHER -> [c EXCEPT !.set[f] = v]

Fits(f, type) == type = FieldType(f) \/ (type = "NUMBER" /\ FieldType(f) = "TIME")

\* Mutant: a value of any type
ConfAssignMutant(c, cold, f, item) ==
  IF c.end # "" \/ f \notin Fields THEN c ELSE Handle(c, cold, f, item.v)

\* find_conf_field and conf_assign
ConfAssign(c, cold, f, item) ==
  IF c.end # "" \/ f \notin Fields \/ ~Fits(f, item.type) THEN c ELSE Handle(c, cold, f, item.v)

\* before_service
Before(c, s) ==
  IF s # "service" THEN c
  ELSE [c EXCEPT !.set = [f \in Fields |-> IF f \in ServiceFields THEN Null ELSE c.set[f]]]

\* after_service, which puts the service before the others, and after_servicesinfo
After(c, cold, s) ==
  LET new == [name |-> c.set[<<"service", "name">>], module |-> c.set[<<"service", "module">>]]
  IN  CASE c.end # "" -> c
        [] s = "service" /\ Null \in {new.name, new.module} -> Die(c, "service")
        [] s = "service" -> [Before(c, s) EXCEPT !.services = <<new>> \o @]
        [] s = "servicesinfo" /\ cold -> [c EXCEPT !.hashed = @ + 1]
        [] OTHER -> c

\* Mutant: the second pass reads every section.
ReadsMutant(s, pass) == Pass(s) <= pass

Reads(s, pass) == Pass(s) = pass

\* conf_block: a section that is not known has no fields; a value after its
\* name is looked for in it.
ReadBlock(c, cold, pass, b) ==
  IF c.end # "" THEN c
  ELSE IF b.section \notin Sections THEN IF b.value THEN Die(c, "crashed") ELSE c
  ELSE IF ~Reads(b.section, pass) THEN c
  ELSE LET Assign(d, item) == ConfAssign(d, cold, <<b.section, item.field>>, item)
       IN  After(FoldLeft(Assign, Before(c, b.section), b.items), cold, b.section)

\* yyparse
Parse(c, cold, pass, text) ==
  LET Block(d, b) == ReadBlock(d, cold, pass, b) IN FoldLeft(Block, c, text)

\* What the hooks of verify_conf ask for: of the secret and of connect{} that
\* they are there, of the others that they are not empty.
ConnectNeeds == {"connect"} \X {"name", "host", "port", "protocol", "password"}
DatabaseNeeds == {"database"} \X {"driver", "dbname", "username"}
MailNeeds == {"mail"} \X {"command", "from_address"}
NeedsText == {Name, <<"servicesinfo", "description">>, <<"connect", "port">>} \cup DatabaseNeeds \cup MailNeeds
Needed == NeedsText \cup ConnectNeeds \cup {<<"servicesinfo", "hmac_secret">>}

\* verify_conf
Verify(c) ==
  IF \E f \in Needed : c.set[f] = Null \/ (f \in NeedsText /\ c.set[f] = "")
  THEN Die(c, "incomplete") ELSE c

-----------------------------------------------------------------------------
(* main, and the administrator.                                            *)

Alive == conf.end = ""

Init ==
  /\ file \in Start /\ opened = Unreadable /\ dorehash = FALSE
  /\ doing = "start" /\ conf_cold = TRUE /\ conf = Fresh
  /\ loaded = {} /\ tor = "" /\ seen = <<Unreadable, Unreadable>> /\ born = Unreadable

\* read_services_conf, at the start and for SIGHUP, until the first pass
ReadServicesConf ==
  /\ Alive /\ (doing = "start" \/ (doing = "loop" /\ dorehash))
  /\ IF file = Unreadable
     THEN conf' = Die(conf, "unopened") /\ UNCHANGED <<opened, doing, conf_cold>>
     ELSE /\ conf' = ResetConf(conf) /\ opened' = file
          /\ doing' = "first" /\ conf_cold' = (doing = "start")
  /\ UNCHANGED <<file, dorehash, loaded, tor, seen, born>>

FirstPass ==
  /\ Alive /\ doing = "first"
  /\ conf' = Parse(conf, conf_cold, 1, opened)
  /\ doing' = "second" /\ seen' = [seen EXCEPT ![1] = opened]
  /\ born' = IF conf_cold THEN opened ELSE born
  /\ UNCHANGED <<file, opened, dorehash, conf_cold, loaded, tor>>

SecondPass ==
  /\ Alive /\ doing = "second"
  /\ conf' = Parse(conf, conf_cold, 2, opened)
  /\ doing' = "verify" /\ seen' = [seen EXCEPT ![2] = opened]
  /\ UNCHANGED <<file, opened, dorehash, conf_cold, loaded, tor, born>>

\* verify_conf and config_loaded; a SIGHUP that came meanwhile is forgotten.
Finish ==
  /\ Alive /\ doing = "verify"
  /\ conf' = Verify(conf)
  /\ tor' = IF Verify(conf).end = "" /\ conf.set[TorList] \notin {"", Bad} THEN conf.set[TorList] ELSE tor
  /\ doing' = IF conf_cold THEN "boot" ELSE "loop"
  /\ dorehash' = (conf_cold /\ dorehash)
  /\ UNCHANGED <<file, opened, conf_cold, loaded, seen, born>>

\* load_module, for a module that the paths of modules{} have
Found(m) == conf.paths # <<>> /\ m \in OnDisk

\* connect_server
ConnectServer(c, modules) ==
  IF c.set[<<"connect", "protocol">>] \in modules THEN c ELSE Die(c, "protocol")

\* init_db, which does not ask whether a hostname was given, boot_modules and
\* connect_server.
Boot ==
  /\ Alive /\ doing = "boot"
  /\ LET driver == conf.set[<<"database", "driver">>]
         services == {conf.services[i].module : i \in DOMAIN conf.services}
         extra == {conf.extra[i] : i \in DOMAIN conf.extra}
     IN  IF ~Found(driver) \/ conf.set[<<"database", "hostname">>] = Null
         THEN conf' = Die(conf, "database") /\ UNCHANGED <<doing, loaded>>
         ELSE /\ loaded' = {"irc", "oftc", driver} \cup (services \cap OnDisk) \cup {m \in extra : Found(m)}
              /\ conf' = ConnectServer(conf, loaded') /\ doing' = "loop"
  /\ UNCHANGED <<file, opened, dorehash, conf_cold, tor, seen, born>>

\* try_reconnect, whenever the uplink was lost
Reconnect ==
  /\ Alive /\ doing = "loop"
  /\ conf' = ConnectServer(conf, loaded)
  /\ UNCHANGED <<file, opened, dorehash, doing, conf_cold, loaded, tor, seen, born>>

\* The administrator writes the file anew, or over what is being read.
Edit(t) ==
  /\ Alive /\ file' = t
  /\ opened' \in {opened} \cup (IF t # Unreadable /\ doing \in {"first", "second"} THEN {t} ELSE {})
  /\ UNCHANGED <<dorehash, doing, conf_cold, conf, loaded, tor, seen, born>>

\* signal_handler
Sighup ==
  /\ Alive /\ dorehash' = TRUE
  /\ UNCHANGED <<file, opened, doing, conf_cold, conf, loaded, tor, seen, born>>

Main == ReadServicesConf \/ FirstPass \/ SecondPass \/ Finish \/ Boot

Next == Main \/ Reconnect \/ Sighup \/ \E t \in Texts \cup {Unreadable} : Edit(t)

-----------------------------------------------------------------------------
(* Properties.                                                             *)

Running == Alive /\ doing = "loop"

\* The places of a text that give the field f a value it accepts, in order
Places(text, f) ==
  {p \in UNION {{b} \X DOMAIN text[b].items : b \in DOMAIN text} :
     LET item == text[p[1]].items[p[2]]
     IN  /\ <<text[p[1]].section, item.field>> = f
         /\ Fits(f, item.type) /\ ~Refused(f, item.v)}

\* The last value that a text gives the field
GivenLast(text, f) ==
  LET p == CHOOSE p \in Places(text, f) :
             \A q \in Places(text, f) : q[1] < p[1] \/ (q[1] = p[1] /\ q[2] <= p[2])
  IN  text[p[1]].items[p[2]].v

\* A process that runs has of each field what the file gave it last when it was
\* read, the name and the SID as the start found them; what the file leaves out
\* is cleared where a hook clears it (read_services_conf, conf_assign).
TakenFromFile ==
  Running =>
    \A f \in Fields \ (ServiceFields \cup ModuleFields) :
      LET text == IF f \in {Name, Sid} THEN born ELSE seen[Pass(f[1])]
      IN  IF Places(text, f) # {} THEN conf.set[f] = GivenLast(text, f)
          ELSE f \in Reset => conf.set[f] = Unset(f)

\* Each service and each path is there once, as its block says, the services in
\* reverse (after_service, mod_add_path).
ListsFromFile ==
  Running =>
    LET text == seen[1]
        blocks == {b \in DOMAIN text : text[b].section = "service"}
    IN  /\ Len(conf.services) = Cardinality(blocks)
        /\ \A b \in blocks :
             LET rest == {k \in blocks : k > b}
                 sc == conf.services[Cardinality(rest) + 1]
                 one == <<text[b]>>
             IN  sc.name = GivenLast(one, <<"service", "name">>) /\ sc.module = GivenLast(one, <<"service", "module">>)
        /\ Len(conf.paths) = Cardinality(Places(text, <<"modules", "path">>))
        /\ Len(conf.extra) = Cardinality(Places(text, <<"modules", "module">>))

\* A reload takes nothing away that the start demanded, not even while it reads
\* (the hooks of reset_conf): mails, links and certificates always find it.
NothingMissing ==
  Alive /\ (doing \in {"loop", "boot"} \/ ~conf_cold) =>
    \A f \in Needed : conf.set[f] # Null

\* A reload ends services only for a file that cannot be opened, half a service,
\* an empty value or the errors of the parser named here, and a later connection
\* for a protocol that no module speaks (parse_fatal).
DiesOnlyFor ==
  born # Unreadable =>
    /\ (conf.end = "incomplete" /\ ~conf_cold) => \E f \in NeedsText : conf.set[f] = ""
    /\ conf.end = "crashed" =>
         \E p \in {1, 2}, b \in DOMAIN opened :
           \/ opened[b].section \notin Sections /\ opened[b].value
           \/ Places(opened, LogPath) # {}
    /\ conf.end = "name" => conf_cold

\* Services are in the table of clients once, however often they read the file;
\* but if that of the start has two servicesinfo{}, their entry follows itself
\* there (after_servicesinfo, hash_add_client).
HashedOnce ==
  Running => conf.hashed = Cardinality({b \in DOMAIN born : born[b].section = "servicesinfo"})

\* The settings of a process are those of the file it read.
SettingsAreRead == TakenFromFile /\ ListsFromFile /\ NothingMissing /\ DiesOnlyFor /\ HashedOnce
=============================================================================
