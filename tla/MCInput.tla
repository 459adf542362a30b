------------------------------ MODULE MCInput ------------------------------
(* What services read that others wrote: a behaviour is the reading of one   *)
(* name in a message of the resolver, of one mask, or of the configuration.  *)
EXTENDS Integers, Sequences

CONSTANTS
  Bytes, Size, MaxName, Letters, MaxText,                        \* DnsNames
  MaskBytes, NameBytes, MaxMask, MaxMasked, NuhBytes, MaxNuh, NickSize, UserSize, HostSize,
  NormalSize, Compared, V4Numbers, V4Lengths, V6Words, V6Lengths, Flips,   \* Masks
  Texts, OnDisk, Start                                           \* Configuration

VARIABLES part,
  text, msg, src, out,                                   \* DnsNames
  input, verdict,                                        \* Masks
  file, opened, dorehash, doing, conf_cold, conf, loaded, tor, seen, born   \* Configuration

dvars == <<text, msg, src, out>>
mvars == <<input, verdict>>
cvars == <<file, opened, dorehash, doing, conf_cold, conf, loaded, tor, seen, born>>

D == INSTANCE DnsNames
C == INSTANCE Configuration
M == INSTANCE Masks WITH out <- verdict, MaxName <- MaxMasked, Letters <- Compared

MCV4Numbers == {-1, 129, 265}
MCV4Lengths == {-1, -2, 0, 1, 9, 16, 31, 32, 33}
MCV6Words == {-1, 0, 8193, 2049}
MCV6Lengths == {-1, -2, 0, 4, 16, 20, 36, 48, 64, 128, 129}
MCFlips == {-1, 0, 4, 15, 16, 21, 31, 47, 127}

\* Files of the configuration manager: a sound one and what is changed in it.
Set(field, v) == [field |-> field, type |-> "STRING", v |-> v]
Block(section, items) == [section |-> section, value |-> FALSE, items |-> items]
Info(name, secret) ==
  Block("servicesinfo", <<Set("name", name), Set("sid", "1AA"), Set("description", "d"), Set("hmac_secret", secret)>>)
Driver(v) == Block("database",
  <<Set("driver", "pgsql"), Set("driver", v), Set("dbname", "d"), Set("username", "u"), Set("hostname", "h")>>)
Link(protocol) == Block("connect",
  <<Set("name", "hub"), Set("host", "h"), [field |-> "port", type |-> "NUMBER", v |-> "1"],
    Set("protocol", protocol), Set("password", "p")>>)
Mail == Block("mail",
  <<Set("command", "c"), Set("from_address", "f"), [field |-> "expire_time", type |-> "NUMBER", v |-> "1"]>>)
Log == Block("logging", <<Set("fname_sqllog", "l"), Set("use_logging", "on")>>)
Modules == Block("modules", <<Set("path", "bad"), Set("path", "lib"), Set("module", "bopm")>>)
Service(m) == Block("service", <<Set("name", m), Set("module", m)>>)

Sound == <<Info("n1", "s1"), Modules, Service("nickserv"), Service("chanserv"), Driver("pgsql"), Link("oftc"), Mail>>
Other == <<Info("n2", "s2"), Block("servicesinfo", <<Set("tor_list_fname", "t"), Set("nonsense", "x")>>), Modules,
           Service("chanserv"), Log, Link("bopm")>>
Faulty == {
  <<Info("bad", "s1"), Driver("")>>, <<Block("service", <<Set("name", "nickserv")>>)>>,
  <<Block("logging", <<Set("logpath", "l")>>)>>, <<[section |-> "oper", value |-> TRUE, items |-> <<>>]>>,
  <<Block("oper", <<Set("name", "o")>>), Link("hybrid")>>}
MCTexts == {Sound, Other} \cup Faulty
MCStart == {Sound, Sound \o Other, SubSeq(Sound, 1, 6)}

\* The parts that do not move stay in an initial state.
MCInit ==
  /\ part \in {"names", "masks", "settings"}
  /\ IF part = "names" THEN D!Init
     ELSE text = D!NoText /\ msg = <<>> /\ src = 0 /\ out = D!Unread
  /\ IF part = "masks" THEN M!Init ELSE input = <<>> /\ verdict = M!Unread
  /\ IF part = "settings" THEN C!Init
     ELSE /\ file = <<>> /\ opened = <<>> /\ dorehash = FALSE /\ doing = "start" /\ conf_cold = TRUE
          /\ conf = <<>> /\ loaded = {} /\ tor = "" /\ seen = <<>> /\ born = <<>>

MCNext ==
  /\ part' = part
  /\ \/ part = "names" /\ D!Next /\ UNCHANGED <<mvars, cvars>>
     \/ part = "masks" /\ M!Next /\ UNCHANGED <<dvars, cvars>>
     \/ part = "settings" /\ C!Next /\ UNCHANGED <<dvars, mvars>>

MCSpec == MCInit /\ [][MCNext]_<<part, dvars, mvars, cvars>>

-----------------------------------------------------------------------------
\* A name is returned as it is in the message, and every sound one is returned;
\* a mask matches whom it says; and the settings are those of the file (see
\* DnsNames, Masks and Configuration).
InputIsRead ==
  /\ part = "names" => D!NamesAreRead
  /\ part = "masks" => M!MasksMatchWhomTheySay
  /\ part = "settings" => C!SettingsAreRead
=============================================================================
