------------------------------ MODULE Channels ------------------------------
(***************************************************************************)
(* The channels of the network as services see them (src/channel.c), with  *)
(* what ChanServ and FloodServ attach to a channel: its registration, the  *)
(* lists of channels with AUTOLIMIT and EXPIREBANS, FloodServ's own        *)
(* membership and its tables.  A channel lives while it has members, and   *)
(* nearly every handler here may remove the last one in a callback.        *)
(*                                                                         *)
(* One handler is one step, with the callbacks it runs: services have one  *)
(* thread.  FloodServ is loaded after ChanServ, so its hooks run first.    *)
(* Touching freed memory or a null pointer stops the model (aborted).      *)
(***************************************************************************)
EXTENDS Integers, FiniteSets

CONSTANTS
  Chans,      \* channel names
  Users,      \* users on other servers
  Gods,       \* the users that kick_user does not kick (umode G)
  None,       \* no registration
  NoChan,     \* no struct Channel for a name
  DbErrors,   \* a query may fail
  Reloads,    \* an operator may unload and load FloodServ
  MaxFs,      \* bound of the memberships of FloodServ in one channel
  MaxEntries  \* bound of the entries of one channel in one list

Flags == {"autolimit", "expirebans", "floodserv"}
Lists == {"limit", "expireban"}

\* struct Channel, as far as it matters here.
Channel == [members : SUBSET Users, fs : Nat, reg : (SUBSET Flags) \cup {None}, flood : BOOLEAN]

ASSUME ChannelAssumption ==
  /\ Gods \subseteq Users
  /\ IsFiniteSet(Users)
  /\ DbErrors \in BOOLEAN /\ Reloads \in BOOLEAN
  /\ MaxFs \in Nat \ {0} /\ MaxEntries \in Nat \ {0}
  /\ \A set \in SUBSET Flags : set # None
  /\ NoChan \notin Channel

VARIABLES
  chan,        \* struct Channel: remote members, memberships of FloodServ,
               \* regchan (its flags) and whether regchan has a flood_hash
  row,         \* the flags of the channel's row, None when not registered
  forbidden,   \* names in forbidden_channel
  entries,     \* entries of each live channel in channel_limit_list and
               \* channel_expireban_list
  dangling,    \* the lists with an entry for a channel that was freed
  loaded,      \* FloodServ is loaded
  stale_hook,  \* on_chan_drop_cb calls a FloodServ that was unloaded
  unread,      \* history: live channels detached from their row by a failure
  orphaned,    \* history: a nickname DROP detached a channel from the list
  aborted      \* the process touched freed memory or a null pointer

vars == <<chan, row, forbidden, entries, dangling, loaded, stale_hook, unread, orphaned, aborted>>

Live(c)       == chan[c] # NoChan
\* A command about a channel works on regchan, or on the row of a channel
\* that is not on the network (handle_services_command).
Registered(c) == IF Live(c) THEN chan[c].reg # None ELSE row[c] # None

Init ==
  /\ chan = [c \in Chans |-> NoChan]
  /\ row = [c \in Chans |-> None]
  /\ forbidden = {}
  /\ entries = [l \in Lists |-> [c \in Chans |-> 0]]
  /\ dangling = {}
  /\ loaded = TRUE
  /\ stale_hook = FALSE
  /\ unread = {}
  /\ orphaned = FALSE
  /\ aborted = FALSE

-----------------------------------------------------------------------------
(* Members leave and join.                                                 *)

\* remove_user_from_channel: the last member takes the channel along.
RemoveUsers(ch, us) ==
  IF ch.members \subseteq us /\ ch.fs = 0
    THEN NoChan
    ELSE [ch EXCEPT !.members = @ \ us]

\* Mutant: FloodServ leaves and keeps its tables.
PartFloodKeeps(ch) == IF ch.members = {} /\ ch.fs = 1 THEN NoChan ELSE [ch EXCEPT !.fs = @ - 1]

\* part_one_client of FloodServ: fs_on_client_part frees its tables first.
PartFlood(ch) ==
  IF ch.members = {} /\ ch.fs = 1
    THEN NoChan
    ELSE [ch EXCEPT !.fs = @ - 1, !.flood = FALSE]

Length(ch) == Cardinality(ch.members) + ch.fs

\* Mutant: the list keeps the channel.
WithoutNothing(counts, gone) == counts

\* cs_on_channel_destroy, for one list.
Without(counts, gone) == [c \in Chans |-> IF c \in gone THEN 0 ELSE counts[c]]

\* The channels become new, from lists e; those that are destroyed leave each
\* list once (cs_on_channel_destroy).
Become(new, e) ==
  LET gone == {c \in Chans : Live(c) /\ new[c] = NoChan} IN
  /\ chan' = new
  /\ entries' = [l \in Lists |-> Without(e[l], gone)]
  /\ dangling' = dangling \cup {l \in Lists : \E c \in gone : e[l][c] > 1}
  /\ unread' = unread \ gone

Becomes(c, ch) == Become([chan EXCEPT ![c] = ch], entries)

\* The process touches freed memory: nothing of the state can be relied upon.
Abort ==
  /\ aborted' = TRUE
  /\ UNCHANGED <<chan, row, forbidden, entries, dangling, loaded, stale_hook, unread, orphaned>>

\* Mutant: the join does not look for the channel on the list.
ListedAgain(c, reg) ==
  [entries EXCEPT
    !["limit"][c] = IF reg # None /\ "autolimit" \in reg THEN @ + 1 ELSE @,
    !["expireban"][c] = IF reg # None /\ "expirebans" \in reg THEN @ + 1 ELSE @]

\* cs_on_client_join, its end: the lists get the channel once.
Listed(c, reg) ==
  [entries EXCEPT
    !["limit"][c] = IF reg # None /\ "autolimit" \in reg /\ @ = 0 THEN 1 ELSE @,
    !["expireban"][c] = IF reg # None /\ "expirebans" \in reg /\ @ = 0 THEN 1 ELSE @]

\* The joins of us into channel ch: those in bad are to be kicked (forbidden
\* channel, AKICK or RESTRICTED) and do not reach the end of the callback.
Join(c, ch, us, bad) ==
  /\ (c \in forbidden => bad = us \/ DbErrors)
  /\ bad # {} => (c \in forbidden \/ ch.reg # None)
  /\ \E e \in {IF us = bad THEN entries ELSE Listed(c, ch.reg)} :
       Become([chan EXCEPT ![c] = [ch EXCEPT !.members = @ \cup (us \ (bad \ Gods))]], e)
  /\ UNCHANGED <<row, forbidden, loaded, stale_hook, orphaned, aborted>>

\* m_join of a channel services know; of another it is ignored.
JoinMessage(u, c) ==
  /\ Live(c)
  /\ u \notin chan[c].members
  /\ \E bad \in SUBSET {u} : Join(c, chan[c], {u}, bad)

\* FloodServ's own join runs the same callback: it is not kicked, but the
\* lists do not get a forbidden channel, or one with an AKICK that matches.
FloodJoin(c, reg) ==
  {entries} \cup (IF c \in forbidden /\ ~DbErrors THEN {} ELSE {Listed(c, reg)})

\* make_channel: the registration is read from its row.
MadeRegs(c) == {row[c]} \cup (IF DbErrors THEN {None} ELSE {})

\* Mutant: the test for an empty channel is dropped.
CreatedKeeps(ch) == ch

\* The end of m_sjoin: a channel without members is destroyed.
Created(ch) == IF ch.members = {} /\ ch.fs = 0 THEN NoChan ELSE ch

\* m_sjoin of a new channel.  A kick in the join callback may destroy it: the
\* next nickname makes it again, also a nickname services do not know (lost).
\* on_channel_created brings FloodServ (setup_channel).
SJoinNew(c, us, bad, lost) ==
  /\ ~Live(c)
  /\ (c \in forbidden => bad = us \/ DbErrors)
  /\ bad # {} => (c \in forbidden \/ row[c] # None)
  /\ \E reg \in MadeRegs(c), found \in MadeRegs(c) :
       LET stay  == us \ (bad \ Gods)
           made  == stay # {} \/ lost
           known == IF reg # None THEN reg ELSE found
           flood == made /\ loaded /\ known # None /\ "floodserv" \in known
           ch    == [members |-> stay, fs |-> IF flood THEN 1 ELSE 0, reg |-> reg,
                     flood |-> flood /\ reg # None]
           new   == IF made THEN Created(ch) ELSE NoChan
       IN /\ chan' = [chan EXCEPT ![c] = new]
          /\ \E e \in IF us # bad THEN {Listed(c, reg)} ELSE IF flood THEN FloodJoin(c, reg) ELSE {entries} :
               entries' = IF new # NoChan THEN e ELSE entries
          /\ unread' = IF new # NoChan /\ reg # row[c] THEN unread \cup {c} ELSE unread
  /\ UNCHANGED <<row, forbidden, dangling, loaded, stale_hook, orphaned, aborted>>

\* m_sjoin of a channel that exists.
SJoinMore(c, us, bad) ==
  /\ Live(c)
  /\ us \cap chan[c].members = {}
  /\ Join(c, chan[c], us, bad)

SJoin(c) ==
  \E us \in SUBSET Users : \E bad \in SUBSET us :
    \/ \E lost \in BOOLEAN : SJoinNew(c, us, bad, lost)
    \/ us # {} /\ SJoinMore(c, us, bad)

\* fs_on_client_part for another member: FloodServ does not stay alone.
FloodLeaves(ch) == ch.reg # None /\ ch.flood /\ Length(ch) <= 2 /\ ch.fs > 0

\* m_part: on_part_cb runs before it is known whether the user is a member.
PartMessage(u, c) ==
  /\ Live(c)
  /\ \E ch \in {IF FloodLeaves(chan[c]) THEN PartFlood(chan[c]) ELSE chan[c]} :
       \/ /\ u \in chan[c].members
          /\ Becomes(c, RemoveUsers(ch, {u}))
          /\ UNCHANGED <<row, forbidden, loaded, stale_hook, orphaned, aborted>>
       \/ /\ u \notin chan[c].members /\ ch # NoChan
          /\ Becomes(c, ch)
          /\ UNCHANGED <<row, forbidden, loaded, stale_hook, orphaned, aborted>>
       \* a PART that crossed a KICK: cs_on_client_part gets a freed channel
       \/ u \notin chan[c].members /\ ch = NoChan /\ Abort

\* m_kick of a user, and the kicks of ChanServ (CLEAR USERS, KICK).
KickMessage(u, c) ==
  /\ Live(c)
  /\ u \in chan[c].members
  /\ Becomes(c, RemoveUsers(chan[c], {u}))
  /\ UNCHANGED <<row, forbidden, loaded, stale_hook, orphaned, aborted>>

\* m_kick of FloodServ.
KickFlood(c) ==
  /\ Live(c)
  /\ chan[c].fs > 0
  /\ Becomes(c, PartFlood(chan[c]))
  /\ UNCHANGED <<row, forbidden, loaded, stale_hook, orphaned, aborted>>

\* exit_one_client: the user leaves every channel.
Quit(u) ==
  /\ \E c \in Chans : Live(c) /\ u \in chan[c].members
  /\ Become([c \in Chans |-> IF Live(c) /\ u \in chan[c].members
                               THEN RemoveUsers(chan[c], {u}) ELSE chan[c]], entries)
  /\ UNCHANGED <<row, forbidden, loaded, stale_hook, orphaned, aborted>>

\* CLEAR USERS.
ClearUsers(c) ==
  /\ Live(c) /\ Registered(c)
  /\ Becomes(c, RemoveUsers(chan[c], Users \ Gods))
  /\ UNCHANGED <<row, forbidden, loaded, stale_hook, orphaned, aborted>>

\* AKICK ENFORCE: the reply names the channel by the registration it had.
AkickEnforce(c, us) ==
  /\ Live(c) /\ Registered(c)
  /\ us \subseteq chan[c].members \ Gods
  /\ \E ch \in {RemoveUsers(chan[c], us)} :
       \/ /\ ch # NoChan
          /\ Becomes(c, ch)
          /\ UNCHANGED <<row, forbidden, loaded, stale_hook, orphaned, aborted>>
       \/ ch = NoChan /\ Abort

-----------------------------------------------------------------------------
(* The registration of a channel.                                          *)

\* Mutant: the live channel is not told of its registration.
RegisterDetached(u, c) ==
  /\ Live(c)
  /\ u \in chan[c].members /\ chan[c].reg = None /\ (c \notin forbidden \/ DbErrors) /\ row[c] = None
  /\ row' = [row EXCEPT ![c] = {}]
  /\ UNCHANGED <<chan, entries, dangling, unread, forbidden, loaded, stale_hook, orphaned, aborted>>

\* m_register, by a member with ops.
Register(u, c) ==
  /\ Live(c)
  /\ u \in chan[c].members
  /\ chan[c].reg = None
  /\ c \notin forbidden \/ DbErrors
  /\ row[c] = None
  /\ row' = [row EXCEPT ![c] = {}]
  /\ Becomes(c, [chan[c] EXCEPT !.reg = {}])
  /\ UNCHANGED <<forbidden, loaded, stale_hook, orphaned, aborted>>

\* fs_on_chan_drop, from dbchannel_delete: FloodServ leaves the channel.
Unwatched(ch) == IF ch # NoChan /\ loaded /\ ch.fs > 0 THEN PartFlood(ch) ELSE ch

Detached(ch) == IF ch = NoChan THEN NoChan ELSE [ch EXCEPT !.reg = None, !.flood = FALSE]

Unlist(l, c) == [entries EXCEPT ![l][c] = IF @ > 0 THEN @ - 1 ELSE 0]

\* m_drop.  When FloodServ was the last member its leaving frees the channel
\* and the registration, and both are used afterwards.
Drop(c) ==
  /\ Registered(c)
  /\ ~stale_hook
  /\ \E ch \in {Unwatched(chan[c])} :
       \/ /\ Live(c) => ch # NoChan
          /\ Become([chan EXCEPT ![c] = Detached(ch)], Unlist("expireban", c))
          /\ row' = [row EXCEPT ![c] = None]
          /\ UNCHANGED <<forbidden, loaded, stale_hook, orphaned, aborted>>
       \/ Live(c) /\ ch = NoChan /\ Abort

\* check_masterless_channels: a nickname's DROP deletes its channels.  The
\* result of the DELETE is not looked at.
NickDrop(c) ==
  /\ row[c] # None
  /\ ~stale_hook
  /\ \E deleted \in {TRUE} \cup (IF DbErrors THEN {FALSE} ELSE {}) :
       \E ch \in {IF deleted THEN Unwatched(chan[c]) ELSE chan[c]} :
         LET new == [chan EXCEPT ![c] = Detached(ch)] IN
         /\ chan' = new
         /\ entries' = [l \in Lists |-> Without(entries[l], IF ch = NoChan THEN {c} ELSE {})]
         /\ dangling' = dangling \cup {l \in Lists : ch = NoChan /\ entries[l][c] > 1}
         /\ unread' = IF ch = NoChan THEN unread \ {c}
                      ELSE IF deleted THEN unread ELSE unread \cup {c}
         /\ row' = IF deleted THEN [row EXCEPT ![c] = None] ELSE row
         /\ orphaned' = (orphaned \/ (ch # NoChan /\ entries["expireban"][c] > 0))
  /\ UNCHANGED <<forbidden, loaded, stale_hook, aborted>>

\* m_forbid: the row goes and the members are kicked, gods stay; regchan of a
\* channel that lives on is kept.  A query that does not find the row leaves
\* it; a failed transaction rolls it back, but not FloodServ's leaving.
Forbid(c) ==
  /\ c \notin forbidden
  /\ \E found \in BOOLEAN :
       /\ IF found THEN row[c] # None /\ ~stale_hook ELSE row[c] = None \/ DbErrors
       /\ \E ch \in {IF found THEN Unwatched(chan[c]) ELSE chan[c]} :
            \/ /\ Becomes(c, IF ch = NoChan THEN NoChan ELSE RemoveUsers(ch, Users \ Gods))
               /\ row' = IF found THEN [row EXCEPT ![c] = None] ELSE row
               /\ forbidden' = forbidden \cup {c}
            \/ /\ DbErrors
               /\ Becomes(c, ch)
               /\ UNCHANGED <<row, forbidden>>
  /\ UNCHANGED <<loaded, stale_hook, orphaned, aborted>>

Unforbid(c) ==
  /\ c \in forbidden
  /\ forbidden' = forbidden \ {c}
  /\ UNCHANGED <<chan, row, entries, dangling, loaded, stale_hook, unread, orphaned, aborted>>

\* dbchannel_delete with the hook of an unloaded FloodServ in the chain.
DropStaleHook(c) ==
  /\ row[c] # None \/ Registered(c)
  /\ stale_hook
  /\ Abort

\* handle_services_command attaches the row it found to a channel without
\* registration, and frees the registration the channel does not have.
AttachCrash(c) ==
  /\ Live(c)
  /\ chan[c].reg = None
  /\ row[c] # None
  /\ Abort

-----------------------------------------------------------------------------
(* SET: a flag is changed in the row, then in the registration.            *)

\* Mutant: only the row changes.
SetFlagRow(c, flag, value, set, new) ==
  LET old == IF Live(c) THEN chan[c].reg ELSE row[c] IN
  /\ set = IF value = "ON" THEN old \cup {flag} ELSE IF value = "OFF" THEN old \ {flag} ELSE old
  /\ row' = IF row[c] = None THEN row ELSE [row EXCEPT ![c] = set]
  /\ new = chan[c]

\* m_set_flag: set are the flags, new the channel afterwards.  A row that is
\* gone changes nothing, neither does a failing UPDATE or a bare SET.
SetFlag(c, flag, value, set, new) ==
  LET old == IF Live(c) THEN chan[c].reg ELSE row[c] IN
  /\ \/ /\ row[c] # None
        /\ set = IF value = "ON" THEN old \cup {flag}
                 ELSE IF value = "OFF" THEN old \ {flag} ELSE old
     \/ /\ row[c] = None \/ DbErrors
        /\ set = old
  /\ row' = IF row[c] = None THEN row ELSE [row EXCEPT ![c] = set]
  /\ new = IF Live(c) THEN [chan[c] EXCEPT !.reg = set] ELSE NoChan

Values == {"ON", "OFF", "-"}

Setting(c, flag, value, set, new) ==
  /\ Registered(c)
  /\ set \in SUBSET Flags
  /\ SetFlag(c, flag, value, set, new)
  /\ UNCHANGED <<forbidden, loaded, stale_hook, orphaned, aborted>>

News(c) == {NoChan} \cup {[chan[c] EXCEPT !.reg = set] : set \in {s \in SUBSET Flags : Live(c)}}

\* SET AUTOLIMIT: the entry is added whether or not there is one.
SetAutolimit(c, value) ==
  \E set \in SUBSET Flags, new \in News(c) :
    /\ Setting(c, "autolimit", value, set, new)
    /\ Live(c) /\ "autolimit" \in set => entries["limit"][c] < MaxEntries
    /\ Become([chan EXCEPT ![c] = new],
              IF ~Live(c) THEN entries
              ELSE IF "autolimit" \in set THEN [entries EXCEPT !["limit"][c] = @ + 1]
              ELSE Unlist("limit", c))

\* SET MLOCK with -l turns AUTOLIMIT off, and leaves the list alone.
SetMlockNoLimit(c) ==
  \E set \in SUBSET Flags, new \in News(c) :
    /\ Setting(c, "autolimit", "OFF", set, new)
    /\ Become([chan EXCEPT ![c] = new], entries)

\* SET EXPIREBANS: the list follows the change of the flag.
SetExpirebans(c, value) ==
  \E set \in SUBSET Flags, new \in News(c) :
    LET was == Live(c) /\ "expirebans" \in chan[c].reg
        is  == "expirebans" \in set
    IN
    /\ Setting(c, "expirebans", value, set, new)
    /\ ~was /\ is => entries["expireban"][c] < MaxEntries
    /\ Become([chan EXCEPT ![c] = new],
              IF ~Live(c) THEN entries
              ELSE IF ~was /\ is THEN [entries EXCEPT !["expireban"][c] = @ + 1]
              ELSE IF was /\ ~is THEN Unlist("expireban", c)
              ELSE entries)

\* SET FLOODSERV: FloodServ joins whether or not it is there already, and its
\* own join callback finds it a member and prepares nothing.
SetFloodserv(c, value) ==
  \E set \in SUBSET Flags, new \in News(c) :
    /\ Setting(c, "floodserv", value, set, new)
    /\ IF Live(c) /\ loaded /\ "floodserv" \in set
         THEN /\ new.fs < MaxFs
              /\ \E e \in FloodJoin(c, set) :
                   Become([chan EXCEPT ![c] = [new EXCEPT !.fs = @ + 1]], e)
         ELSE Become([chan EXCEPT ![c] =
                        IF Live(c) /\ loaded /\ new.fs > 0 THEN PartFlood(new) ELSE new], entries)

-----------------------------------------------------------------------------
(* The timers, and the module.                                             *)

\* Mutant: one member too few in the test.
AloneTooLate(c) == Live(c) /\ chan[c].fs > 0 /\ Length(chan[c]) = 0

\* FloodServ is the last member.
Alone(c) == Live(c) /\ chan[c].fs > 0 /\ Length(chan[c]) = 1

\* floodserv_cleanup_channels.
Cleanup ==
  /\ loaded
  /\ \E c \in Chans : Alone(c)
  /\ Become([c \in Chans |-> IF Alone(c) THEN PartFlood(chan[c]) ELSE chan[c]], entries)
  /\ UNCHANGED <<row, forbidden, loaded, stale_hook, orphaned, aborted>>

\* process_limit_list looks at the members of every channel on its list.
ProcessLimitList ==
  /\ "limit" \in dangling
  /\ Abort

\* process_expireban_list reads the lifetime from the registration of every
\* channel on its list that has a ban.
ProcessExpirebanList ==
  /\ \/ "expireban" \in dangling
     \/ \E c \in Chans : entries["expireban"][c] > 0 /\ chan[c].reg = None
  /\ Abort

\* CLEANUP_MODULE of FloodServ: its hook on on_chan_drop_cb is left behind.
Unload ==
  /\ Reloads /\ loaded
  /\ Become([c \in Chans |-> IF ~Live(c) THEN NoChan
                             ELSE IF chan[c].members = {} THEN NoChan
                             ELSE [chan[c] EXCEPT !.fs = 0, !.flood = FALSE]], entries)
  /\ loaded' = FALSE
  /\ stale_hook' = TRUE
  /\ UNCHANGED <<row, forbidden, orphaned, aborted>>

\* INIT_MODULE of FloodServ: it joins the channels that want it, which are
\* the watched ones and, unless the query fails, those with such a row.
Load ==
  \E failed \in IF DbErrors THEN SUBSET Chans ELSE {{}} :
    LET known(c) == IF ~Live(c) THEN {} ELSE IF chan[c].reg # None THEN chan[c].reg
                    ELSE IF row[c] # None /\ c \notin failed THEN row[c] ELSE {}
        wants == {c \in Chans : "floodserv" \in known(c)}
    IN
    /\ ~loaded
    /\ \E joins \in [wants -> UNION {FloodJoin(c, chan[c].reg) : c \in wants}] :
         /\ \A c \in wants : joins[c] \in FloodJoin(c, chan[c].reg)
         /\ Become([c \in Chans |-> IF c \in wants
                                      THEN [chan[c] EXCEPT !.fs = 1, !.flood = chan[c].reg # None]
                                      ELSE chan[c]],
                   [l \in Lists |-> [c \in Chans |->
                      IF c \in wants THEN joins[c][l][c] ELSE entries[l][c]]])
    /\ loaded' = TRUE
    /\ UNCHANGED <<row, forbidden, stale_hook, orphaned, aborted>>

-----------------------------------------------------------------------------

Network ==
  \/ \E c \in Chans : SJoin(c) \/ KickFlood(c)
  \/ \E c \in Chans, u \in Users : JoinMessage(u, c) \/ PartMessage(u, c) \/ KickMessage(u, c)
  \/ \E u \in Users : Quit(u)

Commands ==
  \E c \in Chans :
    \/ \E u \in Users : Register(u, c)
    \/ \E us \in SUBSET Users : AkickEnforce(c, us)
    \/ \E value \in Values : SetAutolimit(c, value) \/ SetExpirebans(c, value) \/ SetFloodserv(c, value)
    \/ SetMlockNoLimit(c) \/ ClearUsers(c)
    \/ Drop(c) \/ NickDrop(c) \/ Forbid(c) \/ Unforbid(c)
    \/ DropStaleHook(c) \/ AttachCrash(c)

Timers == Cleanup \/ ProcessLimitList \/ ProcessExpirebanList

Next == ~aborted /\ (Network \/ Commands \/ Timers \/ Unload \/ Load)

Spec == Init /\ [][Next]_vars

\* The timer of floodserv_cleanup_channels comes again every minute.
Fairness == WF_vars(~aborted /\ Cleanup)

FairSpec == Spec /\ Fairness

-----------------------------------------------------------------------------

\* Every variable has its type, and only live channels have entries.
TypeOK ==
  /\ chan \in [Chans -> Channel \cup {NoChan}]
  /\ row \in [Chans -> (SUBSET Flags) \cup {None}]
  /\ forbidden \in SUBSET Chans
  /\ entries \in [Lists -> [Chans -> Nat]]
  /\ \A l \in Lists, c \in Chans : entries[l][c] > 0 => Live(c)
  /\ dangling \in SUBSET Lists
  /\ loaded \in BOOLEAN /\ stale_hook \in BOOLEAN
  /\ unread \in SUBSET Chans
  /\ orphaned \in BOOLEAN /\ aborted \in BOOLEAN

\* No handler leaves an empty channel behind (remove_user_from_channel, the
\* end of m_sjoin): nothing would ever destroy it.
NoEmptyChannel ==
  \A c \in Chans : Live(c) => chan[c].members # {} \/ chan[c].fs > 0

\* FloodServ's tables exist only while FloodServ is on the channel and the
\* channel is registered: they are freed with every way it leaves, so that no
\* message of the channel is looked up in a table without an owner.
FloodTablesOwned ==
  \A c \in Chans : Live(c) /\ chan[c].flood => chan[c].fs > 0 /\ chan[c].reg # None

\* A live channel that is registered has its registration attached, whatever
\* created it again after a kick, unless a query failed: otherwise the next
\* command about it frees a registration that is not there.
RegisteredAttached ==
  \A c \in Chans : Live(c) /\ row[c] # None /\ c \notin unread => chan[c].reg # None

\* The registration attached to a live channel has the flags of its row.
RegistrationCurrent ==
  \A c \in Chans : Live(c) /\ row[c] # None /\ chan[c].reg # None => chan[c].reg = row[c]

\* A registered channel that exists has its registration, and with the flags of
\* its row, through every way of losing the channel and coming by it again.
RegistrationKept == RegisteredAttached /\ RegistrationCurrent

\* process_expireban_list meets only live, registered channels, each once, as
\* long as no nickname DROP detached a channel (which does not unlist it).
ExpirebansSafe ==
  ~orphaned =>
    /\ "expireban" \notin dangling
    /\ \A c \in Chans : entries["expireban"][c] > 0 =>
         /\ chan[c].reg # None
         /\ "expirebans" \in chan[c].reg
         /\ entries["expireban"][c] = 1

\* A channel that its users have left is destroyed, also when FloodServ was on
\* it (floodserv_cleanup_channels, fs_on_client_part, the unloading), provided
\* that FloodServ is there once: SET FLOODSERV can add it again.
DesertedIsDestroyed ==
  \A c \in Chans : (Live(c) /\ chan[c].members = {} /\ chan[c].fs <= 1)
                     ~> (aborted \/ ~Live(c) \/ chan[c].members # {} \/ chan[c].fs > 1)

\* SET FLOODSERV: FloodServ on a channel that wants it has the tables to detect
\* floods with.
FloodservWatches ==
  \A c \in Chans :
    Live(c) /\ chan[c].fs > 0 /\ chan[c].reg # None /\ "floodserv" \in chan[c].reg => chan[c].flood
=============================================================================
