---------------------------- MODULE ChannelMasks ----------------------------
(* The mask lists of one registered channel: +b, +e, +I and +q as services   *)
(* see them (banlist, exceptlist, invexlist, quietlist), the rows of        *)
(* channel_akick they are restored from, AKICK, RESTRICTED, AUTOSAVE and     *)
(* EXPIREBANS.  src/servicemask.c, src/akick.c, the lists of channel_mode.c  *)
(* and interface.c, and their commands in modules/chanserv.c.               *)
(*                                                                          *)
(* A mask stands for the users it matches in the names they wear.  What     *)
(* services send takes effect at once: messages that cross are the subject  *)
(* of ChannelModes.                                                         *)
EXTENDS FiniteSets, Naturals

CONSTANTS
  Users, Gods,    \* users of other servers; those kick_user does not kick
  Members,        \* users with an entry in the channel's access list
  Guises,         \* [Users -> the names a user may wear]
  Masks,          \* masks as mask_normalize leaves them
  Hits,           \* the <<mask, guise>> that match
  UserMask,       \* [Users -> Masks]: *!user@host
  Accounts,       \* accounts an AKICK may name
  NickMasks,      \* [Accounts -> SUBSET Masks]: nick!*@* of their nicknames
  PrimaryMask,    \* [Accounts -> Masks]: nick!*@* of the primary nickname
  Kinds,          \* the stored kinds of lists, a part of {"I", "e", "q"}
  MaxRows         \* bound on the rows

Lists == Kinds \cup {"b"}
Entries == Lists \X Masks
Aging == {"b", "q"}                       \* lists EXPIREBANS looks at
Flags == {"autosave", "expirebans", "restricted"}
Rows == [kind : Kinds \cup {"akick"}, mask : Masks]
        \cup [kind : {"akick"}, target : Accounts]

ASSUME MasksAssumption ==
  /\ Gods \subseteq Users /\ Members \subseteq Users
  /\ Kinds \subseteq {"I", "e", "q"}
  /\ \A u \in Users : Guises[u] # {}
  /\ Hits \subseteq Masks \X UNION {Guises[u] : u \in Users}
  /\ UserMask \in [Users -> Masks]
  /\ NickMasks \in [Accounts -> SUBSET Masks]
  /\ \A a \in Accounts : PrimaryMask[a] \in NickMasks[a]

VARIABLES
  members,   \* the channel's members; none: no such channel
  netlist,   \* the entries the network has
  list,      \* the entries services see
  old,       \* those older than the lifetime of EXPIREBANS
  row,       \* the rows of channel_akick
  flag,      \* the channel's settings that are on
  expiring,  \* the channel is on channel_expireban_list
  guise,     \* the name each user wears
  \* history
  loose,     \* entries that came while nobody saved them
  lifted,    \* entries taken off the channel whose row was kept
  renamed,   \* members that changed their name since they joined
  forgotten  \* the channel was made anew in the middle of an SJOIN

chan == << members, netlist, list, old, expiring, lifted >>
history == << loose, renamed, forgotten >>
vars == << chan, row, flag, guise, history >>

Live == members # {}
Hit(m, u) == << m, guise[u] >> \in Hits
Of(S, kinds) == {e \in S : e[1] \in kinds}
Stored == {<< r.kind, r.mask >> : r \in {x \in row : x.kind \in Kinds}}

-----------------------------------------------------------------------------
(* A channel in the middle of a handler: all of chan in a record, so that    *)
(* callbacks and loops can be composed.                                     *)

Now == [members |-> members, net |-> netlist, list |-> list, old |-> old,
        expiring |-> expiring, lifted |-> lifted]
Become(ch) ==
  /\ members' = ch.members /\ netlist' = ch.net /\ list' = ch.list
  /\ old' = ch.old \cap ch.list
  /\ expiring' = ch.expiring /\ lifted' = ch.lifted

\* add_id, del_id: the entry as services see it.
AddId(ch, S) == [ch EXCEPT !.list = @ \cup S, !.lifted = @ \ S]
DelId(ch, S) == [ch EXCEPT !.list = @ \ S, !.lifted = @ \cup (S \cap Stored)]

\* ban_mask, quiet_mask, invex_mask, except_mask and their _many.
Add(ch, S) == [AddId(ch, S) EXCEPT !.net = @ \cup S]
\* Mutant: clump_masks forgets the modes that do not fill a message.
DelMutant(ch, S) == DelId(ch, S)

\* clump_masks, as unban_mask_many and unquiet_mask_many use it; rows stay.
Del(ch, S) == [DelId(ch, S) EXCEPT !.net = @ \ S]

\* Mutant: cs_on_channel_destroy leaves the channel on channel_expireban_list.
LeaveMutant(ch, S, others) ==
  IF ch.members # {} /\ ch.members \subseteq S
  THEN [ch EXCEPT !.members = {}, !.net = IF others = {} THEN {} ELSE @, !.list = {},
                  !.old = {}, !.lifted = {}]
  ELSE [ch EXCEPT !.members = @ \ S]

\* remove_user_from_channel, destroy_channel: the last member takes the channel
\* along.  The network keeps it for the users services do not know of yet.
Leave(ch, S, others) ==
  IF ch.members # {} /\ ch.members \subseteq S
  THEN [members |-> {}, net |-> IF others = {} THEN {} ELSE ch.net, list |-> {},
        old |-> {}, expiring |-> FALSE, lifted |-> {}]
  ELSE [ch EXCEPT !.members = @ \ S]

\* kick_user
Kick(ch, S, others) == Leave(ch, S \ Gods, others)

\* akick_check_mask, akick_enforce_one: the AKICKs of a set of rows that hit a
\* user, by the masks they are set as.
AkickMask(r) == IF "mask" \in DOMAIN r THEN r.mask ELSE PrimaryMask[r.target]
AkickMasks(rows, u) == {m \in {AkickMask(r) : r \in {x \in rows : x.kind = "akick"}} : Hit(m, u)}

\* akick_check_client on a set of members: each is banned by the first AKICK
\* that hits, and kicked.  The rows are in the order of their id: any is taken.
Enforce(ch, S, rows, others) ==
  LET hit == {u \in S : AkickMasks(rows, u) # {}}
      picks == {p \in [hit -> Masks] : \A u \in hit : p[u] \in AkickMasks(rows, u)}
  IN {Kick(Add(ch, {<< "b", p[u] >> : u \in hit}), hit, others) : p \in picks}

\* RESTRICTED, in m_set_restricted and in cs_on_client_join.
Stranger(u) == u \notin Members /\ u \notin Gods
Restrict(ch, S, others) ==
  LET out == {u \in S : Stranger(u)}
  IN Kick(Add(ch, {<< "b", UserMask[u] >> : u \in out}), out, others)

\* cs_on_client_join: a user is kicked by an AKICK, or by RESTRICTED, or stays.
\* An AKICK that hits ends the handler, also for a user who is not kicked.
OnJoin(ch, u, others) ==
  LET in == [ch EXCEPT !.members = @ \cup {u}] IN
  IF AkickMasks(row, u) # {} THEN Enforce(in, {u}, row, others)
  ELSE IF "restricted" \in flag /\ Stranger(u) THEN {Restrict(in, {u}, others)}
  ELSE {[in EXCEPT !.expiring = @ \/ "expirebans" \in flag]}

\* Mutant: the stored masks are not set on a new channel.
OnCreateMutant(ch) == ch

\* cs_on_channel_create: the stored invex, quiet and except masks are set.
OnCreate(ch) == IF ch.members = {} THEN ch ELSE Add(ch, Stored)

-----------------------------------------------------------------------------
(* What comes from the network. *)

\* The channel after a handler, and the history of one that is gone.
Leaves(ch) ==
  /\ Become(ch)
  /\ loose' = loose \cap ch.list
  /\ forgotten' = (forgotten /\ ch.members # {})
  /\ renamed' = renamed \cap ch.members

\* m_join: only to a channel services know.
Join(u) ==
  /\ Live /\ u \notin members
  /\ \E ch \in OnJoin(Now, u, {}) : Leaves(ch)
  /\ UNCHANGED << row, flag, guise >>

\* m_sjoin with the users of a new channel.  When the callback for one of them
\* removes the channel it is made again for the next, and has lost its lists.
Sjoin(u, w) ==
  /\ ~Live
  /\ \E first \in OnJoin(Now, u, {w}) :
     \E ch \in IF w = u THEN {first} ELSE OnJoin(first, w, {}) :
       /\ Become(OnCreate(IF ch.members = {} THEN Leave([ch EXCEPT !.members = {u}], {u}, {}) ELSE ch))
       /\ forgotten' = (ch.members # {} /\ first.members = {})
  /\ UNCHANGED << row, flag, guise, loose, renamed >>

\* PART, QUIT, KILL, and the KICK of a user.
Part(u) ==
  /\ u \in members
  /\ Leaves(Leave(Now, {u}, {}))
  /\ UNCHANGED << row, flag, guise >>

\* NICK: neither m_nick nor ChanServ looks at the channels of the client.
Rename(u, g) ==
  /\ guise[u] # g
  /\ guise' = [guise EXCEPT ![u] = g]
  /\ renamed' = renamed \cup ({u} \cap members)
  /\ UNCHANGED << chan, row, flag, loose, forgotten >>

\* A user's MODE: chm_ban, chm_except, chm_invex, chm_quiet with add_id or
\* del_id, then cs_on_cmode_change, which saves it under AUTOSAVE.
Saved(e) == "autosave" \in flag /\ e[1] \in Kinds
RowOf(e) == [kind |-> e[1], mask |-> e[2]]

ModePlus(e) ==
  /\ Live /\ e \notin netlist /\ (Saved(e) => Cardinality(row) < MaxRows)
  /\ Become(Add(Now, {e}))
  /\ row' = IF Saved(e) THEN row \cup {RowOf(e)} ELSE row
  /\ loose' = IF Saved(e) THEN loose ELSE loose \cup {e}
  /\ UNCHANGED << flag, guise, renamed, forgotten >>

ModeMinus(e) ==
  /\ e \in netlist
  /\ row' = IF Saved(e) THEN row \ {RowOf(e)} ELSE row
  /\ Become([Del(Now, {e}) EXCEPT !.lifted = IF Saved(e) THEN @ \ {e} ELSE @])
  /\ loose' = loose \ {e}
  /\ UNCHANGED << flag, guise, renamed, forgotten >>

\* m_bmask: a server brings its list along; no callback is run.
Bmask(e) ==
  /\ Live /\ e \notin netlist
  /\ Become(Add(Now, {e}))
  /\ loose' = loose \cup {e}
  /\ UNCHANGED << row, flag, guise, renamed, forgotten >>

-----------------------------------------------------------------------------
(* Commands to ChanServ. *)

\* m_akick_enforce
AkickEnforce ==
  /\ Live
  /\ \E ch \in Enforce(Now, members, row, {}) : Leaves(ch)
  /\ UNCHANGED << row, flag, guise >>

\* Mutant: a new AKICK waits for the next join.
AkickAddMutant(r) ==
  /\ r \notin row /\ Cardinality(row) < MaxRows
  /\ row' = row \cup {r}
  /\ UNCHANGED << chan, flag, guise, history >>

\* m_akick_add: the new row is written, then every AKICK is enforced.
AkickAdd(r) ==
  /\ r \notin row /\ Cardinality(row) < MaxRows
  /\ row' = row \cup {r}
  /\ \E ch \in Enforce(Now, members, row', {}) : Leaves(ch)
  /\ UNCHANGED << flag, guise >>

\* m_akick_del, m_mask_del: the row and the list's entry.  An account's AKICK may
\* be deleted by any of its nicknames, and that nickname's ban goes.
AkickDel(r) ==
  /\ r \in row
  /\ row' = row \ {r}
  /\ \E m \in IF "mask" \in DOMAIN r THEN {r.mask} ELSE NickMasks[r.target] :
       Leaves(Del(Now, {<< "b", m >>}))
  /\ UNCHANGED << flag, guise >>

\* m_invex_add, m_except_add, m_quiet_add (m_mask_add).
MaskAdd(e) ==
  /\ RowOf(e) \notin row /\ Cardinality(row) < MaxRows
  /\ row' = row \cup {RowOf(e)}
  /\ Leaves(IF Live THEN Add(Now, {e}) ELSE Now)
  /\ UNCHANGED << flag, guise >>

\* m_invex_del, m_except_del, m_quiet_del (m_mask_del).
MaskDel(e) ==
  /\ RowOf(e) \in row
  /\ row' = row \ {RowOf(e)}
  /\ Leaves([Del(Now, {e}) EXCEPT !.lifted = @ \ {e}])
  /\ UNCHANGED << flag, guise >>

\* m_clear_bans, m_clear_quiets, and process_expireban_list: what services see.
Clear(l) == Leaves(Del(Now, Of(list, {l}))) /\ UNCHANGED << row, flag, guise >>

\* m_unban, m_unquiet (find_bmask): the entries that match the client.
Unban(l, u) ==
  /\ Live
  /\ Leaves(Del(Now, {e \in Of(list, {l}) : Hit(e[2], u)}))
  /\ UNCHANGED << row, flag, guise >>

\* m_set_autosave, m_set_restricted, m_set_expirebans.
SetFlag(f) ==
  /\ flag' = flag \cup {f}
  /\ Leaves(IF f = "restricted" THEN Restrict(Now, members, {})
            ELSE [Now EXCEPT !.expiring = @ \/ (f = "expirebans" /\ f \notin flag /\ Live)])
  /\ UNCHANGED << row, guise >>
UnsetFlag(f) ==
  /\ f \in flag
  /\ flag' = flag \ {f}
  /\ Leaves([Now EXCEPT !.expiring = @ /\ f # "expirebans"])
  /\ UNCHANGED << row, guise >>

-----------------------------------------------------------------------------
(* Time. *)

\* The bans and quiets of now have outlived expirebans_lifetime.
Age ==
  /\ old # Of(list, Aging)
  /\ old' = Of(list, Aging)
  /\ UNCHANGED << members, netlist, list, expiring, lifted, row, flag, guise, history >>

\* Mutant: quiets are not looked at.
ExpireMutant ==
  /\ expiring /\ old # {}
  /\ Leaves(Del(Now, Of(old, {"b"})))
  /\ UNCHANGED << row, flag, guise >>

\* process_expireban_list, every ten seconds.
Expire ==
  /\ expiring /\ old # {}
  /\ Leaves(Del(Now, old))
  /\ UNCHANGED << row, flag, guise >>

Init ==
  /\ members = {} /\ netlist = {} /\ list = {} /\ old = {} /\ expiring = FALSE
  /\ row = {} /\ flag = {} /\ guise = [u \in Users |-> CHOOSE g \in Guises[u] : TRUE]
  /\ lifted = {} /\ loose = {} /\ renamed = {} /\ forgotten = FALSE

Next ==
  \/ \E u \in Users : Join(u) \/ Part(u)
  \/ \E u, w \in Users : Sjoin(u, w)
  \/ \E u \in Users : \E g \in Guises[u] : Rename(u, g)
  \/ \E e \in Entries : ModePlus(e) \/ ModeMinus(e) \/ Bmask(e)
  \/ AkickEnforce
  \/ \E r \in {x \in Rows : x.kind = "akick"} : AkickAdd(r) \/ AkickDel(r)
  \/ \E e \in Kinds \X Masks : MaskAdd(e) \/ MaskDel(e)
  \/ \E l \in Lists \cap Aging : Clear(l)
  \/ \E l \in Lists \cap Aging, u \in Users : Unban(l, u)
  \/ \E f \in Flags : SetFlag(f) \/ UnsetFlag(f)
  \/ Age \/ Expire

\* The event table runs process_expireban_list over and over.
Spec == Init /\ [][Next]_vars /\ WF_vars(Expire)

-----------------------------------------------------------------------------
(* Properties. *)

\* A channel without members has no lists and is on no list; services know no
\* entry the network has not.
TypeOK ==
  /\ members \subseteq Users /\ netlist \subseteq Entries /\ row \subseteq Rows
  /\ list \subseteq netlist /\ old \subseteq Of(list, Aging)
  /\ ~Live => netlist = {} /\ ~expiring
  /\ flag \subseteq Flags /\ expiring \in BOOLEAN /\ \A u \in Users : guise[u] \in Guises[u]
  /\ loose \subseteq Entries /\ lifted \subseteq Entries /\ renamed \subseteq members

\* Nobody stays on a channel against its AKICKs, and no stranger on a
\* restricted one, but users that cannot be kicked and, for AKICK, those who
\* changed their nickname on the channel.
OutcastsAreOut ==
  /\ \A u \in members \ (Gods \cup renamed) : AkickMasks(row, u) = {}
  /\ "restricted" \in flag => \A u \in members : ~Stranger(u)

\* The stored lists and the channel's agree: what is on the channel is stored,
\* unless it came while nobody saved it, and what is stored is on the channel,
\* unless it was taken off without its row.
StoredIsInForce ==
  Live => /\ Stored \subseteq list \cup lifted
          /\ Of(list, Kinds) \subseteq Stored \cup loose

\* Services know every entry of the channel, so that UNBAN, CLEAR and
\* EXPIREBANS find it; they forget only when an SJOIN makes the channel anew.
ListsAreKnown == netlist = list \/ forgotten

\* The masks of a channel do what their owners asked: outcasts are out, what is
\* stored is set and what is set is stored, and services know what is set.
MasksStand == TypeOK /\ OutcastsAreOut /\ StoredIsInForce /\ ListsAreKnown

\* With EXPIREBANS the bans and quiets that have outlived their time all go.
BansExpire == expiring /\ old # {} ~> old = {} \/ ~expiring
=============================================================================
