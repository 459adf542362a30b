---------------------------- MODULE CommandTree ----------------------------
(***************************************************************************)
(* The tries of src/parse.c: irc_msg_tree, in which the protocol modules   *)
(* enter the messages of the uplink, and the msg_tree of each service.  A  *)
(* tree is a function from the prefixes it has a struct MessageTree for to *)
(* msg and links, the reference count that decides when a node is freed.   *)
(***************************************************************************)
EXTENDS Naturals, Sequences, FiniteSets, SequencesExt

CONSTANT Nothing    \* no message, NULL

Node == [msg |-> Nothing, links |-> 0]

\* clear_tree_parse, clear_serv_tree_parse
EmptyTree == [p \in {<<>>} |-> Node]

\* The nodes on the way to the command w, the root and w included.
Path(w) == {SubSeq(w, 1, i) : i \in 0..Len(w)}
Parent(q) == Front(q)

\* msg_tree_parse: a node without a command has msg NULL.
FindMsg(t, w) == IF w \in DOMAIN t THEN t[w].msg ELSE Nothing

\* add_msg_element: a node counts its children and its command.
AddElement(t, w, msg) ==
  LET new == Path(w) \ DOMAIN t
      old(p) == IF p \in new THEN Node ELSE t[p]
  IN  [p \in DOMAIN t \cup new |->
         [msg   |-> IF p = w THEN msg ELSE old(p).msg,
          links |-> old(p).links + Cardinality({q \in new : q # <<>> /\ Parent(q) = p})
                    + (IF p = w THEN 1 ELSE 0)]]

\* Mutant: the way back up frees every node it passes, with what is below.
DelElementMutant(t, w) ==
  IF FindMsg(t, w) = Nothing THEN t
  ELSE [p \in {q \in DOMAIN t : q = <<>> \/ q[1] # w[1]} |->
          IF p = <<>> THEN [t[p] EXCEPT !.links = @ - 1] ELSE t[p]]

\* del_msg_element: on the way back up, a child with no links left is freed.
DelElement(t, w) ==
  IF FindMsg(t, w) = Nothing THEN t
  ELSE LET freed == {q \in Path(w) : q # <<>> /\ \A p \in Path(w) : IsPrefix(q, p) => t[p].links = 1}
       IN  [p \in DOMAIN t \ freed |->
              [msg   |-> IF p = w THEN Nothing ELSE t[p].msg,
               links |-> t[p].links - (IF p = w \/ \E q \in freed : Parent(q) = p THEN 1 ELSE 0)]]

\* Mutant: the command that is there already is not deleted first.
ModAddCmdMutant(t, w, msg) == AddElement(t, w, msg)

\* mod_add_cmd: the later command replaces the earlier one.
ModAddCmd(t, w, msg) ==
  AddElement(IF FindMsg(t, w) # Nothing THEN DelElement(t, w) ELSE t, w, msg)

\* mod_add_servcmd: the earlier command stays.
ModAddServcmd(t, w, msg) == IF FindMsg(t, w) # Nothing THEN t ELSE AddElement(t, w, msg)

\* mod_del_cmd deletes by name, whoever's message is there.
ModDelCmd(t, w) == DelElement(t, w)

\* serv_clear_messages frees every node below the root.
ServClearMessages(t) == [p \in {<<>>} |-> t[p]]

\* What HELP lists: recurse_help_messages visits every node.
Listed(t) == {t[p].msg : p \in DOMAIN t} \ {Nothing}

-----------------------------------------------------------------------------
Children(t, p) == {q \in DOMAIN t : q # <<>> /\ Parent(q) = p}

\* A tree as add_msg_element and del_msg_element leave it.
WellFormed(t) ==
  /\ \A p \in DOMAIN t : Path(p) \subseteq DOMAIN t
  /\ \A p \in DOMAIN t : t[p].links = Cardinality(Children(t, p)) + (IF t[p].msg = Nothing THEN 0 ELSE 1)
  /\ \A p \in DOMAIN t : p # <<>> => t[p].links > 0
=============================================================================
