--------------------------- MODULE MCChannelMasks ---------------------------
(* One channel, three users, of which one cannot be kicked; u2 may wear the  *)
(* name n1, which an account's AKICK is for.                                 *)
EXTENDS ChannelMasks
MCGuises == [u \in Users |-> IF u = "u2" THEN {"n1", "n2"} ELSE {u}]
MCHits == {<< "m1", "u1" >>, << "m1", "n2" >>, << "m2", "n1" >>, << "m2", "g" >>}
MCUserMask == [u \in Users |-> IF u = "u1" THEN "m1" ELSE "m2"]
MCNickMasks == [a \in Accounts |-> {"m1", "m2"}]
MCPrimaryMask == [a \in Accounts |-> "m2"]
=============================================================================
