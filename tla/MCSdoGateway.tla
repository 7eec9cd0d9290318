---------------------------- MODULE MCSdoGateway ----------------------------
(* An object the model owns with a readable and writable, a read-only and a   *)
(* missing sub-object, one the model owns that is too long, and an object of *)
(* two sub-objects left to KickCAT.                                          *)
EXTENDS SdoGateway, TLC

MCEntry == (<<1, 0>> :> [size |-> 2, access |-> {"read", "write"}])
        @@ (<<1, 1>> :> [size |-> 4, access |-> {"read"}])
        @@ (<<3, 0>> :> [size |-> 8, access |-> {"read", "write"}])
        @@ (<<2, 0>> :> [size |-> 1, access |-> {"read", "write"}])
        @@ (<<2, 1>> :> [size |-> 4, access |-> {"read", "write"}])
MCEntries == {<<1, 0>>, <<1, 1>>, <<1, 3>>, <<3, 0>>}

Req(k, cmd, complete, expedited, indicated, length, claimed, v) ==
  [index |-> k[1], sub |-> k[2], cmd |-> cmd, complete |-> complete, expedited |-> expedited,
   indicated |-> indicated, length |-> length, claimed |-> claimed, val |-> v]

\* Every header, on a mailbox with room for 8 bytes after it.
AllRequests ==
  {Req(k, cmd, complete, expedited, indicated, length, claimed, v) :
     k \in {<<1, 0>>, <<1, 1>>, <<1, 2>>, <<1, 3>>, <<2, 0>>, <<3, 0>>},
     cmd \in {"download", "upload", "other"}, complete \in BOOLEAN, expedited \in BOOLEAN,
     indicated \in BOOLEAN, length \in {2, 4}, claimed \in {0, 4, 5, 6, 9}, v \in Values}

\* Good and refused accesses to either kind of object.
FewRequests ==
  {Req(<<1, 0>>, "download", FALSE, TRUE, TRUE, 2, 4, v) : v \in Values}
  \cup {Req(k, "upload", FALSE, FALSE, FALSE, 2, 4, 1) : k \in {<<1, 0>>, <<1, 2>>, <<2, 0>>}}
  \cup {Req(<<2, 0>>, "download", FALSE, TRUE, TRUE, 1, 4, 1)}

MCMasters == [careful   |-> [requests |-> AllRequests, outstanding |-> 1, max |-> 1],
              pipelined |-> [requests |-> FewRequests, outstanding |-> 2, max |-> 4]]
=============================================================================
