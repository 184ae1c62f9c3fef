----------------------------- MODULE MCAdapters -----------------------------
(* A server with two addresses and two clients behind one address. *)
EXTENDS AdapterSpec

CONSTANTS server, alice, bob

Callers == {alice, bob}
Endpoints == (server :> [ip |-> <<2560, 1>>, port |-> 80])
             @@ (alice :> [ip |-> <<49320, 261>>, port |-> 65535])
             @@ (bob :> [ip |-> <<49320, 261>>, port |-> 256])
Contacted == (alice :> [ip |-> <<2560, 1>>, port |-> 80])
             @@ (bob :> [ip |-> <<2560, 2>>, port |-> 80])
Addresses == (server :> <<2, 0, 0, 0, 0, 1>>) @@ (alice :> <<2, 0, 0, 0, 255, 2>>)
             @@ (bob :> <<2, 0, 0, 0, 255, 3>>)

Header(flags, seqno, win, doff) ==
  [TCPHeaderNew EXCEPT !.flags = flags, !.seqno = seqno, !.win = win, !.doff = doff]
Outgoing == {[header |-> Header({"syn"}, <<65535, 65535>>, 65535, 6), payload |-> <<>>],
             [header |-> Header({"syn", "rst"}, <<0, 0>>, 0, 5), payload |-> <<>>],
             [header |-> Header({"ack", "fin"}, <<1, 255>>, 256, 5), payload |-> <<0, 255, 0>>]}

Message(opcode) ==
  [hardware_type |-> 1, protocol_type |-> TypeIPv4, hardware_address_size |-> 6,
   protocol_address_size |-> 4, opcode |-> opcode,
   sender_ethernet_address |-> <<2, 0, 0, 0, 255, 2>>, sender_ip_address |-> <<49320, 261>>,
   target_ethernet_address |-> <<0, 0, 0, 0, 0, 0>>, target_ip_address |-> <<2560, 1>>]
Messages == {Message(1), Message(2)}
=============================================================================
