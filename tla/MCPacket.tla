------------------------------ MODULE MCPacket ------------------------------
(* The instance TLC checks: a READ with every field in use, and a PROGRAM of *)
(* one word; the word a READ finds is not symmetric in its bytes.            *)
EXTENDS Packet

MCRequests ==
  { [cmd |-> CMD_READ, addr |-> 492033, len |-> 1, data |-> <<>>],
    [cmd |-> CMD_PROGRAM, addr |-> 66051, len |-> 1, data |-> <<ToBits(4660)>>] }
MCWords == <<ToBits(43981), ToBits(291)>>
=============================================================================
