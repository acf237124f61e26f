---------------------------- MODULE MCTransport ----------------------------
(* The instance TLC checks, packets of four bytes.  As in the real sizes a   *)
(* PROGRAM's payload takes more than one packet, and the answer to a READ    *)
(* does; commands are of even length, answers of odd length, so that no      *)
(* answer fills its last packet and bulk_send()'s empty packet               *)
(* (protocol.c:56) is never sent.  The timeouts are the shortest the         *)
(* assumptions allow; a command takes so long that a write may end without   *)
(* the bank (WriteTimeout) where a session was disturbed.                    *)
EXTENDS Transport

MCKinds == [send: {0}, reply: {0, 2}] \cup {[send |-> 3, reply |-> 0]}
=============================================================================
