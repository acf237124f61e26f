-------------------------------- MODULE Rpc --------------------------------
(***************************************************************************)
(* What _transact() promises its callers: a call ends with the answer of a *)
(* command the firmware has carried out, once at least and once per        *)
(* attempt at most, or it ends with an exception.  A call that was cut     *)
(* short may still be carried out later; one that ended may not.  In a     *)
(* session that a failed transfer has disturbed none of this is certain.   *)
(***************************************************************************)
EXTENDS Naturals

CONSTANTS MaxCalls, RETRIES

VARIABLES
  call,        \* number of calls made
  open,        \* the last of them has not ended
  executed,    \* how often each was carried out, and commands of no call (0)
  returned,    \* calls that ended with an answer that is no error
  abandoned,   \* calls that ended without the certainty that they are over
  disturbed    \* this session's answers may be other calls' answers

vars == <<call, open, executed, returned, abandoned, disturbed>>
Calls == 1 .. MaxCalls

Init ==
  /\ call = 0 /\ ~open /\ executed = [c \in Calls \cup {0} |-> 0]
  /\ returned = {} /\ abandoned = {} /\ disturbed = FALSE

Begin ==
  /\ ~open /\ call < MaxCalls
  /\ call' = call + 1 /\ open'
  /\ UNCHANGED <<executed, returned, abandoned, disturbed>>

Execute(c) ==
  /\ (open /\ c = call) \/ c \in abandoned
  /\ executed[c] < RETRIES
  /\ executed' = [executed EXCEPT ![c] = @ + 1]
  /\ UNCHANGED <<call, open, returned, abandoned, disturbed>>

\* A call ends; it is over, unless Ctrl-C or a disturbance ended it.
Abandon(c) == abandoned' \in {abandoned, abandoned \cup {c}}
Return ==
  /\ open /\ ~open'
  /\ executed[call] > 0 \/ disturbed
  /\ returned' = returned \cup {call}
  /\ IF disturbed THEN Abandon(call) ELSE UNCHANGED abandoned
  /\ UNCHANGED <<call, executed, disturbed>>
Raise ==
  /\ open /\ ~open' /\ Abandon(call)
  /\ UNCHANGED <<call, executed, returned, disturbed>>

Disturb ==
  /\ disturbed'
  /\ UNCHANGED <<call, open, executed, returned, abandoned>>
NewSession ==
  /\ ~open /\ disturbed' \in BOOLEAN
  /\ UNCHANGED <<call, open, executed, returned, abandoned>>

Next ==
  \/ Begin \/ Return \/ Raise \/ Disturb \/ NewSession
  \/ \E c \in Calls : Execute(c)

Spec == Init /\ [][Next]_vars
=============================================================================
