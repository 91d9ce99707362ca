--------------------------- MODULE EmailOwnership ---------------------------
(***************************************************************************)
(* What the email verification promises, whatever the lambdas, the topic   *)
(* and the table do: an address is given one confirmation code, ever; only *)
(* that code is mailed, and only to that address; and the address becomes  *)
(* verified only after its code was mailed to it.  ChannelSubscription     *)
(* implements this specification with an asynchronous pipeline.            *)
(***************************************************************************)
CONSTANTS
    Email,  \* the addresses
    Code,   \* the confirmation codes
    None    \* no code was issued

VARIABLES
    code,       \* code[e]: the confirmation code of address e
    mailbox,    \* mailbox[e]: the codes mailed to address e
    verified    \* the addresses whose ownership is proven

vars == <<code, mailbox, verified>>

Init ==
    /\ code = [e \in Email |-> None]
    /\ mailbox = [e \in Email |-> {}]
    /\ verified = {}

Issue(e) ==
    /\ code[e] = None
    /\ \E c \in Code : /\ \A f \in Email : code[f] # c
                       /\ code' = [code EXCEPT ![e] = c]
    /\ UNCHANGED <<mailbox, verified>>

Mail(e) ==
    /\ code[e] # None
    /\ mailbox' = [mailbox EXCEPT ![e] = {code[e]}]
    /\ UNCHANGED <<code, verified>>

Verify(e) ==
    /\ code[e] \in mailbox[e]
    /\ verified' = verified \cup {e}
    /\ UNCHANGED <<code, mailbox>>

Next == \E e \in Email : Issue(e) \/ Mail(e) \/ Verify(e)

Spec == Init /\ [][Next]_vars
=============================================================================
