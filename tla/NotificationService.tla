------------------------- MODULE NotificationService -------------------------
(***************************************************************************)
(* What email notifications promise, without lambdas, queues and webhooks: *)
(* each message that is posted to a channel is accepted at most once, in   *)
(* some order, and those who have subscribed the channel with a verified   *)
(* address are mailed about accepted messages, in the order in which these *)
(* were accepted.                                                          *)
(***************************************************************************)
EXTENDS Naturals, Sequences

CONSTANTS
    Channel,        \* the chat channels
    Email,          \* the email addresses
    Identity,       \* the chat users
    MaxMessages,    \* bound: how many messages a channel gets
    None            \* nobody

VARIABLES
    posted,         \* posted[c]: how many messages were posted to channel c
    accepted,       \* accepted[c]: those that were accepted, in this order
    subscriptions,  \* subscriptions[<<c, e>>]: who subscribed c with address e
    verified,       \* the addresses whose ownership is proven
    mails           \* mails[<<c, e>>]: the places in accepted[c] of the
                    \* messages that e was mailed about

vars == <<posted, accepted, subscriptions, verified, mails>>

Init ==
    /\ posted = [c \in Channel |-> 0]
    /\ accepted = [c \in Channel |-> <<>>]
    /\ subscriptions = [s \in Channel \X Email |-> None]
    /\ verified = {}
    /\ mails = [s \in Channel \X Email |-> <<>>]

Post(c) ==
    /\ posted[c] < MaxMessages
    /\ posted' = [posted EXCEPT ![c] = @ + 1]
    /\ UNCHANGED <<accepted, subscriptions, verified, mails>>

Accept(c, n) ==
    /\ n <= posted[c]
    /\ \A i \in DOMAIN accepted[c] : accepted[c][i] # n
    /\ accepted' = [accepted EXCEPT ![c] = Append(@, n)]
    /\ UNCHANGED <<posted, subscriptions, verified, mails>>

Subscribe(c, e, i) ==
    /\ subscriptions' = [subscriptions EXCEPT ![<<c, e>>] = i]
    /\ UNCHANGED <<posted, accepted, verified, mails>>

Verify(e) ==
    /\ verified' = verified \cup {e}
    /\ UNCHANGED <<posted, accepted, subscriptions, mails>>

\* Address e is mailed about the message at place n; mails may be repeated.
Notify(c, e, n) ==
    /\ subscriptions[<<c, e>>] # None /\ e \in verified
    /\ n \in DOMAIN accepted[c]
    /\ \A i \in DOMAIN mails[<<c, e>>] : mails[<<c, e>>][i] <= n
    /\ mails' = [mails EXCEPT ![<<c, e>>] = Append(@, n)]
    /\ UNCHANGED <<posted, accepted, subscriptions, verified>>

Next ==
    \/ \E c \in Channel : Post(c)
    \/ \E c \in Channel, n \in 1 .. MaxMessages : Accept(c, n)
    \/ \E c \in Channel, e \in Email, i \in Identity : Subscribe(c, e, i)
    \/ \E e \in Email : Verify(e)
    \/ \E c \in Channel, e \in Email, n \in 1 .. MaxMessages : Notify(c, e, n)

Spec == Init /\ [][Next]_vars
=============================================================================
