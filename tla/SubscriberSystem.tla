--------------------------- MODULE SubscriberSystem ---------------------------
(***************************************************************************)
(* The subscribers from their first request to their mails.  The mutations *)
(* and the confirmation lambda (ChannelSubscription) fill the two tables   *)
(* that the notification sender (EmailNotifications) reads.  The sender    *)
(* takes the tables as they come: here they change only as the mutations   *)
(* change them, while messages are queued and batches are worked on.       *)
(***************************************************************************)
EXTENDS EmailNotifications

CONSTANTS Code, Contexts, Request, Attempt, MaxDeliveries   \* see ChannelSubscription

ASSUME EnrolmentAssumption ==
    /\ Contexts \in [Identity -> SUBSET Channel]
    /\ MaxDeliveries \in Nat \ {0}
    /\ None \notin Identity \cup Channel \cup Email \cup Code

VARIABLES
    code, topic, api, confirm, attempts, mailbox,   \* see ChannelSubscription, where
    enrolFaults, enrolBlind, enrolHarmed,           \* the last are faults, blind, harmed
    owed            \* owed[<<c, n>>]: who relies on a mail about it since it was queued

\* The subscription and the verification table are those of the sender.
Enrolment == INSTANCE ChannelSubscription WITH
    Identity <- Identity, Channel <- Channel, Email <- Email, Code <- Code,
    Contexts <- Contexts, Request <- Request, Attempt <- Attempt,
    MaxDeliveries <- MaxDeliveries, MaxFaults <- MaxFaults, None <- None,
    subscriptions <- subscriptions, verified <- verified, code <- code, topic <- topic,
    api <- api, confirm <- confirm, attempts <- attempts, mailbox <- mailbox,
    faults <- enrolFaults, blind <- enrolBlind, harmed <- enrolHarmed

enrolVars ==
    <<code, topic, api, confirm, attempts, mailbox, enrolFaults, enrolBlind, enrolHarmed>>
systemVars == <<vars, enrolVars, owed>>

SystemInit == Init /\ Enrolment!Init /\ owed = [m \in Message |-> {}]

-----------------------------------------------------------------------------
\* What the mutations write is what the sender reads.
Follow ==
    \/ UNCHANGED vars
    \/ \E c \in Channel, e \in Email, i \in Identity : Subscribe(c, e, i)
    \/ \E e \in Email : Verify(e)

\* What the sender does, and what goes on around it, apart from the tables.
SenderStep ==
    \/ \E c \in Channel : Enqueue(c)
    \/ \E w \in Worker : Delivery(w) \/ Step(w) \/ StepFault(w) \/ Expire(w) \/ Recycle(w)
    \/ Around

\* The mutations have told their callers that e is notified of the messages of c:
\* a subscription was accepted, and the address reported as verified there and
\* then, or by verifyEmail.
Told(c, e) ==
    \E r \in Request :
        /\ api[r].pc = "done" /\ api[r].channel = c /\ api[r].email = e
        /\ \/ api[r].emailVerified
           \/ \E a \in Attempt : attempts[a].pc = "done" /\ attempts[a].email = e

\* No read misses the latest writes of e for c, and its subscriber is notifiable.
Reachable(c, e) ==
    /\ replaced[<<c, e>>] = {} /\ e \notin unseen
    /\ subscriptions[<<c, e>>] \in Notifiable

\* Who was told before the message was queued relies on a mail about it, as long
\* as he is reachable and nobody replaces the subscriber.
Owe ==
    owed' = [m \in Message |->
        IF enqueued[m[1]] < m[2] /\ m[2] <= enqueued'[m[1]]
        THEN {e \in Email : Told(m[1], e) /\ Reachable(m[1], e)}
        ELSE {e \in owed[m] :
                /\ Reachable(m[1], e)' /\ m[2] > deleted'[m[1]]
                /\ subscriptions'[<<m[1], e>>] = subscriptions[<<m[1], e>>]}]

\* MaxFaults bounds the failures of both components together.
SystemNext ==
    /\ \/ Enrolment!Next /\ Follow
       \/ SenderStep /\ UNCHANGED enrolVars
    /\ faults' + enrolFaults' <= MaxFaults
    /\ Owe

SystemSpec == SystemInit /\ [][SystemNext]_systemVars

-----------------------------------------------------------------------------
(* Properties                                                              *)

\* Nobody is mailed, nor is about to be, unless a user whose token names the
\* channel has subscribed the address, and the code that proves its ownership was
\* mailed to this very address before: not even by an invocation that read the
\* tables while another user replaced the subscriber or the address was verified.
MailedAreEntitled ==
    /\ \A c \in Channel, e \in Email : mails[<<c, e>>] # <<>> =>
         /\ code[e] \in mailbox[e]
         /\ subscriptions[<<c, e>>] # None
         /\ c \in Contexts[subscriptions[<<c, e>>]]
    /\ \A w \in Worker : \A s \in work[w] : s.channel \in Contexts[s.identity]

\* The promise of the mutations is kept by the sender: who was told that he is
\* notified, by the reply of enableChannelNotifications or of verifyEmail, is mailed
\* when messages of his channel that were queued since then leave the queue, about
\* the first of the batch, unless a call of its own invocation failed.  He loses
\* that as long as the tables lag behind, or if he is replaced, is not in Twilio or
\* comes online.
ToldAreMailed ==
    [][ \A c \in Channel : deleted'[c] > deleted[c] =>
          \A e \in owed[<<c, deleted[c] + 1>>] :
            \/ <<c, deleted[c] + 1>> \in harmed'
            \/ Mailed(c, e, deleted[c] + 1) ]_systemVars
=============================================================================
