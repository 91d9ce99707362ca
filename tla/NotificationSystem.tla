-------------------------- MODULE NotificationSystem --------------------------
(***************************************************************************)
(* Email notifications from the chat message to the mail: Twilio calls the *)
(* lambda receiveTwilioWebhooks (WebhookReceiver), which fills the queue   *)
(* that invokes the lambda sendEmailNotifications (EmailNotifications).    *)
(*                                                                         *)
(* Both know the queue: fifo[c] holds what the receiver put in the group   *)
(* of channel c, and the sender names these messages by their places in    *)
(* it, of which there are enqueued[c].                                     *)
(***************************************************************************)
EXTENDS EmailNotifications

CONSTANTS
    Container,          \* the containers of the receiver
    MaxAttempts,        \* how often Twilio calls the webhook of a message
    Failed              \* a rejected promise

ASSUME ReceiverAssumption ==
    /\ MaxAttempts \in Nat \ {0}
    /\ None \notin Channel \cup {Failed} /\ Failed \notin Channel

VARIABLES
    registered, posted, webhook, receiverPc, call, twilioSettings, channelInfo,
    fifo, dropped, hit, before, receiverFaults,     \* see WebhookReceiver
    awaiting        \* awaiting[m]: who is to be mailed about chat message m
                    \* since it was posted, and was not yet

Receiver == INSTANCE WebhookReceiver WITH
    Channel <- Channel, Container <- Container, MaxMessages <- MaxMessages,
    MaxAttempts <- MaxAttempts, MaxFaults <- MaxFaults, None <- None,
    Failed <- Failed, registered <- registered, posted <- posted, webhook <- webhook,
    pc <- receiverPc, call <- call, twilioSettings <- twilioSettings,
    channelInfo <- channelInfo, fifo <- fifo, dropped <- dropped, hit <- hit,
    before <- before, faults <- receiverFaults

receiverVars ==
    <<registered, posted, webhook, receiverPc, call, twilioSettings, channelInfo, fifo,
      dropped, hit, before, receiverFaults>>
systemVars == <<vars, receiverVars, awaiting>>

SystemInit ==
    /\ Init
    /\ Receiver!Init
    /\ awaiting = [m \in Message |-> {}]

-----------------------------------------------------------------------------
\* What the receiver puts in the queue is what the queue delivers.
Forward ==
    \/ fifo' = fifo /\ UNCHANGED vars
    \/ \E c \in Channel : fifo'[c] # fifo[c] /\ Enqueue(c)

\* The chat message at place n of the queue of channel c.
MessageAt(c, n) == <<c, fifo[c][n].index>>

\* Address e was mailed about chat message m.
MailedAbout(e, m) ==
    \E n \in DOMAIN fifo[m[1]] : MessageAt(m[1], n) = m /\ Mailed(m[1], e, n)

\* Whoever meets the conditions when a message is posted awaits a mail about it,
\* until he gets it or loses one of them.  The conditions are those of Eligible: he
\* is in Twilio, offline, and was subscribed and verified early enough for every
\* read of the tables to find it.
Await ==
    awaiting' = [m \in Message |->
        IF posted'[m[1]] > posted[m[1]] /\ m[2] = posted'[m[1]] THEN Eligible(m[1])
        ELSE {e \in awaiting[m] :
                /\ e \in Eligible(m[1])' /\ ~MailedAbout(e, m)'
                /\ subscriptions'[<<m[1], e>>] = subscriptions[<<m[1], e>>]}]

SenderStep(w) == Delivery(w) \/ Step(w) \/ StepFault(w) \/ Expire(w) \/ Recycle(w)

\* MaxFaults bounds the failures of both components together.
SystemNext ==
    /\ \/ Receiver!Next /\ Forward
       \/ \E w \in Worker : SenderStep(w) /\ UNCHANGED receiverVars
       \/ User /\ UNCHANGED receiverVars
    /\ faults' + receiverFaults' <= MaxFaults
    /\ Await

SystemSpec == SystemInit /\ [][SystemNext]_systemVars

\* The fairness of both components: their steps are always possible together
\* with what the other one and awaiting do in them.
SystemFairness == Receiver!Fairness /\ Fairness

FairSystemSpec == SystemSpec /\ SystemFairness

-----------------------------------------------------------------------------
(* Properties                                                              *)

\* The places in the queue are those the receiver filled, and who awaits a mail
\* is an address.
SystemTypeOK ==
    /\ TypeOK
    /\ Receiver!TypeOK
    /\ \A c \in Channel : enqueued[c] = Len(fifo[c])
    /\ awaiting \in [Message -> SUBSET Email]

\* A subscriber is not mailed about a chat message after he was mailed about one
\* that was posted when the first had already been acknowledged: of the two
\* queues of the way, Twilio's retries and the batches that are delivered
\* again, none turns the chat around.
MailsFollowChat ==
    \A s \in Channel \X Email : \A i, j \in DOMAIN mails[s] : i < j =>
        LET earlier == MessageAt(s[1], mails[s][i])
            later == MessageAt(s[1], mails[s][j])
        IN  later[2] \in before[earlier] => later \in dropped

\* A subscriber is mailed about a chat message once, however often its webhook
\* was called, unless an invocation of the sender was killed with it.
MailedOncePerMessage ==
    \A s \in Channel \X Email : \A i, j \in DOMAIN mails[s] :
        MessageAt(s[1], mails[s][i]) = MessageAt(s[1], mails[s][j]) =>
            i = j \/ <<s[1], mails[s][i]>> \in repeated

\* Twilio got no message through to the queue, or a call of the very invocation
\* of the sender that had the message failed.
Excused(m) ==
    \/ m \in dropped
    \/ webhook[m].state = "failed"
    \/ \E n \in DOMAIN fifo[m[1]] : MessageAt(m[1], n) = m /\ <<m[1], n>> \in harmed

\* Chat message m waits in the queue or is in flight to an invocation.
Waits(m) ==
    \E n \in deleted[m[1]] + 1 .. enqueued[m[1]] : MessageAt(m[1], n) = m

\* As long as somebody awaits a mail about a message (see Await), it is on its way:
\* Twilio has not been told that it was taken, or it is in the queue.  At none of
\* the hand-overs between Twilio, the receiver, the queue and the sender is it
\* given up by both sides, unless what befell it excuses that.
NothingIsForgotten ==
    \A m \in Message : awaiting[m] # {} =>
        webhook[m].state # "acknowledged" \/ Waits(m) \/ Excused(m)

\* "I can enabled email notifications on a channel so I receive an email about
\* new messages posted if I am offline" (features/EmailNotifications.feature:4-6):
\* who is to be mailed about a message since it was posted is mailed in the end,
\* unless he loses a condition for it, or what befell this message excuses it.
\* Whose subscription or verification a lagging read can still miss is not yet
\* among them (see Await).
PostedLeadsToMail ==
    \A m \in Message, e \in Email :
        e \in awaiting[m] ~> e \notin awaiting[m] \/ Excused(m)

\* The two lambdas and the queue implement the service.
Service == INSTANCE NotificationService WITH
    Channel <- Channel, Email <- Email, Identity <- Identity,
    MaxMessages <- MaxMessages, None <- None, posted <- posted,
    accepted <- [c \in Channel |-> [n \in DOMAIN fifo[c] |-> fifo[c][n].index]],
    subscriptions <- subscriptions, verified <- verified, mails <- mails

\* From the chat to the mail: the system refines NotificationService.
ImplementsService == Service!Spec

-----------------------------------------------------------------------------
(* The inductive invariant: what links the chat to the queue.  The queue    *)
(* delivers one message at a time.                                         *)

\* Who awaits a mail about a message meets the conditions and did not get it.
AwaitingAreEligible ==
    \A m \in Message : \A e \in awaiting[m] :
        e \in Eligible(m[1]) /\ ~MailedAbout(e, m)

\* Who awaits a mail about a message in the queue is due for it there, and one
\* that left the queue without mailing him was harmed.
AwaitingAreDue ==
    \A c \in Channel : \A n \in DOMAIN fifo[c] :
        \A e \in awaiting[MessageAt(c, n)] :
            IF n > deleted[c] THEN e \in due[<<c, n>>] ELSE <<c, n>> \in harmed

AwaitInv == AwaitingAreEligible /\ AwaitingAreDue
=============================================================================
