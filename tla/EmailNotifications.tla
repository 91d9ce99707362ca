------------------------- MODULE EmailNotifications -------------------------
(***************************************************************************)
(* The chat messages wait in a FIFO queue, one message group per channel.  *)
(* Invocations of the lambda sendEmailNotifications receive them in        *)
(* batches, look up who subscribed the channels, who of them is offline    *)
(* and whose address is verified, and mail them.  The queue deletes a      *)
(* batch when its invocation returns; when the invocation is killed the    *)
(* batch becomes visible again and is delivered once more.  A container of *)
(* the lambda that failed to read its settings keeps that failure for as   *)
(* long as it lives.  Meanwhile the users join the chat, subscribe, verify *)
(* their addresses and go on- and offline.                                 *)
(*                                                                         *)
(* The lambda asks DynamoDB for no consistent reads, so that both tables   *)
(* may answer with what was there before the latest writes, each row for   *)
(* itself, until all copies of the row have caught up.                     *)
(*                                                                         *)
(* The messages of a channel are numbered in the order of the queue, so    *)
(* that what waits in channel c is deleted[c] + 1 .. enqueued[c].          *)
(***************************************************************************)
EXTENDS Integers, Sequences, Functions

CONSTANTS
    Channel,            \* the chat channels, the message groups of the queue
    Email,              \* the email addresses
    Identity,           \* the chat users
    Worker,             \* the containers of the lambda, one invocation each
    BatchSize,          \* how many messages the queue delivers at once
    Timeout,            \* the timeout of the lambda, in seconds
    IgnoreOnlineStatus, \* IGNORE_ONLINE_STATUS: mail users that are online, too
    MaxMessages,        \* bound: how many messages a channel gets
    MaxFaults,          \* bound: how many invocations or calls fail
    None                \* nobody

ASSUME BatchAssumption == BatchSize \in Nat \ {0} /\ Timeout \in Nat \ {0}
ASSUME StatusAssumption == IgnoreOnlineStatus \in BOOLEAN
ASSUME BoundsAssumption == MaxMessages \in Nat /\ MaxFaults \in Nat
ASSUME NoneAssumption == None \notin Identity

VARIABLES
    enqueued,       \* enqueued[c]: how many messages channel c got so far
    deleted,        \* deleted[c]: how many of them left the queue
    held,           \* held[w][c]: how many messages are in flight to w
    pc,             \* pc[w]: what invocation w does next
    first,          \* first[w][c]: the first message of c in w's batch, or 0
    work,           \* work[w]: the subscriptions w has yet to serve
    blind,          \* the containers whose promise of the settings was rejected
    subscriptions,  \* subscription table: who subscribed <<channel, email>>
    replaced,       \* replaced[<<c, e>>]: who a lagging read of this row still finds
    verified,       \* verification table: the verified addresses
    unseen,         \* those of them a lagging read still finds unverified
    known,          \* the users that exist in Twilio
    online,         \* the users Twilio reports as online
    mails,          \* mails[<<c, e>>]: the messages of c that e was mailed
    due,            \* due[<<c, n>>]: the addresses Eligible since it was queued
    faults,         \* how many invocations or calls have failed so far
    harmed,         \* the messages in whose invocation a call failed
    repeated        \* the messages whose invocation was killed

environment == <<subscriptions, replaced, verified, unseen, known, online>>
queue == <<enqueued, deleted, held>>
failures == <<faults, harmed, repeated>>
vars == <<queue, pc, first, work, blind, environment, mails, due, failures>>

Message == Channel \X (1 .. MaxMessages)
Subscription == [channel : Channel, email : Email, identity : Identity]

\* Mutant of VisibilityTimeout: the queue keeps the default of SQS.
DefaultVisibilityTimeout == 30

\* "visibilityTimeout must match timeout of sendEmailNotifications Lambda"
VisibilityTimeout == Timeout

Init ==
    /\ enqueued = [c \in Channel |-> 0]
    /\ deleted = [c \in Channel |-> 0]
    /\ held = [w \in Worker |-> [c \in Channel |-> 0]]
    /\ pc = [w \in Worker |-> "idle"]
    /\ first = [w \in Worker |-> [c \in Channel |-> 0]]
    /\ work = [w \in Worker |-> {}]
    /\ subscriptions = [s \in Channel \X Email |-> None]
    /\ replaced = [s \in Channel \X Email |-> {}]
    /\ verified = {}
    /\ unseen = {}
    /\ known = {}
    /\ online = {}
    /\ mails = [s \in Channel \X Email |-> <<>>]
    /\ due = [m \in Message |-> {}]
    /\ faults = 0
    /\ blind = {}
    /\ harmed = {}
    /\ repeated = {}

-----------------------------------------------------------------------------
Running(w) == pc[w] \in {"subscriptions", "users", "emails", "send"}

\* The users an invocation mails: the others are not in Twilio, or read the
\* message in the chat.
Notifiable == IF IgnoreOnlineStatus THEN known ELSE known \ online

\* Every read finds who subscribed e to c, and that e is verified.
CaughtUp(c, e) == replaced[<<c, e>>] = {} /\ e \in verified \ unseen

\* The addresses that a message queued for c now is to be mailed to: those whose
\* rows have caught up, with a subscriber that is in Twilio and would not read it in
\* the chat.  Whom a lagging read may drop has nothing to rely on, as the batch is
\* deleted all the same.
Eligible(c) ==
    {e \in Email : CaughtUp(c, e) /\ subscriptions[<<c, e>>] \in Notifiable}

\* The users and tables have changed; who is due lost a condition for it.
StillDue == due' = [m \in Message |-> due[m] \cap Eligible(m[1])']

Fault == faults < MaxFaults /\ faults' = faults + 1

\* The messages in flight to w.
Batch(w) ==
    {m \in Message : m[2] - deleted[m[1]] \in 1 .. held[w][m[1]]}

\* A call of the invocation w failed that concerns the messages of channels.
Harm(w, channels) == harmed' = harmed \cup {m \in Batch(w) : m[1] \in channels}

\* The channels w looks the users up for.
ChannelsOf(w, users) ==
    {c \in Channel : \E s \in work[w] : s.channel = c /\ s.identity \in users}

\* No other invocation holds messages of the group.
GroupFree(c) == \A w \in Worker : held[w][c] = 0

\* Mutant of Return: the handler rejects at its end, nothing is deleted.
ReturnRejected(w) ==
    /\ pc' = [pc EXCEPT ![w] = "killed"]
    /\ first' = [first EXCEPT ![w] = [c \in Channel |-> 0]]
    /\ work' = [work EXCEPT ![w] = {}]
    /\ UNCHANGED <<queue, due>>

\* Mutant of Return: the handler deletes the batch, and the queue once more.
ReturnDeletedTwice(w) ==
    /\ pc' = [pc EXCEPT ![w] = "idle"]
    /\ deleted' = [c \in Channel |-> deleted[c] + 2 * held[w][c]]
    /\ held' = [held EXCEPT ![w] = [c \in Channel |-> 0]]
    /\ first' = [first EXCEPT ![w] = [c \in Channel |-> 0]]
    /\ work' = [work EXCEPT ![w] = {}]
    /\ UNCHANGED <<enqueued, due>>

\* The invocation returns and the queue deletes the messages in flight to it.
Return(w) ==
    /\ pc' = [pc EXCEPT ![w] = "idle"]
    /\ deleted' = [c \in Channel |-> deleted[c] + held[w][c]]
    /\ held' = [held EXCEPT ![w] = [c \in Channel |-> 0]]
    /\ first' = [first EXCEPT ![w] = [c \in Channel |-> 0]]
    /\ work' = [work EXCEPT ![w] = {}]
    /\ due' = [m \in Message |-> IF m[2] <= deleted'[m[1]] THEN {} ELSE due[m]]
    /\ UNCHANGED enqueued

\* Address e was mailed about message n of channel c.
Mailed(c, e, n) == \E i \in DOMAIN mails[<<c, e>>] : mails[<<c, e>>][i] = n

\* Mutant of Mail: the mail is about the last message of the batch.
MailLast(w, s) ==
    mails' = [mails EXCEPT ![<<s.channel, s.email>>] =
                Append(@, deleted[s.channel] + held[w][s.channel])]

\* SendGrid takes the mail about the first message of the channel.
Mail(w, s) ==
    mails' = [mails EXCEPT ![<<s.channel, s.email>>] =
                Append(@, first[w][s.channel])]

-----------------------------------------------------------------------------
(* The queue                                                               *)

\* A chat message was posted to c and the webhook receiver queued it.
Enqueue(c) ==
    /\ enqueued[c] < MaxMessages
    /\ enqueued' = [enqueued EXCEPT ![c] = @ + 1]
    /\ due' = [due EXCEPT ![<<c, enqueued[c] + 1>>] = Eligible(c)]
    /\ UNCHANGED <<deleted, held, pc, first, work, blind, environment, mails, failures>>

\* The queue delivers to w the n[c] oldest messages of each channel c.
Receive(w, n) ==
    /\ pc[w] = "idle"
    /\ SumFunction(n) \in 1 .. BatchSize
    /\ \A c \in Channel : n[c] > 0 => GroupFree(c) /\ n[c] <= enqueued[c] - deleted[c]
    /\ held' = [held EXCEPT ![w] = n]
    /\ first' = [first EXCEPT ![w] =
                   [c \in Channel |-> IF n[c] > 0 THEN deleted[c] + 1 ELSE 0]]
    /\ pc' = [pc EXCEPT ![w] = "subscriptions"]
    /\ UNCHANGED <<enqueued, deleted, work, blind, environment, mails, due, failures>>

\* The visibility timeout of the messages in flight to w has passed.  While
\* w runs that is possible only if w may run for longer.
Expire(w) ==
    /\ pc[w] = "killed" \/ (Running(w) /\ VisibilityTimeout < Timeout)
    /\ pc' = [pc EXCEPT ![w] = IF Running(w) THEN pc[w] ELSE "idle"]
    /\ held' = [held EXCEPT ![w] = [c \in Channel |-> 0]]
    /\ UNCHANGED <<enqueued, deleted, first, work, blind, environment, mails, due,
                   failures>>

-----------------------------------------------------------------------------
(* sendEmailNotifications                                                  *)

\* Query the subscriptions of every channel of the batch.
FindSubscriptions(w) ==
    /\ pc[w] = "subscriptions" /\ w \notin blind
    /\ \E rows \in [Channel \X Email -> Identity \cup {None}] :
         /\ \A t \in Channel \X Email : rows[t] \in {subscriptions[t]} \cup replaced[t]
         /\ work' = [work EXCEPT ![w] =
                       {s \in Subscription : /\ first[w][s.channel] > 0
                                             /\ rows[<<s.channel, s.email>>] = s.identity}]
    /\ pc' = [pc EXCEPT ![w] = "users"]
    /\ UNCHANGED <<queue, first, blind, environment, mails, due, failures>>

\* Mutant of FindUsers: the users that are online are mailed.
FindUsersOnline(w) ==
    /\ pc[w] = "users"
    /\ work' = [work EXCEPT ![w] = {s \in work[w] : s.identity \in online}]
    /\ pc' = [pc EXCEPT ![w] = "emails"]
    /\ UNCHANGED <<queue, first, blind, environment, mails, due, failures>>

\* Fetch the users.  One that does not exist, or whose fetch fails, is left out.
FindUsers(w) ==
    /\ pc[w] = "users"
    /\ \E missing \in SUBSET (known \cap {s.identity : s \in work[w]}) :
         /\ \/ missing = {} /\ UNCHANGED <<faults, harmed>>
            \/ missing # {} /\ Fault /\ Harm(w, ChannelsOf(w, missing))
         /\ work' = [work EXCEPT ![w] =
                       {s \in work[w] : s.identity \in Notifiable \ missing}]
    /\ pc' = [pc EXCEPT ![w] = "emails"]
    /\ UNCHANGED <<queue, first, blind, environment, mails, due, repeated>>

\* Mutant of FindEmails: a row in the table is enough.
FindEmailsUnverified(w) ==
    /\ pc[w] = "emails"
    /\ pc' = [pc EXCEPT ![w] = "send"]
    /\ UNCHANGED <<queue, first, work, blind, environment, mails, due, failures>>

\* Look the addresses up in the verification table.
FindEmails(w) ==
    /\ pc[w] = "emails"
    /\ \E missed \in SUBSET unseen :
         work' = [work EXCEPT ![w] = {s \in work[w] : s.email \in verified \ missed}]
    /\ pc' = [pc EXCEPT ![w] = "send"]
    /\ UNCHANGED <<queue, first, blind, environment, mails, due, failures>>

SendMail(w, s) ==
    /\ pc[w] = "send" /\ s \in work[w]
    /\ Mail(w, s)
    /\ work' = [work EXCEPT ![w] = @ \ {s}]
    /\ UNCHANGED <<queue, pc, first, blind, environment, due, failures>>

\* A mail fails, or only its reply is lost: it is logged and that is all.
SendFault(w, s) ==
    /\ pc[w] = "send" /\ s \in work[w]
    /\ Fault /\ Harm(w, {s.channel})
    /\ UNCHANGED mails \/ Mail(w, s)
    /\ work' = [work EXCEPT ![w] = @ \ {s}]
    /\ UNCHANGED <<queue, pc, first, blind, environment, due, repeated>>

Finish(w) ==
    /\ pc[w] = "send" /\ work[w] = {}
    /\ Return(w)
    /\ UNCHANGED <<blind, environment, mails, failures>>

\* The settings cannot be read: the container keeps the rejected promise, and
\* the handler logs it and returns.
SettingsFault(w) ==
    /\ pc[w] = "subscriptions" /\ w \notin blind
    /\ Fault /\ Harm(w, Channel)
    /\ blind' = blind \cup {w}
    /\ Return(w)
    /\ UNCHANGED <<environment, mails, repeated>>

\* The promise of the settings that the container kept was rejected.
ReturnBlind(w) ==
    /\ pc[w] = "subscriptions" /\ w \in blind
    /\ Harm(w, Channel)
    /\ Return(w)
    /\ UNCHANGED <<blind, environment, mails, faults, repeated>>

\* A table cannot be read: the handler logs it and returns.
ReadFault(w) ==
    /\ pc[w] \in {"subscriptions", "emails"} /\ w \notin blind
    /\ Fault /\ Harm(w, Channel)
    /\ Return(w)
    /\ UNCHANGED <<blind, environment, mails, repeated>>

\* The invocation crashes or runs into its timeout, and the container with it.
Kill(w) ==
    /\ Running(w)
    /\ Fault
    /\ pc' = [pc EXCEPT ![w] = "killed"]
    /\ first' = [first EXCEPT ![w] = [c \in Channel |-> 0]]
    /\ work' = [work EXCEPT ![w] = {}]
    /\ blind' = blind \ {w}
    /\ repeated' = repeated \cup Batch(w)
    /\ UNCHANGED <<queue, environment, mails, due, harmed>>

\* A container that is idle is replaced.
Recycle(w) ==
    /\ pc[w] = "idle" /\ w \in blind
    /\ blind' = blind \ {w}
    /\ UNCHANGED <<queue, pc, first, work, environment, mails, due, failures>>

-----------------------------------------------------------------------------
(* The users and the tables                                                *)

\* Twilio gets to know user i.
Join(i) ==
    /\ i \notin known
    /\ known' = known \cup {i}
    /\ UNCHANGED <<queue, pc, first, work, blind, subscriptions, replaced, verified, unseen,
                   online, mails, due, failures>>

\* User i subscribes address e, which replaces an earlier subscriber.
Subscribe(c, e, i) ==
    /\ subscriptions[<<c, e>>] # i
    /\ subscriptions' = [subscriptions EXCEPT ![<<c, e>>] = i]
    /\ replaced' = [replaced EXCEPT ![<<c, e>>] = @ \cup {subscriptions[<<c, e>>]}]
    /\ due' = [m \in Message |-> IF m[1] = c THEN due[m] \ {e} ELSE due[m]]
    /\ UNCHANGED <<queue, pc, first, work, blind, verified, unseen, known, online, mails,
                   failures>>

Verify(e) ==
    /\ e \notin verified
    /\ verified' = verified \cup {e}
    /\ unseen' = unseen \cup {e}
    /\ UNCHANGED <<queue, pc, first, work, blind, subscriptions, replaced, known, online,
                   mails, due, failures>>

\* All copies of the row of the subscription have the latest write.
SubscriptionCatchesUp(c, e) ==
    /\ replaced[<<c, e>>] # {}
    /\ replaced' = [replaced EXCEPT ![<<c, e>>] = {}]
    /\ UNCHANGED <<queue, pc, first, work, blind, subscriptions, verified, unseen, known,
                   online, mails, due, failures>>

\* All copies of the row of the address have it as verified.
VerificationCatchesUp(e) ==
    /\ e \in unseen
    /\ unseen' = unseen \ {e}
    /\ UNCHANGED <<queue, pc, first, work, blind, subscriptions, replaced, verified, known,
                   online, mails, due, failures>>

GoOnline(i) ==
    /\ i \in known \ online
    /\ online' = online \cup {i}
    /\ UNCHANGED <<queue, pc, first, work, blind, subscriptions, replaced, verified, unseen,
                   known, mails, failures>>
    /\ StillDue

GoOffline(i) ==
    /\ i \in online
    /\ online' = online \ {i}
    /\ UNCHANGED <<queue, pc, first, work, blind, subscriptions, replaced, verified, unseen,
                   known, mails, due, failures>>

-----------------------------------------------------------------------------
Delivery(w) == \E n \in [Channel -> 0 .. BatchSize] : Receive(w, n)

Step(w) ==
    \/ FindSubscriptions(w) \/ FindUsers(w) \/ FindEmails(w) \/ Finish(w)
    \/ ReturnBlind(w)
    \/ \E s \in work[w] : SendMail(w, s)

StepFault(w) ==
    \/ SettingsFault(w) \/ ReadFault(w) \/ Kill(w)
    \/ \E s \in work[w] : SendFault(w, s)

\* What the invocations do not notice but by their reads.
Around ==
    \/ \E c \in Channel, e \in Email : SubscriptionCatchesUp(c, e)
    \/ \E e \in Email : VerificationCatchesUp(e)
    \/ \E i \in Identity : Join(i) \/ GoOnline(i) \/ GoOffline(i)

User ==
    \/ \E c \in Channel, e \in Email, i \in Identity : Subscribe(c, e, i)
    \/ \E e \in Email : Verify(e)
    \/ Around

Next ==
    \/ \E c \in Channel : Enqueue(c)
    \/ \E w \in Worker : Delivery(w) \/ Step(w) \/ StepFault(w) \/ Expire(w) \/ Recycle(w)
    \/ User

Spec == Init /\ [][Next]_vars

\* The queue delivers while it has visible messages, an invocation goes on
\* until it returns or is killed, and a visibility timeout passes.
Fairness ==
    \A w \in Worker :
        WF_vars(Delivery(w)) /\ WF_vars(Step(w)) /\ WF_vars(Expire(w))

FairSpec == Spec /\ Fairness

-----------------------------------------------------------------------------
(* Properties                                                              *)

\* The queue, the invocations and the tables hold what their code writes.
TypeOK ==
    /\ enqueued \in [Channel -> 0 .. MaxMessages]
    /\ deleted \in [Channel -> 0 .. MaxMessages]
    /\ held \in [Worker -> [Channel -> 0 .. MaxMessages]]
    /\ pc \in [Worker -> {"idle", "subscriptions", "users", "emails", "send",
                          "killed"}]
    /\ first \in [Worker -> [Channel -> 0 .. MaxMessages]]
    /\ work \in [Worker -> SUBSET Subscription]
    /\ subscriptions \in [Channel \X Email -> Identity \cup {None}]
    /\ replaced \in [Channel \X Email -> SUBSET (Identity \cup {None})]
    /\ unseen \subseteq verified /\ verified \subseteq Email
    /\ online \subseteq known /\ known \subseteq Identity
    /\ mails \in [Channel \X Email -> Seq(1 .. MaxMessages)]
    /\ due \in [Message -> SUBSET Email]
    /\ blind \subseteq Worker
    /\ faults \in 0 .. MaxFaults
    /\ harmed \subseteq Message /\ repeated \subseteq Message

\* Two invocations never work on messages of the same channel at the same
\* time, also when the first was killed: the visibility timeout of the queue
\* is at least the timeout of the lambda.
GroupExclusive ==
    \A v, w \in Worker : v # w =>
        \A c \in Channel : first[v][c] = 0 \/ first[w][c] = 0

\* A subscriber is never mailed about a message after he was mailed about a
\* newer one of the channel, even when batches are delivered again.
MailsInOrder ==
    \A s \in Channel \X Email :
        \A i, j \in DOMAIN mails[s] : i < j => mails[s][i] <= mails[s][j]

\* A subscriber is mailed twice about a message only if an invocation of this
\* very message was killed.
MailedOnce ==
    \A s \in Channel \X Email : \A i, j \in DOMAIN mails[s] :
        mails[s][i] = mails[s][j] => i = j \/ <<s[1], mails[s][i]>> \in repeated

\* Nobody is mailed at an address whose ownership is not proven.
OnlyVerifiedAreMailed ==
    \A s \in Channel \X Email : mails[s] # <<>> => s[2] \in verified

\* "I can enabled email notifications on a channel so I receive an email
\* about new messages posted if I am offline" (features/
\* EmailNotifications.feature:4-6): no message leaves the queue before every
\* address that was due since it was queued was mailed about it, unless a call
\* of its own invocation failed, or its container had no settings.  An
\* invocation that is killed is no excuse: the message is delivered again.  Not
\* due is who subscribed or verified so recently that a read may still miss it,
\* or is not in Twilio: the code drops him without a word.
EveryMessageMailed ==
    [][ \A c \in Channel : \A n \in deleted[c] + 1 .. deleted'[c] :
          \A e \in due[<<c, n>>] :
            <<c, n>> \in harmed' \/ Mailed(c, e, n) ]_vars

\* Whatever the size of the batches, and whatever the lagging reads of the tables
\* say of others: when messages of a channel leave the queue, every address that
\* was due for the first of them was mailed about it, so that a subscriber hears
\* of each batch, although (EveryMessageMailed) not of each of its messages.  As
\* there, only those are due whose rows have caught up, and who are in Twilio.
FirstOfBatchMailed ==
    [][ \A c \in Channel : deleted'[c] > deleted[c] =>
          \A e \in due[<<c, deleted[c] + 1>>] :
            \/ <<c, deleted[c] + 1>> \in harmed'
            \/ Mailed(c, e, deleted[c] + 1) ]_vars

\* Every message leaves the queue, however often its invocation is killed: while
\* messages wait (MaxMessages bounds them), the group runs empty in the end.
QueueDrains ==
    \A c \in Channel : (deleted[c] < enqueued[c]) ~> (deleted[c] = enqueued[c])

-----------------------------------------------------------------------------
(* The inductive invariant: what the queue knows of its consumers, and what *)
(* an invocation knows of its batch.                                       *)

\* The messages in flight wait in the queue, those of a group are in flight
\* to one invocation.
HeldInQueue ==
    \A c \in Channel :
      /\ deleted[c] <= enqueued[c]
      /\ \A w \in Worker : held[w][c] <= enqueued[c] - deleted[c]
      /\ \A v, w \in Worker : v # w => held[v][c] = 0 \/ held[w][c] = 0

\* The batch of an invocation is in flight to it, at the head of its group.
BatchAtHead ==
    \A w \in Worker, c \in Channel :
      first[w][c] # 0 => /\ held[w][c] > 0
                         /\ first[w][c] = deleted[c] + 1

\* What an invocation has to do concerns its batch, and only one that runs
\* has something to do.
WorkFromBatch ==
    \A w \in Worker :
      /\ ~Running(w) => work[w] = {} /\ \A c \in Channel : first[w][c] = 0
      /\ pc[w] = "idle" => \A c \in Channel : held[w][c] = 0
      /\ \A s \in work[w] : /\ first[w][s.channel] # 0
                            /\ pc[w] = "send" => s.email \in verified

\* No mail is about a message that waits behind another one.
MailsFromHead ==
    \A s \in Channel \X Email : \A i \in DOMAIN mails[s] :
        mails[s][i] <= deleted[s[1]] + 1

DeliveryInv ==
    /\ TypeOK
    /\ HeldInQueue
    /\ BatchAtHead
    /\ WorkFromBatch
    /\ MailsFromHead
    /\ MailsInOrder
    /\ OnlyVerifiedAreMailed

\* Invocation w has yet to serve the subscription of e to c.
Pending(w, c, e) == \E s \in work[w] : s.channel = c /\ s.email = e

\* The address is in what an invocation has to do once, and if it was mailed
\* about the head of a group, it is not there any more, unless an invocation
\* of the head was killed.
HeadMailedOnce ==
    /\ \A w \in Worker : \A s, t \in work[w] :
         s.channel = t.channel /\ s.email = t.email => s = t
    /\ \A c \in Channel, e \in Email :
         Mailed(c, e, deleted[c] + 1) /\ <<c, deleted[c] + 1>> \notin repeated =>
           \E w \in Worker : first[w][c] # 0 /\ pc[w] = "send" /\ ~Pending(w, c, e)

IInv ==
    /\ DeliveryInv
    /\ HeadMailedOnce
    /\ MailedOnce

-----------------------------------------------------------------------------
(* What holds in addition of those who are due, for any batch size, about   *)
(* the first message of a batch.                                            *)

\* Who is due has met the conditions since the message was queued.
DueAreEligible == \A m \in Message : due[m] \subseteq Eligible(m[1])

\* An invocation works on the head of what is in flight to it.
BatchSizes ==
    \A w \in Worker, c \in Channel :
      /\ held[w][c] <= BatchSize
      /\ Running(w) /\ held[w][c] > 0 => first[w][c] # 0

\* Invocation w will mail e about the first message of c in its batch, or has.
Served(w, c, e) ==
    /\ pc[w] \in {"users", "emails"} =>
          \E s \in work[w] : /\ s.channel = c /\ s.email = e
                            /\ s.identity = subscriptions[<<c, e>>]
    /\ pc[w] = "send" => Pending(w, c, e) \/ Mailed(c, e, first[w][c])

\* Who is due was mailed or will be, as long as no call failed.
DueAreServed ==
    \A w \in Worker, c \in Channel : first[w][c] # 0 =>
        \A e \in due[<<c, first[w][c]>>] :
            <<c, first[w][c]>> \in harmed \/ Served(w, c, e)

DueInv == DueAreEligible /\ BatchSizes /\ DueAreServed
=============================================================================
