# A verification of the Twilio integration

This project models the serverless backend that connects the DistributeAid
toolbox with Twilio Programmable Chat. The backend hands out chat tokens,
creates users and channels in Twilio, and notifies subscribers by email about
chat messages. Nothing in it runs alone for long. Lambdas run concurrently and
can be killed at any time, and they meet in DynamoDB tables, in an SNS topic
that delivers at least once, in an SQS FIFO queue that delivers again, and in
Twilio. The modules model these interleavings. TLC checks them on small
instances, and TLAPS proves the safety properties for every instance.

Paths are relative to the root of the repository.

## 1. Inventory

| Component | Source | State | Operations |
|---|---|---|---|
| Enabling notifications | `appsync/mutations/enableChannelNotifications.ts`, `notifications/createSubscription.ts`, `notifications/findEmailVerification.ts` | subscription table (channel, `email:`address → identity) | verify the token, check the channel, put, publish, get |
| Email confirmation | `notifications/lambda/sendEmailConfirmationCode.ts`, `notifications/addEmailToBeVerified.ts`, `notifications/sendEmail.ts` | verification table (email → code, verified) | draw a code, conditional put, send |
| Email verification | `notifications/lambda/verifyEmailMutation.ts`, `notifications/verifyEmailByCode.ts` | verification table | conditional update, publish |
| Webhook receiver | `notifications/lambda/receiveTwilioWebhooks.ts` | per container: settings, channels | fetch, queue, acknowledge |
| Notification queue | `aws/features/twilio-notifications.ts` | FIFO queue, a message group per channel | deliver, hide, delete, deliver again |
| Notification sender | `notifications/lambda/sendEmailNotifications.ts`, `notifications/findSubscriptionByChannel.ts` | per container: settings | find subscriptions, users and verifications, send |
| Chat token | `appsync/mutations/createChatToken.ts` | per container: settings | verify the token, publish, return |
| User and channel setup | `integration/setUpUserChannels.ts`, `integration/api.ts` | Twilio's users, channels, members | fetch or create, in parallel per channel |
| Token verification | `appsync/verifyToken.ts`, `appsync/getChatSettings.ts`, `appsync/getSettings.ts` | per container: key sets by key id | look up, keep, verify |
| Settings | `twilio/getTwilioSettings.ts`, `sendgrid/getSendGridSettings.ts` | SSM parameters | read all or fail |
| Configuration script | `scripts/configureChat.ts` | Twilio's roles, users' roles and webhook | register, create, assign, delete |
| Other scripts, `updateNick`, development and test stacks | `scripts/`, `aws/resources/`, `feature-runner/` | none shared | see `PROJECT.json` |

How they interact:

- The GraphQL mutations publish events (`events/events.ts`) on one SNS topic.
  The topic invokes the lambda whose filter names the event:
  `ChannelSubscriptionCreated` starts the email confirmation and
  `ChatTokenCreated` starts the setup. Nothing listens to `EmailVerified`.
- The verification table is written by the confirmation and the verification,
  and read by the mutation and the sender. The subscription table is written by
  the mutation and read by the sender. No read asks for consistency
  (`ConsistentRead`), so that each may answer with a row of the past.
- Twilio calls the webhook receiver. The receiver fills the queue, and the queue
  invokes the sender.
- Every GraphQL lambda that takes a JWT uses the token verification.

What is hard: duplicate deliveries and concurrent confirmations; a lambda killed
between a conditional write and what should follow it; a webhook called again
while its first attempt is still served; a batch delivered again while its
invocation may still run; tables read before the latest write has reached all copies;
fetch-then-create races; results kept for the life of a
container, failures included; a script that stops half way. `PROJECT.json` lists each hazard at its line, with the
properties that would catch it.

What makes each component correct:

- *Subscribing and verifying*: an address has one code, whatever is mailed to it
  is that code, only that code verifies it, and replies tell the truth.
- *Notifying*: a channel is worked on by one invocation at a time, mails are in
  order and go to verified addresses only, and every message is mailed.
- *Setting up*: whoever holds a token becomes a member of exactly its channels.
- *Verifying tokens*: verdicts agree with the served key set.
- *Receiving webhooks*: what is acknowledged is queued, once and in order.
- *Configuring*: no user keeps a role that was deleted, and a run after a failed
  one repairs what that left behind.
- *From the chat to the mail*: all of it together is a notification service, a
  message is never lost between two components, and is mailed in the end to
  whoever is due.
- *From the request to the mail*: only who was entitled to subscribe and has proven
  to own the address is mailed, and whoever the mutations have told so is.

## 2. Modules

| Module | Models | Proofs |
|---|---|---|
| `EmailOwnership` | the promise of the email verification, without lambdas | |
| `ChannelSubscription` | enabling notifications, confirmation, verification | `ChannelSubscriptionProofs` |
| `EmailNotifications` | the queue and the sender | `EmailNotificationsProofs` |
| `WebhookReceiver` | Twilio's webhooks and the receiver | `WebhookReceiverProofs` |
| `NotificationService` | the promise of the notifications, without lambdas | |
| `NotificationSystem` | receiver, queue and sender composed | `NotificationSystemProofs` |
| `SubscriberSystem` | mutations, confirmation, verification and sender composed at the two tables | `SubscriberSystemProofs` |
| `ChannelSetup` | the chat token and the setup | `ChannelSetupProofs` |
| `TokenVerification` | the token verification and its cache | `TokenVerificationProofs` |
| `RoleMigration` | the promise of the configuration script, without runs | |
| `ConfigureChat` | the configuration script | `ConfigureChatProofs` |

`MC*` modules give the instances for TLC. Operators whose comment begins with
"Mutant of" are faulty variants of the definition they name. No specification
uses them: each shows that a property would notice that fault.

### ChannelSubscription

There is one record per invocation (`api`, `confirm`, `attempts`); `pc` is the
call it makes next. Each call to a service is one action. `Subscribe`, `Publish`
and `FindEmail` are the three links of the pipe in `enableChannelNotifications`.
`StoreCode`, `Conflict` and `SendCode` are those of `sendEmailConfirmationCode`.
`AcceptCode`, `RejectCode` and `PublishVerified` are those of `verifyEmail`. The
fault actions let the call under way fail with or without having been executed.
That covers an error, a lost reply, and a lambda killed just after the call, and
it ends the invocation as the code does. A container whose promise of the SendGrid
settings is a Left drops every later confirmation it serves: `blind` says that there
is one, `SettingsFault` makes it, and any invocation may be served by it
(`ReturnBlind`). `harmed` records the addresses a confirmation of which failed or had
no settings. `Deliver` lets the topic invoke the
confirmation up to `MaxDeliveries` times per event, at any time and concurrently.
`FindEmail` is an eventually consistent read and may miss a recent verification.
The verdict on the JWT is an input (`valid`).

`EmailOwnership` is the abstract specification: issue one code per address, mail
it to that address, verify after that. `ImplementsOwnership` is the refinement.
The state of the abstract specification is a part of the detailed one (`code`,
`mailbox`, `verified`).

### EmailNotifications

The messages of a channel are numbered in queue order; what waits in channel `c`
is `deleted[c]+1 .. enqueued[c]`. `Receive` hands an invocation the oldest
messages of groups nobody else holds, `BatchSize` at most. `FindSubscriptions`,
`FindUsers` and `FindEmails` are the stages of the handler, and `SendMail` is one
concurrent send. `Finish`, `ReadFault`, `SettingsFault` and `ReturnBlind` are the
ways to return, and all of them delete the batch. `blind` holds the containers
whose promise of the settings is a Left: `SettingsFault` puts one there, every
later batch of the container ends in `ReturnBlind`, and only a new container
(`Kill`, `Recycle`) reads the settings again. `Kill` is a crash or the timeout of
the lambda, and `Expire` the visibility timeout. Time itself is abstracted. A batch
that is being worked on can expire only if the visibility timeout is shorter than
the timeout of the lambda, and the stack sets both to the same value. Users
join Twilio, subscribe, verify and go on- and offline at any time.

Neither the Query of the subscriptions nor the GetItem of a verification is
consistent. `subscriptions` and `verified` are what was written. `replaced` holds,
for each row of the first, who a lagging read may still find there (nobody, or former
subscribers), and `unseen` the verified addresses that a lagging read may still find
unverified. `FindSubscriptions` and `FindEmails` choose for each row between the two,
anew in each read. A row catches up at any time, or never (`SubscriptionCatchesUp`,
`VerificationCatchesUp`, without fairness). A user that Twilio does not know
(`known`) is left out by `FindUsers` without a failed call, as `findUser` takes every
error for a user that does not exist; leaving out a user that is known takes a failed
call, which harms the messages of the channels he has subscribed.

Three variables are history. `due` says who has to be mailed about a message
because from the moment it was queued he was in Twilio, offline, and subscribed and
verified in rows that every read finds (`Eligible`). Whoever subscribed or verified so
recently that a read can miss it is not due: the code drops him, deletes the batch, and
no call has failed. So the delivery properties claim nothing for him, and they hold
for the others whatever the reads return.
`harmed` holds the messages a call of whose own invocation failed, and `repeated`
those whose invocation was killed. The properties excuse a message by what befell
this message, not by a failure somewhere.

### WebhookReceiver

`webhook[m]` is what Twilio knows of the webhook of message `m`, and
`pc`/`call`/`twilioSettings`/`channelInfo` are the variables of the containers:
`ReadSettings`, `FetchChannel` and `SendMessage` are the three awaited calls of the
handler. A kept promise is used without a call, a rejected one, too. Without
settings the handler answers 202 all the same (`Settled`); if the channel cannot
be fetched or the message not be sent it throws, and Twilio tries again, up to
`MaxAttempts` times. Twilio may also stop waiting (`GiveUp`) and call another
container while the first one goes on: its late answer is ignored (`Awaited`), but
what it sends is queued. The queue drops a message whose id it has seen
(`Enqueued`). `before` is history: which messages were acknowledged when one was
posted, the only order of the chat that the webhooks preserve. `dropped` and `hit`
record what excuses a message or a channel.

### NotificationSystem and NotificationService

`NotificationSystem` extends the sender and instantiates the receiver; they share
the queue, which the receiver sees as a sequence (`fifo`) and the sender as two
counters. `Forward` couples them: a step that appends to `fifo` is an `Enqueue` of
the sender. Everything else interleaves. `awaiting` is history: who was eligible
(`Eligible`, as above) when a chat message was posted and has remained so without a
mail.

`NotificationService` is the abstract specification: messages are posted,
accepted once in some order, and mailed to verified subscribers in the order they
were accepted in. `ImplementsService` is the refinement; `accepted` is what the
receiver has put in the queue.

### SubscriberSystem

`SubscriberSystem` extends the sender, too, and instantiates `ChannelSubscription`
(`Enrolment`). The two share the tables: `subscriptions` and `verified` are the
same variables. In `EmailNotifications` alone the tables change as they like
(`Subscribe`, `Verify`); here they change only as the mutations write them, and
`Follow` lets the sender's history (`due`) see each write. The queue and the
invocations of the sender go on between any two calls of a mutation or of the
confirmation (`SenderStep`). One bound, `MaxFaults`, counts the failures of both.
What had been read from the tables before a write is still in `work`, so that an
invocation can be about to mail a subscriber who was replaced meanwhile, and each
write leaves the sender's reads lagging behind it.

`Told` is what the callers of the mutations have heard, and `owed` is history: who was
told before a message was queued, and relies on a mail about it as long as no read
misses his rows, nobody replaces him, and he is in Twilio and offline. `owed` is taken
from the replies, `due` from the tables; that `ToldAreMailed` holds takes the mutations
(a reply is true), the tables (nothing undoes it) and every stage of the sender.

The mutation's own read of the verification table (`ChannelSubscription`'s
`FindEmail`) may miss a verification however old it is, which only adds behaviours: no
property relies on it to catch up.

### ConfigureChat

`pc[r]` is the next call of run `r` of the script. `oldListed`, `userRole` and
`unassigned` are its local variables `defaultServiceUserRole`, `userServiceRole`
and the updates under way in `Promise.all`. A call that fails ends the run,
executed or not (`CallFault`); of the assignments any may be done then. Other runs,
before, after or at the same time, and the users that `setUpUserChannels` creates
meanwhile, share the chat service.

`RoleMigration` is the abstract specification: users join with the default role, the
default and the users go from the old role to new ones, and the old role is retired
when it is nobody's and not the default. `ImplementsMigration` is the refinement; the
state of the abstract specification is `roles`, `defaultRole` and `roleOf`.

### ChannelSetup

`setup[d]` is the position of invocation `d`, and `chain[d][c]` that of its chain
of calls for channel `c`. The chains run in parallel, as under `Promise.all`.
Fetch and create are separate actions, so that invocations race. A creation that
Twilio refuses because the thing exists is no error for the chain: `then` follows
a Left, too. `blind` and `ReturnBlind` are those of `ChannelSubscription`, for the
Twilio settings. `lost` records the invocations that had no settings, were killed, or
a creation of which failed.

### TokenVerification

`jwks[k]` is the cache of container `k`, by key id. A container serves one call
at a time. The operator registers the URL and changes the key set between any
two steps of a look up. Whether a token is well signed and current is abstracted
to the key it was signed with. `listed`, `unlisted` and `current` are history
variables: what a container could have seen since it was first asked for a key id
(and, for `current`, since its call began).

## 3. Runs

| Run | Properties | Shows |
|---|---|---|
| `subscription_safety` | `TypeOK`, `OneCodePerAddress`, `OwnershipProven`, `RepliesHold`, `AuthorisedSubscriptions`, `EndedAreMailed`, `ImplementsOwnership`, `ConfirmationMailedOrFault` | safety under duplicates, races and two faults; refinement; the code is mailed unless a confirmation of its own address failed |
| `subscription_lost_code` | `ConfirmationMailed` | **violated**: one fault loses the code for ever |
| `notifications_safety` | `TypeOK`, `GroupExclusive`, `MailsInOrder`, `MailedOnce`, `OnlyVerifiedAreMailed`, `FirstOfBatchMailed` | safety under redelivery, lagging reads, two invocations, batches of two; of each batch the first message is mailed |
| `notifications_batch` | `EveryMessageMailed` | **violated** with larger batches, as in production |
| `setup_races` | `TypeOK`, `MembersAuthorised`, `SetupComplete`, `TokenLeadsToMembership` | races of setups under two faults; every announced token leads to its memberships |
| `setup_token` | `TokenImpliesMembership` | **violated**: the token comes before the memberships |
| `token_safety` | `TypeOK`, `AcceptedWereListed`, `ListedAreAccepted` | the cache under key changes and faults |
| `token_removed_key` | `AcceptedAreCurrent` | **violated**: a removed key is accepted from the cache |
| `webhook_safety` | `TypeOK`, `QueuedOnce`, `AcknowledgedAreQueued`, `QueuedInOrder`, `FailuresIsolated` | the receiver under retries, late attempts and kept failures |
| `configure_safety` | `TypeOK`, `RolesExist`, `PermissionsFixed`, `ImplementsMigration` | overlapping, failed and repeated runs of the script while users are created; refinement |
| `system_delivery` | `SystemTypeOK`, `MailsFollowChat`, `MailedOncePerMessage`, `NothingIsForgotten`, `ImplementsService`, `EveryMessageMailed`, `QueueDrains`, `PostedLeadsToMail` | from the message to the mail: refinement, no message is lost between two components, delivery with batches of one as the tests deploy, progress |
| `subscriber_entitled` | `MailedAreEntitled`, `ToldAreMailed` | from the request to the mail: subscribers are replaced and addresses verified while the sender works on lagging reads; who was told that he is notified is mailed |

The violated properties quote a document of the repository; `PROJECT.json` says
under `findings` what the code does instead. In short:

- The conditional put comes before the send. After one failure between them every
  retry ends in a conflict, and the address can never be verified.
- The sender mails only the first message of a channel per batch. The tests
  deploy a batch size of one and cannot see it.
- `createChatToken` returns before the setup has run, and also when the event
  could not be published.
- A key set is kept per key id for the life of a container.
- (Without a run.) The development token API reads `contexts`, while the README
  calls it with `context`.

### Bounds

The bounds are the sets of actors and `MaxDeliveries`, `MaxFaults`,
`MaxMessages`. Every hazard needs at most two actors in conflict and one failure
between two of their steps, so most runs have at least two of each kind that can
conflict, and most have two faults so that a fault can hit the recovery from
another one.

- `subscription_safety`: two requests delivered twice give four concurrent
  confirmations, of one address or of two. One attempt to verify is enough,
  because attempts do not influence each other except through `verified`. Of the
  two users one may not use the channel; two who may and subscribe the same
  address are in `subscriber_entitled`.
- `notifications_safety`: two channels, so that a batch can mix groups; two
  messages per channel, so that one can wait behind the other; two invocations.
  One address is enough, since addresses meet only in `work`, a set; and one user,
  who appears in both channels: what a second one adds is that he replaces the first,
  which is what `subscriber_entitled` is for.
- `setup_races`: two requests, of one user or of both. `MaxDeliveries` is 1 there:
  a second delivery of an event does what a second request of the same user does.
  One user has two channels and shares one.
- `webhook_safety`: two channels, for a failure to spread from one to the other;
  two messages of each, to be turned around; two containers and two attempts, for
  a late attempt to meet its repetition.
- `configure_safety`: three runs, so that two can overlap while a third has failed
  or follows; three users, before, during and after the assignments. A run that
  fails stays failed: running the script again is the next run.
- `system_delivery`: one worker of the sender, because a group is exclusive
  (`notifications_safety` has two), one channel, user and address, because
  channels interact only in batches and through the containers (`webhook_safety`
  has two); two containers of the receiver, two messages and two attempts. One
  fault anywhere in the system, as `MaxFaults` bounds both components together.
- `subscriber_entitled`: three users, two who may use the channel, to replace each
  other as the subscriber of the one address, and one who may not; two requests, an
  attempt, one invocation of the sender with one message, and one fault in any of
  them. The two users who may, and the two requests, are interchangeable (symmetry). The components have larger instances of their own; this one is for a write
  between a read and its use.
- `token_safety`: one container, because containers share nothing but the
  document, which the operator changes at will; two key ids and two keys, so that
  a key can be replaced as well as removed. `token_removed_key` has two containers.

`CHECK_DEADLOCK FALSE` everywhere: all requests may be served and all bounds used
up, and the system then waits for its users. Symmetry is used only in runs of
invariants and of action properties that treat the permuted values alike
(`FirstOfBatchMailed`, `ImplementsMigration`, `ToldAreMailed`), never with a liveness property.

### Fairness

An invocation goes on until it ends (weak fairness of its next call), because
Lambda runs it and every call returns or fails. SNS invokes the lambda at least
once per accepted event, so that the first `Deliver` is weakly fair; in
`RetrySpec` its redeliveries are, too, which makes the violation of
`ConfirmationMailed` stronger. SQS delivers visible messages and makes a batch
visible again after the timeout. Twilio calls the webhooks that are due, as long as the
chat service is set to retry. No fairness is assumed of users, of the operator,
of rows that have yet to catch up, or of faults, which are bounded. `QueueDrains` thus says: if invocations are not
killed for ever, every message leaves the queue. A container that keeps a failure
need not be replaced ever (no fairness of `Recycle`); `PostedLeadsToMail` holds
because what such a container does to a message excuses it.

## 4. Proofs

Each proof module shows `Spec => []IInv` by `InitIInv` and `NextIInv`, with one
lemma per action (or per group of actions that write the same variables). The
theorems about the single properties follow. The assumptions are the named
`ASSUME`s of the modules: the shape of the constants, and that `None` (and
`Failed`) are not among the values they stand apart from. Nothing is assumed of
the sizes of the sets or the bounds. TLC has checked every `IInv` as an invariant
of the instances above.

- `ChannelSubscription`: the properties are not inductive alone. A confirmation
  that is about to send must hold the code on record (`ConfirmationsInOrder`).
  That stays so because nothing overwrites a code. An attempt must quote a code
  that was mailed to somebody (`AttemptsInOrder`), and as codes are distinct
  (`CodesDistinct`), matching the code of an address means that it was mailed to
  this address. `CallsInOrder` says what a request has done by its position.
  `Refinement` maps each step: `StoreCode` is `Issue`, `SendCode` is `Mail`,
  `AcceptCode` is `Verify`, a fault is the step whose call was executed, and all
  other steps stutter. `EndedAreMailed` is the safety half of
  `ConfirmationMailedOrFault`: no confirmation ends leaving nobody responsible for
  the mail. It follows from `MailInv`: a row in the table means that the mail was
  sent, is about to be, or was lost to a failure (`RowsMailed`), and whoever ended
  without a failure has left a row (`EndedHaveRow`).
- `EmailNotifications`: messages in flight wait in the queue and are in flight to
  one invocation per group (`HeldInQueue`). An invocation's batch is at the head
  of its groups (`BatchAtHead`), which needs the visibility timeout to be at least
  the lambda's. Hence no mail is about a message behind the head
  (`MailsFromHead`), and mails are in order although batches come again.
  `MailedOnce` needs to know, in addition, that an address that was mailed about
  the head of a group is not in what its invocation has yet to do
  (`HeadMailedOnce`). `EveryMessageMailed` is an action property and holds for
  `BatchSize = 1` only, which is an assumption of its theorem; `DueInv` follows who
  is due through the stages of the invocation that has the head of the group.
  The lagging reads need care at one place: whoever is due has caught up
  (`DueAreEligible`), a row that has caught up can be read in one way only, and it can
  only fall behind again by a `Subscribe`, after which its address is not due.
  `DueInv` does not need batches of one: with batches of any size it is about the
  first message of a channel, and proves `FirstOfBatchMailed`. So a subscriber
  hears of every batch, in production, too; what the violation of
  `EveryMessageMailed` loses is the rest of a batch and nothing else.
- `WebhookReceiver`: what a container is called about was posted
  (`WebhooksPosted`), and a container that is about to send has the promise of the
  right channel, while a rejected one means that a call for that channel failed
  (`PromisesHold`). An attempt that answers has sent or dropped the message, which
  the queue never forgets.
- `ConfigureChat`: a run that assigns a role knows the old one if it still exists
  (`RunsKnow`), users with the old role are those it has yet to change
  (`RunsProgress`), and whoever deleted the old role has left nobody with it
  (`OldUnused`). The runs need no order: all of them move users away from the old role
  only. `MigrationRefinement` maps each step to one of `RoleMigration`: a failed
  call is the step it executed, and a failure among the assignments is an `Assign`
  of those users that were reached. It needs that a run assigns roles to users who
  exist (`ListedExist`).
- `NotificationSystem`: `SystemInv` joins the invariants of both components with
  what relates them (`enqueued[c] = Len(fifo[c])`; mails are about places in
  `fifo`). A step of one component is a stutter or an `Enqueue` of the other, so
  that each keeps its own invariant by its own lemmas, cited through EXTENDS and
  INSTANCE. `SystemImplementsSender` and `SystemImplementsService` are the step
  simulations. `NothingIsForgotten` is the safety half of `PostedLeadsToMail`, for
  batches of one: `AwaitInv` says that whoever awaits a mail about a message in the
  queue is due for it there (`AwaitingAreDue`), and still meets the conditions
  (`AwaitingAreEligible`). The receiver's invariant brings an acknowledged message
  into the queue, and the sender's `EveryMessageMailed` lets it leave only mailed
  or harmed.
- `SubscriberSystem`: a step of the enrolment is one that the sender allows its users,
  and a step of the sender leaves the tables alone, so that both specifications are
  implemented (`SystemImplementsSender`, `SystemImplementsEnrolment`) and both
  invariants hold. `LinkInv` adds what the sender remembers of the tables: what an
  invocation has read, or a lagging read still finds, was a subscription then
  (`WorkSubscribed`) of a user with the right to it (`WorkEntitled`,
  `FormerEntitled`), and a subscription is replaced but never removed
  (`MailsSubscribed`). `ToldAreMailed` is an action property. What a mutation has
  answered stays true, as rows are never removed and a verification never undone
  (`ToldIsEnrolled`), so that whoever relies on a mail is due for it as long as he does
  (`OwedAreDue`), and the sender's `DueInv` brings it to him.
- `ChannelSetup`: only running invocations make calls, for channels of their token
  (`ChainsAuthorised`). What a chain has found or created is still there when it
  relies on it, because Twilio only gains entries (`ChainsProgress`).
- `TokenVerification`: what a container keeps for a key id, or is looking up, is
  among what it could have seen since it was first asked (`OutcomesSeen`,
  `LookupsSeen`).

Only model-checked: the liveness properties (`ConfirmationMailedOrFault`,
`QueueDrains`, `TokenLeadsToMembership`, `PostedLeadsToMail`), which need fairness
and `ENABLED`, and which the prover does not handle. Of three of them what safety can
say is proved: nothing ends without what it owes (`EndedAreMailed`, `SetupComplete`,
`NothingIsForgotten`), so that only the progress itself rests on TLC. Every other
property of a passing run is proved. `EveryMessageMailed` and `NothingIsForgotten`
are proved for batches of one, since they are false for larger ones
(`notifications_batch`).

## 5. What is not modelled

- Services are modelled by what the code relies on. DynamoDB: single-item
  conditional writes. SNS: at least once. SQS FIFO: order and exclusion per group.
  Twilio: names are unique. SendGrid: takes a mail or fails.
- Codes do not collide (`FreshCode`). Three random words could, which the code
  does not check.
- The queue's deduplication window (five minutes) is assumed to be longer than all
  attempts at a webhook take. How often Twilio calls (`MaxAttempts`) is a setting
  of the chat service, which the script does not set.
- A channel keeps its unique name, and is identified with it: a name that changes
  while a container keeps the old one, and the channels without a name
  (`sendEmailNotifications.ts:100`), are not modelled.
- In the sender, a stage reads all its rows in one step, and a Query has one page
  (`findSubscriptionByChannel.ts:35`).
- Nothing is claimed of mails to those whose subscription or verification a lagging
  read may still miss, nor to subscribers that Twilio does not know: the code may skip
  both without a failed call.
- The contents of mails, tokens, roles and logs, GraphQL errors, AWS
  infrastructure, and code that shares no state with anything that runs at the
  same time (maintenance scripts, test and development stacks). `updateNick` is
  deployed by no stack.
- The operator is assumed never to replace right settings by wrong ones. That a
  container keeps settings that could not be read is modelled for every lambda that
  has any; where containers share nothing else (`ChannelSubscription`,
  `ChannelSetup`), one variable says whether there is such a container.

## 6. Plan

What could be added: the pages of a Query and channels without a name, if the code
comes to handle them; the composition of
`ChannelSetup` with `NotificationSystem` (a member who was never set up cannot
post); `EveryMessageMailed` for every batch size, once the sender looks at all
messages of a batch.
