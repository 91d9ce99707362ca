--------------------------- MODULE WebhookReceiver ---------------------------
(***************************************************************************)
(* Twilio calls a webhook after a chat message was posted, and once more   *)
(* if it gets no answer or an error, as often as the chat service is set   *)
(* to.  The lambda receiveTwilioWebhooks looks up the channel of the       *)
(* message and puts the message in the FIFO queue, in the message group of *)
(* the channel.  Each of its containers keeps the promises of the settings *)
(* and of the channels for as long as it lives, rejected ones, too.  The   *)
(* webhooks of several messages, and several attempts of one webhook, are  *)
(* served by several containers at the same time.                          *)
(***************************************************************************)
EXTENDS Naturals, Sequences

CONSTANTS
    Channel,        \* the chat channels
    Container,      \* the containers of the lambda
    MaxMessages,    \* bound: how many messages a channel gets
    MaxAttempts,    \* how often Twilio calls the webhook of a message
    MaxFaults,      \* bound: how many calls fail, time out, or are killed
    None,           \* no call, no promise
    Failed          \* a rejected promise, or Left

ASSUME BoundsAssumption ==
    MaxMessages \in Nat /\ MaxAttempts \in Nat \ {0} /\ MaxFaults \in Nat
ASSUME NoneAssumption == None \notin Channel \cup {Failed} /\ Failed \notin Channel

\* The messages of a channel are numbered in the order they are posted.
Message == Channel \X (1 .. MaxMessages)

\* An attempt at the webhook of a message.
Call == Message \X (1 .. MaxAttempts)

VARIABLES
    registered,     \* whether the settings hold the Twilio credentials
    posted,         \* posted[c]: how many messages were posted to channel c
    webhook,        \* webhook[m]: Twilio's attempts for m and what came of them
    pc,             \* pc[k]: what container k does next
    call,           \* call[k]: the call it serves
    twilioSettings, \* twilioSettings[k]: its promise of the settings
    channelInfo,    \* channelInfo[k][c]: its promise of channel c
    fifo,           \* fifo[c]: what was put in the group of c, in this order
    dropped,        \* the messages that were acknowledged without settings
    hit,            \* the channels a call of whose webhooks failed
    before,         \* before[m]: the messages acknowledged when m was posted
    faults          \* how many calls failed, timed out, or were killed

container == <<pc, call, twilioSettings, channelInfo>>
vars == <<registered, posted, webhook, container, fifo, dropped, hit, before, faults>>

\* A message in the queue: its number, and the channel it was sent with.
Entry == [index : 1 .. MaxMessages, channel : Channel]

Init ==
    /\ registered \in BOOLEAN
    /\ posted = [c \in Channel |-> 0]
    /\ webhook = [m \in Message |-> [state |-> "none", attempt |-> 0]]
    /\ pc = [k \in Container |-> "idle"]
    /\ call = [k \in Container |-> None]
    /\ twilioSettings = [k \in Container |-> None]
    /\ channelInfo = [k \in Container |-> [c \in Channel |-> None]]
    /\ fifo = [c \in Channel |-> <<>>]
    /\ dropped = {}
    /\ hit = {}
    /\ before = [m \in Message |-> {}]
    /\ faults = 0

-----------------------------------------------------------------------------
\* The message container k is called about, and its channel.
MessageOf(k) == call[k][1]
ChannelOf(k) == MessageOf(k)[1]

\* Twilio still waits for the answer of container k.
Awaited(k) ==
    webhook[MessageOf(k)] = [state |-> "sent", attempt |-> call[k][2]]

\* What becomes of webhook h when its attempt fails.
Retried(h) ==
    [h EXCEPT !.state = IF h.attempt < MaxAttempts THEN "due" ELSE "failed"]

\* Twilio learns whether the attempt it waits for was a success.
Answer(k, success) ==
    webhook' = [webhook EXCEPT ![MessageOf(k)] =
                  IF ~Awaited(k) THEN @
                  ELSE IF success THEN [@ EXCEPT !.state = "acknowledged"] ELSE Retried(@)]

\* Container k has served its call and waits for the next one.
Idle(k) == pc' = [pc EXCEPT ![k] = "idle"] /\ call' = [call EXCEPT ![k] = None]

Fault(c) == faults < MaxFaults /\ faults' = faults + 1 /\ hit' = hit \cup {c}

\* The messages in the group of channel c.
Queued(c) == {fifo[c][i].index : i \in DOMAIN fifo[c]}

-----------------------------------------------------------------------------
(* Twilio                                                                  *)

\* A message is posted, and its webhook is due.
Post(c) ==
    /\ posted[c] < MaxMessages
    /\ posted' = [posted EXCEPT ![c] = @ + 1]
    /\ webhook' = [webhook EXCEPT ![<<c, posted[c] + 1>>].state = "due"]
    /\ before' = [before EXCEPT ![<<c, posted[c] + 1>>] =
                    {n \in 1 .. posted[c] : webhook[<<c, n>>].state = "acknowledged"}]
    /\ UNCHANGED <<registered, container, fifo, dropped, hit, faults>>

\* Twilio calls the webhook of m, and an idle container serves the call.
Invoke(k, m) ==
    /\ webhook[m].state = "due" /\ pc[k] = "idle"
    /\ webhook' = [webhook EXCEPT ![m] = [state |-> "sent", attempt |-> @.attempt + 1]]
    /\ call' = [call EXCEPT ![k] = <<m, webhook[m].attempt + 1>>]
    /\ pc' = [pc EXCEPT ![k] = "settings"]
    /\ UNCHANGED <<registered, posted, twilioSettings, channelInfo, fifo, dropped, hit,
                   before, faults>>

\* Twilio waits no longer for the answer about m, which may still be served.
GiveUp(m) ==
    /\ webhook[m].state = "sent"
    /\ Fault(m[1])
    /\ webhook' = [webhook EXCEPT ![m] = Retried(@)]
    /\ UNCHANGED <<registered, posted, container, fifo, dropped, before>>

-----------------------------------------------------------------------------
(* receiveTwilioWebhooks                                                   *)

\* Container k goes on if it has settings; else it acknowledges all the same.
Settled(k, settings) ==
    /\ twilioSettings' = [twilioSettings EXCEPT ![k] = settings]
    /\ \/ /\ settings # Failed
          /\ pc' = [pc EXCEPT ![k] = "channel"]
          /\ UNCHANGED <<webhook, call, dropped>>
       \/ /\ settings = Failed
          /\ Answer(k, TRUE) /\ Idle(k)
          /\ dropped' = dropped \cup {MessageOf(k)}

\* The settings are read unless the container has the promise of them.
ReadSettings(k) ==
    /\ pc[k] = "settings"
    /\ Settled(k, IF twilioSettings[k] # None THEN twilioSettings[k]
                  ELSE IF registered THEN "right" ELSE Failed)
    /\ UNCHANGED <<registered, posted, channelInfo, fifo, hit, before, faults>>

SettingsFault(k) ==
    /\ pc[k] = "settings" /\ twilioSettings[k] = None
    /\ Fault(ChannelOf(k))
    /\ Settled(k, Failed)
    /\ UNCHANGED <<registered, posted, channelInfo, fifo, before>>

\* Mutant of Slot: one promise is kept for all channels.
SlotOfAll(c) == CHOOSE d \in Channel : TRUE

\* The key of channelInfo for channel c.
Slot(c) == c

\* Container k goes on with its promise of the channel, or the handler throws.
Fetched(k, info) ==
    /\ channelInfo' = [channelInfo EXCEPT ![k][Slot(ChannelOf(k))] = info]
    /\ \/ /\ info # Failed
          /\ pc' = [pc EXCEPT ![k] = "send"]
          /\ UNCHANGED <<webhook, call>>
       \/ /\ info = Failed
          /\ Answer(k, FALSE) /\ Idle(k)

\* Mutant of FetchChannel: the webhook is acknowledged before the message is sent.
FetchAcknowledging(k) ==
    /\ pc[k] = "channel" /\ channelInfo[k][Slot(ChannelOf(k))] # Failed
    /\ channelInfo' = [channelInfo EXCEPT ![k][Slot(ChannelOf(k))] = ChannelOf(k)]
    /\ pc' = [pc EXCEPT ![k] = "send"]
    /\ Answer(k, TRUE)
    /\ UNCHANGED <<registered, posted, call, twilioSettings, fifo, dropped, hit, before,
                   faults>>

\* The channel is fetched unless the container has the promise of it.
FetchChannel(k) ==
    /\ pc[k] = "channel"
    /\ LET info == channelInfo[k][Slot(ChannelOf(k))]
       IN  Fetched(k, IF info # None THEN info ELSE ChannelOf(k))
    /\ UNCHANGED <<registered, posted, twilioSettings, fifo, dropped, hit, before, faults>>

FetchFault(k) ==
    /\ pc[k] = "channel" /\ channelInfo[k][Slot(ChannelOf(k))] = None
    /\ Fault(ChannelOf(k))
    /\ Fetched(k, Failed)
    /\ UNCHANGED <<registered, posted, twilioSettings, fifo, dropped, before>>

\* Mutant of Enqueued: the promise of the channel is sent, which is not awaited.
EnqueuedPromise(k) ==
    [fifo EXCEPT ![ChannelOf(k)] = Append(@, [index |-> MessageOf(k)[2], channel |-> None])]

\* Mutant of Enqueued: deduplication by call in place of message id.
EnqueuedAgain(k) ==
    [fifo EXCEPT ![ChannelOf(k)] =
       Append(@, [index |-> MessageOf(k)[2],
                  channel |-> channelInfo[k][Slot(ChannelOf(k))]])]

\* The queue after container k has sent the message: the queue drops one whose
\* id it has seen, for longer than the attempts at a webhook take.
Enqueued(k) ==
    IF MessageOf(k)[2] \in Queued(ChannelOf(k)) THEN fifo
    ELSE [fifo EXCEPT ![ChannelOf(k)] =
            Append(@, [index |-> MessageOf(k)[2],
                       channel |-> channelInfo[k][Slot(ChannelOf(k))]])]

SendMessage(k) ==
    /\ pc[k] = "send"
    /\ fifo' = Enqueued(k)
    /\ Answer(k, TRUE) /\ Idle(k)
    /\ UNCHANGED <<registered, posted, twilioSettings, channelInfo, dropped, hit, before,
                   faults>>

\* Mutant of SendFault: the error is logged and the webhook acknowledged.
SendFaultLogged(k) ==
    /\ pc[k] = "send"
    /\ Fault(ChannelOf(k))
    /\ fifo' \in {fifo, Enqueued(k)}
    /\ Answer(k, TRUE) /\ Idle(k)
    /\ UNCHANGED <<registered, posted, twilioSettings, channelInfo, dropped, before>>

\* Sending fails, executed or not, also after the retries of the SDK.
SendFault(k) ==
    /\ pc[k] = "send"
    /\ Fault(ChannelOf(k))
    /\ fifo' \in {fifo, Enqueued(k)}
    /\ Answer(k, FALSE) /\ Idle(k)
    /\ UNCHANGED <<registered, posted, twilioSettings, channelInfo, dropped, before>>

-----------------------------------------------------------------------------
(* The containers and the operator                                         *)

\* Container k is replaced by a new one.
Restart(k) ==
    /\ Idle(k)
    /\ twilioSettings' = [twilioSettings EXCEPT ![k] = None]
    /\ channelInfo' = [channelInfo EXCEPT ![k] = [c \in Channel |-> None]]

Recycle(k) ==
    /\ pc[k] = "idle"
    /\ Restart(k)
    /\ UNCHANGED <<registered, posted, webhook, fifo, dropped, hit, before, faults>>

\* The call crashes or times out, and the container with it.
Kill(k) ==
    /\ pc[k] # "idle"
    /\ Fault(ChannelOf(k))
    /\ Answer(k, FALSE)
    /\ Restart(k)
    /\ UNCHANGED <<registered, posted, fifo, dropped, before>>

\* The operator puts the Twilio credentials in the settings.
Register ==
    /\ ~registered
    /\ registered' = TRUE
    /\ UNCHANGED <<posted, webhook, container, fifo, dropped, hit, before, faults>>

-----------------------------------------------------------------------------
Step(k) == ReadSettings(k) \/ FetchChannel(k) \/ SendMessage(k)

StepFault(k) == SettingsFault(k) \/ FetchFault(k) \/ SendFault(k) \/ Kill(k)

Next ==
    \/ \E c \in Channel : Post(c)
    \/ \E m \in Message : GiveUp(m) \/ \E k \in Container : Invoke(k, m)
    \/ \E k \in Container : Step(k) \/ StepFault(k) \/ Recycle(k)
    \/ Register

Spec == Init /\ [][Next]_vars

\* Twilio calls the webhooks that are due, and a container goes on until it
\* has answered or is killed.
Fairness ==
    /\ \A m \in Message : WF_vars(\E k \in Container : Invoke(k, m))
    /\ \A k \in Container : WF_vars(Step(k))

-----------------------------------------------------------------------------
(* Properties                                                              *)

\* Twilio, the containers and the queue hold what their code writes.
TypeOK ==
    /\ registered \in BOOLEAN
    /\ posted \in [Channel -> 0 .. MaxMessages]
    /\ webhook \in [Message -> [state : {"none", "due", "sent", "acknowledged", "failed"},
                                attempt : 0 .. MaxAttempts]]
    /\ pc \in [Container -> {"idle", "settings", "channel", "send"}]
    /\ call \in [Container -> Call \cup {None}]
    /\ twilioSettings \in [Container -> {"right", Failed, None}]
    /\ channelInfo \in [Container -> [Channel -> Channel \cup {Failed, None}]]
    /\ fifo \in [Channel -> Seq(Entry)]
    /\ dropped \subseteq Message
    /\ hit \subseteq Channel
    /\ before \in [Message -> SUBSET (1 .. MaxMessages)]
    /\ faults \in 0 .. MaxFaults

\* A message is queued at most once, however often its webhook is called and
\* its sending repeated, and only in the group and under the name of its channel.
QueuedOnce ==
    \A c \in Channel : \A i \in DOMAIN fifo[c] :
        /\ fifo[c][i].index <= posted[c] /\ fifo[c][i].channel = c
        /\ \A j \in DOMAIN fifo[c] : fifo[c][i].index = fifo[c][j].index => i = j

\* A message whose webhook was acknowledged, after which Twilio does not try
\* again, is in the queue, unless the container that served it had no settings.
AcknowledgedAreQueued ==
    \A m \in Message :
        webhook[m].state = "acknowledged" => m \in dropped \/ m[2] \in Queued(m[1])

\* A message is queued behind those that were acknowledged before it was
\* posted: only messages whose webhooks overlap change places.
QueuedInOrder ==
    \A c \in Channel : \A i \in DOMAIN fifo[c] :
        \A n \in before[<<c, fifo[c][i].index>>] :
            \/ <<c, n>> \in dropped
            \/ \E j \in DOMAIN fifo[c] : j < i /\ fifo[c][j].index = n

\* All attempts at the webhook of a message fail only if a call for this very
\* channel failed: a rejected promise that a container keeps does not harm the
\* other channels.
FailuresIsolated ==
    \A m \in Message : webhook[m].state = "failed" => m[1] \in hit

-----------------------------------------------------------------------------
(* The inductive invariant: what Twilio and a container know of each other. *)

\* Only a message that was posted has a webhook, and this one is numbered.
WebhooksPosted ==
    /\ \A m \in Message :
         /\ webhook[m].state # "none" <=> m[2] <= posted[m[1]]
         /\ webhook[m].state = "due" => webhook[m].attempt < MaxAttempts
         /\ webhook[m].state = "none" => webhook[m].attempt = 0
         /\ \A n \in before[m] : webhook[<<m[1], n>>].state = "acknowledged"
    /\ \A k \in Container :
         IF pc[k] = "idle" THEN call[k] = None
         ELSE call[k] \in Call /\ webhook[MessageOf(k)].state # "none"

\* A container goes on only with the promises it needs, and a promise is that
\* of its channel, or a call for the channel failed.
PromisesHold ==
    \A k \in Container :
      /\ pc[k] = "send" => channelInfo[k][ChannelOf(k)] = ChannelOf(k)
      /\ \A c \in Channel :
           /\ channelInfo[k][c] \in {c, Failed, None}
           /\ channelInfo[k][c] = Failed => c \in hit

IInv ==
    /\ TypeOK
    /\ WebhooksPosted
    /\ PromisesHold
    /\ QueuedOnce
    /\ AcknowledgedAreQueued
    /\ QueuedInOrder
    /\ FailuresIsolated
=============================================================================
