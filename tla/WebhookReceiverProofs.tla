------------------------ MODULE WebhookReceiverProofs -------------------------
(***************************************************************************)
(* Theorems about WebhookReceiver, for every set of channels and           *)
(* containers, every number of attempts, and every bound.  They rest on    *)
(* Twilio counting only the answer it still waits for: what is             *)
(* acknowledged stays so, and was queued by the attempt it stands for or   *)
(* by an earlier one.                                                      *)
(***************************************************************************)
EXTENDS WebhookReceiver, SequenceTheorems, TLAPS

LEMMA InitIInv == Init => IInv
<1> SUFFICES ASSUME Init PROVE IInv
  OBVIOUS
<1> USE DEF Init
<1>1. TypeOK
  <2>1. fifo \in [Channel -> Seq(Entry)]
    OBVIOUS
  <2> QED BY <2>1, BoundsAssumption DEF TypeOK
<1>2. WebhooksPosted
  <2>1. ASSUME NEW m \in Message
        PROVE  webhook[m] = [state |-> "none", attempt |-> 0] /\ ~(m[2] <= posted[m[1]])
    BY BoundsAssumption DEF Message
  <2>2. \A m \in Message : before[m] = {}
    OBVIOUS
  <2> QED BY <2>1, <2>2 DEF WebhooksPosted
<1>3. PromisesHold
  BY NoneAssumption DEF PromisesHold
<1>4. QueuedOnce /\ AcknowledgedAreQueued /\ QueuedInOrder /\ FailuresIsolated
  BY DEF QueuedOnce, AcknowledgedAreQueued, QueuedInOrder, FailuresIsolated
<1> QED BY <1>1, <1>2, <1>3, <1>4 DEF IInv

-----------------------------------------------------------------------------
(* Twilio and the operator                                                 *)

\* What is in the queue stays right when nothing is queued, nothing else is
\* acknowledged, and the webhooks that fail do so after a failed call.
LEMMA QueueFrame ==
    ASSUME IInv, UNCHANGED fifo, dropped \subseteq dropped',
           \A c \in Channel : posted[c] <= posted'[c] /\ posted'[c] \in Nat,
           \A m \in Message :
             /\ m[2] <= posted[m[1]] => before'[m] = before[m]
             /\ webhook'[m].state = "acknowledged" =>
                  webhook[m].state = "acknowledged" \/ m \in dropped'
             /\ webhook'[m].state = "failed" =>
                  m[1] \in hit' \/ (webhook[m].state = "failed" /\ hit \subseteq hit')
    PROVE  QueuedOnce' /\ AcknowledgedAreQueued' /\ QueuedInOrder' /\ FailuresIsolated'
<1>0. \A c \in Channel : fifo[c] \in Seq(Entry) /\ posted[c] \in Nat
  BY BoundsAssumption DEF IInv, TypeOK
<1>1. \A c \in Channel : \A i \in DOMAIN fifo[c] :
        /\ fifo[c][i].index <= posted[c] /\ fifo[c][i].index \in Nat
        /\ <<c, fifo[c][i].index>> \in Message
  <2> SUFFICES ASSUME NEW c \in Channel, NEW i \in DOMAIN fifo[c]
               PROVE  /\ fifo[c][i].index <= posted[c] /\ fifo[c][i].index \in Nat
                      /\ <<c, fifo[c][i].index>> \in Message
    OBVIOUS
  <2>1. fifo[c][i] \in Entry
    BY <1>0, ElementOfSeq
  <2> QED BY <2>1, BoundsAssumption DEF Entry, Message, IInv, QueuedOnce
<1>2. QueuedOnce'
  <2> SUFFICES ASSUME NEW c \in Channel, NEW i \in DOMAIN fifo[c]
               PROVE  fifo[c][i].index <= posted'[c]
    BY DEF IInv, QueuedOnce
  <2>1. fifo[c][i].index <= posted[c] /\ fifo[c][i].index \in Nat
    BY <1>1
  <2>2. posted[c] <= posted'[c] /\ posted'[c] \in Nat /\ posted[c] \in Nat
    BY <1>0
  <2> QED BY <2>1, <2>2
<1>3. AcknowledgedAreQueued'
  BY DEF IInv, AcknowledgedAreQueued, Queued
<1>4. QueuedInOrder'
  <2>1. ASSUME NEW c \in Channel, NEW i \in DOMAIN fifo[c]
        PROVE  before'[<<c, fifo[c][i].index>>] = before[<<c, fifo[c][i].index>>]
    BY <1>1
  <2>2. SUFFICES ASSUME NEW c \in Channel, NEW i \in DOMAIN fifo'[c],
                        NEW n \in before'[<<c, fifo'[c][i].index>>]
                 PROVE  \/ <<c, n>> \in dropped'
                        \/ \E j \in DOMAIN fifo'[c] : j < i /\ fifo'[c][j].index = n
    BY DEF QueuedInOrder
  <2>3. n \in before[<<c, fifo[c][i].index>>]
    BY <2>1
  <2>4. <<c, n>> \in dropped \/ \E j \in DOMAIN fifo[c] : j < i /\ fifo[c][j].index = n
    BY <2>3 DEF IInv, QueuedInOrder
  <2> QED BY <2>4
<1>5. FailuresIsolated'
  BY DEF IInv, FailuresIsolated
<1> QED BY <1>2, <1>3, <1>4, <1>5

LEMMA PostIInv ==
    ASSUME IInv, NEW c \in Channel, Post(c)
    PROVE  IInv'
<1> DEFINE p == <<c, posted[c] + 1>>
<1>1. /\ p \in Message /\ webhook[p].state = "none" /\ posted[c] \in 0 .. MaxMessages
      /\ posted[c] < MaxMessages /\ webhook[p].attempt = 0
  BY BoundsAssumption DEF Post, IInv, TypeOK, WebhooksPosted, Message
<1>2. /\ posted' = [posted EXCEPT ![c] = posted[c] + 1]
      /\ webhook' = [webhook EXCEPT ![p].state = "due"]
      /\ before' = [before EXCEPT ![p] =
                      {n \in 1 .. posted[c] : webhook[<<c, n>>].state = "acknowledged"}]
      /\ UNCHANGED <<registered, pc, call, twilioSettings, channelInfo, fifo, dropped, hit,
                     faults>>
  BY DEF Post, container
<1>3. /\ webhook'[p] = [webhook[p] EXCEPT !.state = "due"]
      /\ \A m \in Message \ {p} : webhook'[m] = webhook[m] /\ before'[m] = before[m]
      /\ before'[p] = {n \in 1 .. posted[c] : webhook[<<c, n>>].state = "acknowledged"}
      /\ posted'[c] = posted[c] + 1 /\ \A d \in Channel \ {c} : posted'[d] = posted[d]
  BY <1>1, <1>2 DEF IInv, TypeOK
<1>4. TypeOK'
  <2>1. before' \in [Message -> SUBSET (1 .. MaxMessages)]
    <3>1. {n \in 1 .. posted[c] : webhook[<<c, n>>].state = "acknowledged"}
            \in SUBSET (1 .. MaxMessages)
      BY <1>1, BoundsAssumption
    <3> QED BY <1>2, <3>1 DEF IInv, TypeOK
  <2>2. posted' \in [Channel -> 0 .. MaxMessages]
    BY <1>1, <1>2, BoundsAssumption DEF IInv, TypeOK
  <2>3. webhook' \in [Message -> [state : {"none", "due", "sent", "acknowledged", "failed"},
                                  attempt : 0 .. MaxAttempts]]
    BY <1>2 DEF IInv, TypeOK
  <2> QED BY <1>2, <2>1, <2>2, <2>3 DEF IInv, TypeOK
<1>5. WebhooksPosted'
  <2>1. ASSUME NEW m \in Message
        PROVE  /\ webhook'[m].state # "none" <=> m[2] <= posted'[m[1]]
               /\ webhook'[m].state = "due" => webhook'[m].attempt < MaxAttempts
               /\ webhook'[m].state = "none" => webhook'[m].attempt = 0
    <3>1. m[1] \in Channel /\ m[2] \in 1 .. MaxMessages /\ m = <<m[1], m[2]>>
      BY DEF Message
    <3>2. webhook[p].attempt < MaxAttempts
      BY <1>1, BoundsAssumption
    <3>3. CASE m = p
      <4>1. webhook'[m].state = "due" /\ webhook'[m].attempt = webhook[p].attempt
        BY <1>1, <1>3, <3>3 DEF IInv, TypeOK
      <4> QED BY <1>1, <1>3, <3>2, <3>3, <4>1
    <3>4. CASE m # p
      <4>1. m[2] <= posted'[m[1]] <=> m[2] <= posted[m[1]]
        BY <1>1, <1>3, <3>1, <3>4
      <4> QED BY <1>3, <3>4, <4>1 DEF IInv, WebhooksPosted
    <3> QED BY <3>3, <3>4
  <2>2. ASSUME NEW m \in Message, NEW n \in before'[m]
        PROVE  webhook'[<<m[1], n>>].state = "acknowledged"
    <3>1. webhook[<<m[1], n>>].state = "acknowledged" /\ n \in 1 .. MaxMessages
      <4>1. CASE m = p
        BY <1>1, <1>3, <2>2, <4>1, BoundsAssumption
      <4>2. CASE m # p
        BY <1>3, <2>2, <4>2 DEF IInv, WebhooksPosted, TypeOK
      <4> QED BY <4>1, <4>2
    <3>2. <<m[1], n>> \in Message /\ <<m[1], n>> # p
      BY <1>1, <3>1 DEF Message
    <3> QED BY <1>3, <3>1, <3>2
  <2>3. ASSUME NEW k \in Container
        PROVE  IF pc[k] = "idle" THEN call[k] = None
               ELSE call[k] \in Call /\ webhook'[MessageOf(k)].state # "none"
    <3>1. \A m \in Message : webhook[m].state # "none" => webhook'[m].state # "none"
      BY <1>1, <1>3
    <3> QED BY <3>1 DEF IInv, WebhooksPosted, Call, MessageOf
  <2>4. \A m \in Message : \A n \in before'[m] :
          webhook'[<<m[1], n>>].state = "acknowledged"
    BY <2>2
  <2> QED BY <1>2, <2>1, <2>3, <2>4 DEF WebhooksPosted, MessageOf
<1>6. PromisesHold'
  BY <1>2 DEF IInv, PromisesHold, ChannelOf, MessageOf
<1>7. QueuedOnce' /\ AcknowledgedAreQueued' /\ QueuedInOrder' /\ FailuresIsolated'
  <2>1. \A d \in Channel : posted[d] <= posted'[d] /\ posted'[d] \in Nat
    <3>1. \A d \in Channel : posted[d] \in Nat
      BY BoundsAssumption DEF IInv, TypeOK
    <3>2. posted[c] <= posted[c] + 1 /\ posted[c] + 1 \in Nat
      BY <3>1
    <3>3. \A x \in Nat : x <= x
      OBVIOUS
    <3> QED BY <1>3, <3>1, <3>2, <3>3
  <2>2. ASSUME NEW m \in Message
        PROVE  /\ m[2] <= posted[m[1]] => before'[m] = before[m]
               /\ webhook'[m].state \in {"acknowledged", "failed"} => webhook'[m] = webhook[m]
    <3>1. ~(posted[c] + 1 <= posted[c])
      BY <1>1
    <3>2. webhook'[p].state = "due"
      BY <1>1, <1>3 DEF IInv, TypeOK
    <3>3. CASE m = p
      BY <3>1, <3>2, <3>3
    <3>4. CASE m # p
      BY <1>3, <3>4
    <3> QED BY <3>3, <3>4
  <2> QED BY <1>2, <2>1, <2>2, QueueFrame
<1> QED BY <1>4, <1>5, <1>6, <1>7 DEF IInv

LEMMA InvokeIInv ==
    ASSUME IInv, NEW k \in Container, NEW m \in Message, Invoke(k, m)
    PROVE  IInv'
<1>1. /\ webhook[m].state = "due" /\ pc[k] = "idle"
      /\ webhook[m].attempt + 1 \in 1 .. MaxAttempts
  BY BoundsAssumption DEF Invoke, IInv, TypeOK, WebhooksPosted
<1>2. /\ webhook' = [webhook EXCEPT ![m] = [state |-> "sent",
                                             attempt |-> webhook[m].attempt + 1]]
      /\ call' = [call EXCEPT ![k] = <<m, webhook[m].attempt + 1>>]
      /\ pc' = [pc EXCEPT ![k] = "settings"]
      /\ UNCHANGED <<registered, posted, twilioSettings, channelInfo, fifo, dropped, hit,
                     before, faults>>
  BY DEF Invoke
<1>3. TypeOK'
  BY <1>1, <1>2, BoundsAssumption DEF IInv, TypeOK, Call
<1>4. /\ webhook'[m].state = "sent" /\ \A n \in Message \ {m} : webhook'[n] = webhook[n]
      /\ pc'[k] = "settings" /\ call'[k] = <<m, webhook[m].attempt + 1>>
      /\ \A j \in Container \ {k} : pc'[j] = pc[j] /\ call'[j] = call[j]
  BY <1>2 DEF IInv, TypeOK
<1>5. WebhooksPosted'
  <2>1. ASSUME NEW n \in Message, webhook[n].state # "none"
        PROVE  webhook'[n].state # "none"
    BY <1>4, <2>1
  <2>2. ASSUME NEW n \in Message
        PROVE  /\ webhook'[n].state # "none" <=> n[2] <= posted'[n[1]]
               /\ webhook'[n].state = "due" => webhook'[n].attempt < MaxAttempts
               /\ webhook'[n].state = "none" => webhook'[n].attempt = 0
               /\ \A l \in before'[n] : webhook'[<<n[1], l>>].state = "acknowledged"
    <3>3. \A l \in before'[n] : webhook'[<<n[1], l>>].state = "acknowledged"
      <4> SUFFICES ASSUME NEW l \in before[n]
                   PROVE  webhook'[<<n[1], l>>].state = "acknowledged"
        BY <1>2
      <4>1. webhook[<<n[1], l>>].state = "acknowledged" /\ <<n[1], l>> \in Message
        BY DEF IInv, WebhooksPosted, TypeOK, Message
      <4> QED BY <1>1, <1>4, <4>1
    <3> QED BY <1>1, <1>2, <1>4, <3>3 DEF IInv, WebhooksPosted
  <2>3. ASSUME NEW j \in Container
        PROVE  IF pc'[j] = "idle" THEN call'[j] = None
               ELSE call'[j] \in Call /\ webhook'[call'[j][1]].state # "none"
    <3>1. CASE j = k
      <4>1. call'[j] \in Call /\ call'[j][1] = m
        <5>1. <<m, webhook[m].attempt + 1>> \in Call
          BY <1>1 DEF Call
        <5> QED BY <1>4, <3>1, <5>1
      <4> QED BY <1>4, <3>1, <4>1
    <3>2. CASE j # k
      BY <1>4, <2>1, <3>2 DEF IInv, WebhooksPosted, Call, MessageOf
    <3> QED BY <3>1, <3>2
  <2> QED BY <2>2, <2>3 DEF WebhooksPosted, MessageOf
<1>6. PromisesHold'
  BY <1>1, <1>2, <1>4 DEF IInv, PromisesHold, ChannelOf, MessageOf
<1>7. QueuedOnce' /\ AcknowledgedAreQueued' /\ QueuedInOrder' /\ FailuresIsolated'
  <2>1. \A n \in Message :
          webhook'[n].state \in {"acknowledged", "failed"} => webhook'[n] = webhook[n]
    BY <1>4
  <2> QED BY <1>2, <2>1, BoundsAssumption, QueueFrame DEF IInv, TypeOK
<1> QED BY <1>3, <1>5, <1>6, <1>7 DEF IInv

LEMMA GiveUpIInv ==
    ASSUME IInv, NEW m \in Message, GiveUp(m)
    PROVE  IInv'
<1>1. /\ webhook[m].state = "sent" /\ webhook' = [webhook EXCEPT ![m] = Retried(webhook[m])]
      /\ faults' = faults + 1 /\ faults < MaxFaults /\ hit' = hit \cup {m[1]}
      /\ UNCHANGED <<registered, posted, pc, call, twilioSettings, channelInfo, fifo,
                     dropped, before>>
  BY DEF GiveUp, Fault, container
<1>2. /\ Retried(webhook[m]) \in [state : {"due", "failed"}, attempt : 0 .. MaxAttempts]
      /\ Retried(webhook[m]).state = "due" => Retried(webhook[m]).attempt < MaxAttempts
  BY DEF Retried, IInv, TypeOK
<1>3. /\ webhook'[m] = Retried(webhook[m])
      /\ \A n \in Message \ {m} : webhook'[n] = webhook[n]
  BY <1>1 DEF IInv, TypeOK
<1>4. TypeOK'
  BY <1>1, <1>2, BoundsAssumption DEF IInv, TypeOK, Message
<1>5. WebhooksPosted'
  <2>1. ASSUME NEW n \in Message, NEW l \in before[n]
        PROVE  webhook'[<<n[1], l>>].state = "acknowledged"
    <3>1. webhook[<<n[1], l>>].state = "acknowledged" /\ <<n[1], l>> \in Message
      BY DEF IInv, WebhooksPosted, TypeOK, Message
    <3> QED BY <1>1, <1>3, <3>1
  <2>2. ASSUME NEW k \in Container, call[k] \in Call, webhook[call[k][1]].state # "none"
        PROVE  webhook'[call[k][1]].state # "none"
    BY <1>2, <1>3, <2>2 DEF Call
  <2> QED BY <1>1, <1>2, <1>3, <2>1, <2>2 DEF IInv, WebhooksPosted, MessageOf
<1>6. PromisesHold'
  BY <1>1 DEF IInv, PromisesHold, ChannelOf, MessageOf
<1>7. QueuedOnce' /\ AcknowledgedAreQueued' /\ QueuedInOrder' /\ FailuresIsolated'
  <2>1. \A n \in Message :
          /\ webhook'[n].state = "acknowledged" => webhook[n].state = "acknowledged"
          /\ webhook'[n].state = "failed" => n[1] \in hit' \/ webhook[n].state = "failed"
    BY <1>1, <1>2, <1>3
  <2> QED BY <1>1, <2>1, BoundsAssumption, QueueFrame DEF IInv, TypeOK
<1> QED BY <1>4, <1>5, <1>6, <1>7 DEF IInv

LEMMA RegisterIInv ==
    ASSUME IInv, Register
    PROVE  IInv'
<1>1. registered' = TRUE /\ UNCHANGED <<posted, webhook, pc, call, twilioSettings,
        channelInfo, fifo, dropped, hit, before, faults>>
  BY DEF Register, container
<1>2. TypeOK'
  BY <1>1 DEF IInv, TypeOK
<1>3. WebhooksPosted' /\ PromisesHold'
  BY <1>1 DEF IInv, WebhooksPosted, PromisesHold, MessageOf, ChannelOf
<1>4. QueuedOnce' /\ AcknowledgedAreQueued' /\ QueuedInOrder' /\ FailuresIsolated'
  BY <1>1, BoundsAssumption, QueueFrame DEF IInv, TypeOK
<1> QED BY <1>2, <1>3, <1>4 DEF IInv

-----------------------------------------------------------------------------
(* A container serves a call                                               *)

\* What a container works on was posted, in a channel that exists.
LEMMA Serving ==
    ASSUME IInv, NEW k \in Container, pc[k] # "idle"
    PROVE  /\ call[k] \in Call /\ MessageOf(k) \in Message /\ ChannelOf(k) \in Channel
           /\ MessageOf(k) = <<ChannelOf(k), MessageOf(k)[2]>>
           /\ MessageOf(k)[2] \in 1 .. MaxMessages
           /\ MessageOf(k)[2] <= posted[ChannelOf(k)]
           /\ webhook[MessageOf(k)].state # "none"
<1>1. call[k] \in Call /\ webhook[MessageOf(k)].state # "none"
  BY DEF IInv, WebhooksPosted
<1>2. MessageOf(k) \in Message
  BY <1>1 DEF Call, MessageOf
<1>3. /\ MessageOf(k)[1] \in Channel /\ MessageOf(k)[2] \in 1 .. MaxMessages
      /\ MessageOf(k) = <<MessageOf(k)[1], MessageOf(k)[2]>>
  BY <1>2 DEF Message
<1>4. MessageOf(k)[2] <= posted[MessageOf(k)[1]]
  BY <1>1, <1>2 DEF IInv, WebhooksPosted
<1> QED BY <1>1, <1>2, <1>3, <1>4 DEF ChannelOf

\* An answer acknowledges the message of the call, or has it tried again or
\* fail; an answer Twilio does not wait for changes nothing.
LEMMA Answered ==
    ASSUME IInv, NEW k \in Container, pc[k] # "idle", NEW success \in BOOLEAN,
           Answer(k, success)
    PROVE  /\ webhook' \in [Message ->
                [state : {"none", "due", "sent", "acknowledged", "failed"},
                 attempt : 0 .. MaxAttempts]]
           /\ \A m \in Message :
                \/ webhook'[m] = webhook[m]
                \/ /\ m = MessageOf(k) /\ webhook[m].state = "sent"
                   /\ IF success THEN webhook'[m].state = "acknowledged"
                      ELSE webhook'[m].state \in {"due", "failed"}
                   /\ webhook'[m].state = "due" => webhook'[m].attempt < MaxAttempts
<1> DEFINE p == MessageOf(k)
           h == IF ~Awaited(k) THEN webhook[p]
                ELSE IF success THEN [webhook[p] EXCEPT !.state = "acknowledged"]
                ELSE Retried(webhook[p])
<1>1. p \in Message
  BY Serving
<1>2. webhook' = [webhook EXCEPT ![p] = h]
  BY DEF Answer
<1>3. webhook[p] \in [state : {"none", "due", "sent", "acknowledged", "failed"},
                      attempt : 0 .. MaxAttempts]
  BY <1>1 DEF IInv, TypeOK
<1>4. /\ h \in [state : {"none", "due", "sent", "acknowledged", "failed"},
                attempt : 0 .. MaxAttempts]
      /\ \/ h = webhook[p]
         \/ /\ webhook[p].state = "sent"
            /\ IF success THEN h.state = "acknowledged" ELSE h.state \in {"due", "failed"}
            /\ h.state = "due" => h.attempt < MaxAttempts
  <2>1. CASE ~Awaited(k)
    BY <1>3, <2>1
  <2>2. CASE Awaited(k) /\ success
    BY <1>3, <2>2 DEF Awaited
  <2>3. CASE Awaited(k) /\ ~success
    BY <1>3, <2>3 DEF Awaited, Retried
  <2> QED BY <2>1, <2>2, <2>3
<1> HIDE DEF h
<1>5. webhook'[p] = h /\ \A m \in Message \ {p} : webhook'[m] = webhook[m]
  BY <1>1, <1>2 DEF IInv, TypeOK
<1>6. webhook' \in [Message -> [state : {"none", "due", "sent", "acknowledged", "failed"},
                                attempt : 0 .. MaxAttempts]]
  BY <1>1, <1>2, <1>4 DEF IInv, TypeOK
<1> QED BY <1>4, <1>5, <1>6

\* The webhooks still match the messages that were posted.
LEMMA PostedFrame ==
    ASSUME IInv, NEW k \in Container, pc[k] # "idle", NEW success \in BOOLEAN,
           Answer(k, success) \/ UNCHANGED webhook,
           UNCHANGED <<posted, before>>,
           \A j \in Container :
             IF pc'[j] = "idle" THEN call'[j] = None ELSE pc[j] # "idle" /\ call'[j] = call[j]
    PROVE  WebhooksPosted'
<1>1. \A m \in Message :
        \/ webhook'[m] = webhook[m]
        \/ /\ webhook[m].state = "sent"
           /\ webhook'[m].state \in {"acknowledged", "due", "failed"}
           /\ webhook'[m].state = "due" => webhook'[m].attempt < MaxAttempts
  BY Answered
<1>2. ASSUME NEW m \in Message, NEW n \in before[m]
      PROVE  webhook'[<<m[1], n>>].state = "acknowledged"
  <2>1. webhook[<<m[1], n>>].state = "acknowledged" /\ <<m[1], n>> \in Message
    BY DEF IInv, WebhooksPosted, TypeOK, Message
  <2> QED BY <1>1, <2>1
<1>3. ASSUME NEW j \in Container, pc'[j] # "idle"
      PROVE  call'[j] \in Call /\ webhook'[call'[j][1]].state # "none"
  <2>1. /\ call[j] \in Call /\ call'[j] = call[j] /\ call[j][1] \in Message
        /\ webhook[call[j][1]].state # "none"
    BY <1>3, Serving DEF MessageOf
  <2> QED BY <1>1, <2>1
<1>4. ASSUME NEW m \in Message
      PROVE  /\ webhook'[m].state # "none" <=> m[2] <= posted'[m[1]]
             /\ webhook'[m].state = "due" => webhook'[m].attempt < MaxAttempts
             /\ webhook'[m].state = "none" => webhook'[m].attempt = 0
  BY <1>1 DEF IInv, WebhooksPosted
<1> QED BY <1>2, <1>3, <1>4 DEF WebhooksPosted, MessageOf

\* What is in the queue stays right when container k sends its message, which
\* may be acknowledged, and the webhooks that fail do so after a failed call.
LEMMA SendFrame ==
    ASSUME IInv, NEW k \in Container, pc[k] = "send", fifo' = Enqueued(k),
           UNCHANGED <<posted, before, dropped>>, hit \subseteq hit',
           \A m \in Message :
             /\ webhook'[m].state = "acknowledged" =>
                  webhook[m].state = "acknowledged" \/ m = MessageOf(k)
             /\ webhook'[m].state = "failed" => webhook[m].state = "failed" \/ m[1] \in hit'
    PROVE  /\ fifo' \in [Channel -> Seq(Entry)]
           /\ QueuedOnce' /\ AcknowledgedAreQueued' /\ QueuedInOrder' /\ FailuresIsolated'
<1> DEFINE c == ChannelOf(k)
           x == MessageOf(k)[2]
           e == [index |-> x, channel |-> channelInfo[k][Slot(c)]]
           q == fifo[c]
<1>1. /\ c \in Channel /\ x \in 1 .. MaxMessages /\ x <= posted[c]
      /\ MessageOf(k) \in Message /\ MessageOf(k) = <<c, x>>
  BY Serving
<1>2. e \in Entry /\ e.index = x /\ e.channel = c
  BY <1>1 DEF IInv, PromisesHold, Slot, Entry
<1>3. fifo \in [Channel -> Seq(Entry)] /\ q \in Seq(Entry)
  BY <1>1 DEF IInv, TypeOK
<1> HIDE DEF e
<1>4. FailuresIsolated'
  BY DEF IInv, FailuresIsolated
<1>5. CASE x \in Queued(c)
  <2>1. fifo' = fifo
    BY <1>5 DEF Enqueued
  <2>2. QueuedOnce'
    BY <2>1 DEF IInv, QueuedOnce
  <2>3. AcknowledgedAreQueued'
    BY <1>1, <1>5, <2>1 DEF IInv, AcknowledgedAreQueued, Queued
  <2>4. QueuedInOrder'
    <3> SUFFICES ASSUME NEW d \in Channel, NEW i \in DOMAIN fifo'[d],
                        NEW n \in before'[<<d, fifo'[d][i].index>>]
                 PROVE  \/ <<d, n>> \in dropped'
                        \/ \E j \in DOMAIN fifo'[d] : j < i /\ fifo'[d][j].index = n
      BY DEF QueuedInOrder
    <3>1. \/ <<d, n>> \in dropped
          \/ \E j \in DOMAIN fifo[d] : j < i /\ fifo[d][j].index = n
      BY <2>1 DEF IInv, QueuedInOrder
    <3> QED BY <2>1, <3>1
  <2> QED BY <1>3, <1>4, <2>1, <2>2, <2>3, <2>4
<1>6. CASE x \notin Queued(c)
  <2>1. fifo' = [fifo EXCEPT ![c] = Append(q, e)]
    BY <1>6 DEF Enqueued, e
  <2>2. /\ Append(q, e) \in Seq(Entry) /\ Len(Append(q, e)) = Len(q) + 1
        /\ \A i \in 1 .. Len(q) : Append(q, e)[i] = q[i]
        /\ Append(q, e)[Len(q) + 1] = e
    BY <1>2, <1>3, AppendProperties
  <2>3. /\ fifo' \in [Channel -> Seq(Entry)] /\ fifo'[c] = Append(q, e)
        /\ \A d \in Channel \ {c} : fifo'[d] = fifo[d]
    BY <1>1, <1>3, <2>1, <2>2
  <2>4. /\ Len(q) \in Nat /\ DOMAIN q = 1 .. Len(q) /\ DOMAIN fifo'[c] = 1 .. Len(q) + 1
        /\ \A i \in DOMAIN q : i \in DOMAIN fifo'[c] /\ fifo'[c][i] = q[i] /\ i < Len(q) + 1
        /\ Len(q) + 1 \in DOMAIN fifo'[c] /\ fifo'[c][Len(q) + 1] = e
    BY <1>3, <2>2, <2>3, LenProperties
  <2>5. \A i \in DOMAIN fifo'[c] : i \in DOMAIN q \/ i = Len(q) + 1
    BY <2>4
  <2>6. \A i \in DOMAIN q : q[i].index # x
    BY <1>6 DEF Queued
  <2>7. QueuedOnce'
    <3> SUFFICES ASSUME NEW d \in Channel, NEW i \in DOMAIN fifo'[d]
                 PROVE  /\ fifo'[d][i].index <= posted'[d] /\ fifo'[d][i].channel = d
                        /\ \A j \in DOMAIN fifo'[d] :
                             fifo'[d][i].index = fifo'[d][j].index => i = j
      BY DEF QueuedOnce
    <3>1. CASE d # c
      BY <2>3, <3>1 DEF IInv, QueuedOnce
    <3>2. CASE d = c
      <4>1. fifo'[c][i].index <= posted'[c] /\ fifo'[c][i].channel = c
        BY <1>1, <1>2, <2>4, <2>5, <3>2 DEF IInv, QueuedOnce
      <4>2. ASSUME NEW j \in DOMAIN fifo'[c], fifo'[c][i].index = fifo'[c][j].index
            PROVE  i = j
        <5>1. CASE i \in DOMAIN q /\ j \in DOMAIN q
          BY <1>1, <2>4, <4>2, <5>1 DEF IInv, QueuedOnce
        <5>2. CASE i = Len(q) + 1 /\ j \in DOMAIN q
          BY <1>2, <2>4, <2>6, <4>2, <5>2
        <5>3. CASE i \in DOMAIN q /\ j = Len(q) + 1
          BY <1>2, <2>4, <2>6, <4>2, <5>3
        <5>4. i \in DOMAIN fifo'[c]
          BY <3>2
        <5> QED BY <2>5, <4>2, <5>1, <5>2, <5>3, <5>4
      <4> QED BY <3>2, <4>1, <4>2
    <3> QED BY <3>1, <3>2
  <2>8. AcknowledgedAreQueued'
    <3>1. \A n : n \in Queued(c) => \E i \in DOMAIN fifo'[c] : fifo'[c][i].index = n
      BY <2>4 DEF Queued
    <3>2. \E i \in DOMAIN fifo'[c] : fifo'[c][i].index = x
      BY <1>2, <2>4
    <3>3. ASSUME NEW m \in Message, webhook'[m].state = "acknowledged"
          PROVE  m \in dropped' \/ \E i \in DOMAIN fifo'[m[1]] : fifo'[m[1]][i].index = m[2]
      <4>1. CASE m = MessageOf(k)
        BY <1>1, <3>2, <4>1
      <4>2. CASE m # MessageOf(k)
        <5>1. m \in dropped \/ m[2] \in Queued(m[1])
          BY <3>3, <4>2 DEF IInv, AcknowledgedAreQueued
        <5>2. CASE m[1] = c
          BY <3>1, <5>1, <5>2
        <5>3. CASE m[1] # c
          BY <2>3, <5>1, <5>3 DEF Queued, Message
        <5> QED BY <5>2, <5>3
      <4> QED BY <4>1, <4>2
    <3> QED BY <3>3 DEF AcknowledgedAreQueued, Queued
  <2>9. QueuedInOrder'
    <3> SUFFICES ASSUME NEW d \in Channel, NEW i \in DOMAIN fifo'[d],
                        NEW n \in before'[<<d, fifo'[d][i].index>>]
                 PROVE  \/ <<d, n>> \in dropped'
                        \/ \E j \in DOMAIN fifo'[d] : j < i /\ fifo'[d][j].index = n
      BY DEF QueuedInOrder
    <3>0. n \in before[<<d, fifo'[d][i].index>>]
      OBVIOUS
    <3>1. CASE d # c
      <4>1. fifo'[d] = fifo[d]
        BY <2>3, <3>1
      <4>2. \/ <<d, n>> \in dropped
            \/ \E j \in DOMAIN fifo[d] : j < i /\ fifo[d][j].index = n
        BY <3>0, <4>1 DEF IInv, QueuedInOrder
      <4> QED BY <4>1, <4>2
    <3>2. CASE d = c /\ i \in DOMAIN q
      <4>1. n \in before[<<c, q[i].index>>]
        BY <2>4, <3>0, <3>2
      <4>2. <<c, n>> \in dropped \/ \E j \in DOMAIN q : j < i /\ q[j].index = n
        BY <1>1, <3>2, <4>1 DEF IInv, QueuedInOrder
      <4> QED BY <2>4, <3>2, <4>2
    <3>3. CASE d = c /\ i = Len(q) + 1
      <4>1. n \in before[MessageOf(k)]
        BY <1>1, <1>2, <2>4, <3>0, <3>3
      <4>2. webhook[<<c, n>>].state = "acknowledged" /\ <<c, n>> \in Message
        BY <1>1, <4>1 DEF IInv, WebhooksPosted, TypeOK, Message
      <4>3. <<c, n>> \in dropped \/ \E j \in DOMAIN q : q[j].index = n
        BY <4>2 DEF IInv, AcknowledgedAreQueued, Queued
      <4>4. CASE <<c, n>> \in dropped
        BY <3>3, <4>4
      <4>5. CASE \E j \in DOMAIN q : q[j].index = n
        BY <2>4, <3>3, <4>5
      <4> QED BY <4>3, <4>4, <4>5
    <3> QED BY <2>5, <3>1, <3>2, <3>3
  <2> QED BY <1>4, <2>3, <2>7, <2>8, <2>9
<1> QED BY <1>5, <1>6

\* A container goes on with the settings, or it drops the message.
LEMMA SettledIInv ==
    ASSUME IInv, NEW k \in Container, pc[k] = "settings",
           NEW settings \in {"right", Failed}, Settled(k, settings),
           UNCHANGED <<registered, posted, channelInfo, fifo, before>>,
           hit \subseteq hit', hit' \subseteq Channel, faults' \in 0 .. MaxFaults
    PROVE  IInv'
<1>0. MessageOf(k) \in Message
  BY Serving
<1>1. twilioSettings' \in [Container -> {"right", Failed, None}]
  BY DEF Settled, IInv, TypeOK
<1>2. \A c \in Channel : posted[c] <= posted'[c] /\ posted'[c] \in Nat
  BY BoundsAssumption DEF IInv, TypeOK
<1>3. CASE settings # Failed
  <2>1. pc' = [pc EXCEPT ![k] = "channel"] /\ UNCHANGED <<webhook, call, dropped>>
    BY <1>3 DEF Settled
  <2>2. TypeOK'
    BY <1>1, <2>1 DEF IInv, TypeOK
  <2>3. \A j \in Container :
          IF pc'[j] = "idle" THEN call'[j] = None ELSE pc[j] # "idle" /\ call'[j] = call[j]
    BY <2>1 DEF IInv, TypeOK, WebhooksPosted
  <2>4. WebhooksPosted'
    BY <2>1, <2>3, PostedFrame, TRUE \in BOOLEAN
  <2>5. PromisesHold'
    BY <2>1 DEF IInv, TypeOK, PromisesHold, ChannelOf, MessageOf
  <2>6. QueuedOnce' /\ AcknowledgedAreQueued' /\ QueuedInOrder' /\ FailuresIsolated'
    BY <1>2, <2>1, QueueFrame
  <2> QED BY <2>2, <2>4, <2>5, <2>6 DEF IInv
<1>4. CASE settings = Failed
  <2>1. /\ Answer(k, TRUE) /\ pc' = [pc EXCEPT ![k] = "idle"]
        /\ call' = [call EXCEPT ![k] = None] /\ dropped' = dropped \cup {MessageOf(k)}
    BY <1>4 DEF Settled, Idle
  <2>2. TypeOK'
    BY <1>0, <1>1, <2>1, Answered DEF IInv, TypeOK
  <2>3. \A j \in Container :
          IF pc'[j] = "idle" THEN call'[j] = None ELSE pc[j] # "idle" /\ call'[j] = call[j]
    BY <2>1 DEF IInv, TypeOK, WebhooksPosted
  <2>4. WebhooksPosted'
    BY <2>1, <2>3, PostedFrame
  <2>5. PromisesHold'
    <3>1. \A j \in Container : pc'[j] = "send" => pc[j] = "send" /\ call'[j] = call[j]
      BY <2>1 DEF IInv, TypeOK
    <3> QED BY <3>1 DEF IInv, PromisesHold, ChannelOf, MessageOf
  <2>6. \A m \in Message : webhook'[m] = webhook[m]
                           \/ (m = MessageOf(k) /\ webhook'[m].state = "acknowledged")
    BY <2>1, Answered
  <2>7. QueuedOnce' /\ AcknowledgedAreQueued' /\ QueuedInOrder' /\ FailuresIsolated'
    BY <1>2, <2>1, <2>6, QueueFrame
  <2> QED BY <2>2, <2>4, <2>5, <2>7 DEF IInv
<1> QED BY <1>3, <1>4

LEMMA SettingsIInv ==
    ASSUME IInv, NEW k \in Container, ReadSettings(k) \/ SettingsFault(k)
    PROVE  IInv'
<1>1. CASE ReadSettings(k)
  <2> DEFINE settings == IF twilioSettings[k] # None THEN twilioSettings[k]
                         ELSE IF registered THEN "right" ELSE Failed
  <2>1. settings \in {"right", Failed}
    BY DEF IInv, TypeOK
  <2>2. /\ pc[k] = "settings" /\ Settled(k, settings)
        /\ UNCHANGED <<registered, posted, channelInfo, fifo, hit, before, faults>>
    BY <1>1 DEF ReadSettings
  <2> HIDE DEF settings
  <2> QED BY <2>1, <2>2, SettledIInv DEF IInv, TypeOK
<1>2. CASE SettingsFault(k)
  <2>1. /\ pc[k] = "settings" /\ Settled(k, Failed) /\ faults' = faults + 1
        /\ faults < MaxFaults /\ hit' = hit \cup {ChannelOf(k)}
        /\ UNCHANGED <<registered, posted, channelInfo, fifo, before>>
    BY <1>2 DEF SettingsFault, Fault
  <2>2. ChannelOf(k) \in Channel
    BY <2>1, Serving
  <2>3. hit \subseteq hit' /\ hit' \subseteq Channel /\ faults' \in 0 .. MaxFaults
    BY <2>1, <2>2, BoundsAssumption DEF IInv, TypeOK
  <2> QED BY <2>1, <2>3, SettledIInv
<1> QED BY <1>1, <1>2

\* A container goes on with the channel of its message, or the webhook failed
\* after a failed call for this channel.
LEMMA FetchedIInv ==
    ASSUME IInv, NEW k \in Container, pc[k] = "channel",
           NEW info \in {ChannelOf(k), Failed}, Fetched(k, info),
           info = Failed => ChannelOf(k) \in hit',
           UNCHANGED <<registered, posted, twilioSettings, fifo, dropped, before>>,
           hit \subseteq hit', hit' \subseteq Channel, faults' \in 0 .. MaxFaults
    PROVE  IInv'
<1>0. MessageOf(k) \in Message /\ ChannelOf(k) \in Channel /\ ChannelOf(k) # Failed
  BY Serving, NoneAssumption
<1>1. /\ channelInfo' = [channelInfo EXCEPT ![k] =
                           [channelInfo[k] EXCEPT ![ChannelOf(k)] = info]]
      /\ channelInfo' \in [Container -> [Channel -> Channel \cup {Failed, None}]]
  BY <1>0 DEF Fetched, Slot, IInv, TypeOK
<1>2. \A c \in Channel : posted[c] <= posted'[c] /\ posted'[c] \in Nat
  BY BoundsAssumption DEF IInv, TypeOK
<1>3. /\ channelInfo'[k][ChannelOf(k)] = info
      /\ \A j \in Container, c \in Channel :
           j # k \/ c # ChannelOf(k) => channelInfo'[j][c] = channelInfo[j][c]
  BY <1>0, <1>1 DEF IInv, TypeOK
<1>4. \A j \in Container : \A c \in Channel :
        /\ channelInfo'[j][c] \in {c, Failed, None}
        /\ channelInfo'[j][c] = Failed => c \in hit'
  <2> SUFFICES ASSUME NEW j \in Container, NEW c \in Channel
               PROVE  /\ channelInfo'[j][c] \in {c, Failed, None}
                      /\ channelInfo'[j][c] = Failed => c \in hit'
    OBVIOUS
  <2>1. CASE j = k /\ c = ChannelOf(k)
    BY <1>0, <1>3, <2>1
  <2>2. CASE j # k \/ c # ChannelOf(k)
    BY <1>3, <2>2 DEF IInv, PromisesHold
  <2> QED BY <2>1, <2>2
<1>5. \A j \in Container \ {k} :
        pc[j] = "send" => channelInfo'[j][ChannelOf(j)] = ChannelOf(j)
  BY <1>3, Serving DEF IInv, PromisesHold
<1>6. CASE info # Failed
  <2>1. pc' = [pc EXCEPT ![k] = "send"] /\ UNCHANGED <<webhook, call>>
    BY <1>6 DEF Fetched
  <2>2. TypeOK'
    BY <1>1, <2>1 DEF IInv, TypeOK
  <2>3. \A j \in Container :
          IF pc'[j] = "idle" THEN call'[j] = None ELSE pc[j] # "idle" /\ call'[j] = call[j]
    BY <2>1 DEF IInv, TypeOK, WebhooksPosted
  <2>4. WebhooksPosted'
    BY <2>1, <2>3, PostedFrame, TRUE \in BOOLEAN
  <2>5. PromisesHold'
    <3>1. \A j \in Container \ {k} : pc'[j] = "send" => pc[j] = "send"
      BY <2>1 DEF IInv, TypeOK
    <3>2. \A j \in Container :
            pc'[j] = "send" => channelInfo'[j][ChannelOf(j)] = ChannelOf(j)
      BY <1>3, <1>5, <1>6, <3>1
    <3> QED BY <1>4, <2>1, <3>2 DEF PromisesHold, ChannelOf, MessageOf
  <2>6. QueuedOnce' /\ AcknowledgedAreQueued' /\ QueuedInOrder' /\ FailuresIsolated'
    BY <1>2, <2>1, QueueFrame
  <2> QED BY <2>2, <2>4, <2>5, <2>6 DEF IInv
<1>7. CASE info = Failed
  <2>1. /\ Answer(k, FALSE) /\ pc' = [pc EXCEPT ![k] = "idle"]
        /\ call' = [call EXCEPT ![k] = None]
    BY <1>7 DEF Fetched, Idle
  <2>2. TypeOK'
    BY <1>1, <2>1, Answered DEF IInv, TypeOK
  <2>3. \A j \in Container :
          IF pc'[j] = "idle" THEN call'[j] = None ELSE pc[j] # "idle" /\ call'[j] = call[j]
    BY <2>1 DEF IInv, TypeOK, WebhooksPosted
  <2>4. WebhooksPosted'
    BY <2>1, <2>3, PostedFrame
  <2>5. PromisesHold'
    <3>1. \A j \in Container :
            pc'[j] = "send" => pc[j] = "send" /\ j # k /\ call'[j] = call[j]
      BY <2>1 DEF IInv, TypeOK
    <3> QED BY <1>4, <1>5, <3>1 DEF PromisesHold, ChannelOf, MessageOf
  <2>6. \A m \in Message : webhook'[m] = webhook[m]
          \/ (m = MessageOf(k) /\ webhook'[m].state \in {"due", "failed"})
    BY <2>1, Answered
  <2>7. QueuedOnce' /\ AcknowledgedAreQueued' /\ QueuedInOrder' /\ FailuresIsolated'
    BY <1>2, <1>7, <2>6, QueueFrame DEF ChannelOf
  <2> QED BY <2>2, <2>4, <2>5, <2>7 DEF IInv
<1> QED BY <1>6, <1>7

LEMMA FetchIInv ==
    ASSUME IInv, NEW k \in Container, FetchChannel(k) \/ FetchFault(k)
    PROVE  IInv'
<1>0. pc[k] = "channel" /\ ChannelOf(k) \in Channel
  BY Serving DEF FetchChannel, FetchFault
<1>1. CASE FetchChannel(k)
  <2> DEFINE kept == channelInfo[k][ChannelOf(k)]
             info == IF kept # None THEN kept ELSE ChannelOf(k)
  <2>1. /\ Fetched(k, info)
        /\ UNCHANGED <<registered, posted, twilioSettings, fifo, dropped, hit, before, faults>>
    BY <1>1 DEF FetchChannel, Slot
  <2>2. info \in {ChannelOf(k), Failed} /\ (info = Failed => ChannelOf(k) \in hit)
    BY <1>0, NoneAssumption DEF IInv, PromisesHold
  <2> HIDE DEF info
  <2> QED BY <1>0, <2>1, <2>2, FetchedIInv DEF IInv, TypeOK
<1>2. CASE FetchFault(k)
  <2>1. /\ Fetched(k, Failed) /\ faults' = faults + 1
        /\ faults < MaxFaults /\ hit' = hit \cup {ChannelOf(k)}
        /\ UNCHANGED <<registered, posted, twilioSettings, fifo, dropped, before>>
    BY <1>2 DEF FetchFault, Fault
  <2>2. hit \subseteq hit' /\ hit' \subseteq Channel /\ faults' \in 0 .. MaxFaults
    BY <1>0, <2>1, BoundsAssumption DEF IInv, TypeOK
  <2> QED BY <1>0, <2>1, <2>2, FetchedIInv
<1> QED BY <1>1, <1>2

\* A container has sent its message, executed or not, and answers.
LEMMA SendIInv ==
    ASSUME IInv, NEW k \in Container, SendMessage(k) \/ SendFault(k)
    PROVE  IInv'
<1>1. /\ pc[k] = "send" /\ fifo' \in {fifo, Enqueued(k)} /\ Idle(k)
      /\ UNCHANGED <<registered, posted, twilioSettings, channelInfo, dropped, before>>
  BY DEF SendMessage, SendFault
<1>2. MessageOf(k) \in Message /\ ChannelOf(k) \in Channel
  BY <1>1, Serving
<1>3. \/ Answer(k, TRUE) /\ fifo' = Enqueued(k) /\ UNCHANGED <<hit, faults>>
      \/ /\ Answer(k, FALSE) /\ hit' = hit \cup {ChannelOf(k)}
         /\ faults' = faults + 1 /\ faults < MaxFaults
  <2>1. CASE SendMessage(k)
    BY <2>1 DEF SendMessage
  <2>2. CASE SendFault(k)
    BY <2>2 DEF SendFault, Fault
  <2> QED BY <2>1, <2>2
<1>4. hit \subseteq hit' /\ hit' \subseteq Channel /\ faults' \in 0 .. MaxFaults
  <2>1. CASE UNCHANGED <<hit, faults>>
    BY <2>1 DEF IInv, TypeOK
  <2>2. CASE hit' = hit \cup {ChannelOf(k)} /\ faults' = faults + 1 /\ faults < MaxFaults
    BY <1>2, <2>2, BoundsAssumption DEF IInv, TypeOK
  <2> QED BY <1>3, <2>1, <2>2
<1>5. \A m \in Message :
        /\ webhook'[m].state = "acknowledged" =>
             webhook[m].state = "acknowledged" \/ (m = MessageOf(k) /\ fifo' = Enqueued(k))
        /\ webhook'[m].state = "failed" => webhook[m].state = "failed" \/ m[1] \in hit'
  <2>1. CASE Answer(k, TRUE) /\ fifo' = Enqueued(k)
    BY <1>1, <2>1, Answered
  <2>2. CASE Answer(k, FALSE) /\ hit' = hit \cup {ChannelOf(k)}
    <3>1. \A m \in Message : webhook'[m] = webhook[m]
            \/ (m = MessageOf(k) /\ webhook'[m].state \in {"due", "failed"})
      BY <1>1, <2>2, Answered
    <3> QED BY <2>2, <3>1 DEF ChannelOf
  <2> QED BY <1>3, <2>1, <2>2
<1>6. /\ fifo' \in [Channel -> Seq(Entry)]
      /\ QueuedOnce' /\ AcknowledgedAreQueued' /\ QueuedInOrder' /\ FailuresIsolated'
  <2>1. CASE fifo' = Enqueued(k)
    BY <1>1, <1>4, <1>5, <2>1, SendFrame
  <2>2. CASE fifo' = fifo /\ fifo' # Enqueued(k)
    <3>1. \A c \in Channel : posted[c] <= posted'[c] /\ posted'[c] \in Nat
      BY <1>1, BoundsAssumption DEF IInv, TypeOK
    <3>2. \A m \in Message :
            /\ webhook'[m].state = "acknowledged" => webhook[m].state = "acknowledged"
            /\ webhook'[m].state = "failed" =>
                 m[1] \in hit' \/ (webhook[m].state = "failed" /\ hit \subseteq hit')
      BY <1>4, <1>5, <2>2
    <3>3. \A m \in Message : before'[m] = before[m]
      BY <1>1
    <3>4. dropped \subseteq dropped' /\ UNCHANGED fifo
      BY <1>1, <2>2
    <3> QED BY <3>1, <3>2, <3>3, <3>4, QueueFrame DEF IInv, TypeOK
  <2> QED BY <1>1, <2>1, <2>2
<1>7. TypeOK'
  BY <1>1, <1>3, <1>4, <1>6, Answered DEF Idle, IInv, TypeOK
<1>8. \A j \in Container : IF pc'[j] = "idle" THEN call'[j] = None
                           ELSE pc[j] # "idle" /\ call'[j] = call[j] /\ pc'[j] = pc[j]
  BY <1>1 DEF Idle, IInv, TypeOK, WebhooksPosted
<1>9. WebhooksPosted'
  BY <1>1, <1>3, <1>8, PostedFrame
<1>10. PromisesHold'
  BY <1>1, <1>4, <1>8 DEF IInv, PromisesHold, ChannelOf, MessageOf
<1> QED BY <1>6, <1>7, <1>9, <1>10 DEF IInv

\* A new container has no promises.
LEMMA RestartIInv ==
    ASSUME IInv, NEW k \in Container, Recycle(k) \/ Kill(k)
    PROVE  IInv'
<1>1. /\ pc' = [pc EXCEPT ![k] = "idle"] /\ call' = [call EXCEPT ![k] = None]
      /\ twilioSettings' = [twilioSettings EXCEPT ![k] = None]
      /\ channelInfo' = [channelInfo EXCEPT ![k] = [c \in Channel |-> None]]
      /\ UNCHANGED <<registered, posted, fifo, dropped, before>>
  BY DEF Recycle, Kill, Restart, Idle
<1>2. /\ hit \subseteq hit' /\ hit' \subseteq Channel /\ faults' \in 0 .. MaxFaults
      /\ \A m \in Message : \/ webhook'[m] = webhook[m]
                            \/ /\ m[1] \in hit'
                               /\ webhook'[m].state \in {"due", "failed"}
      /\ webhook' \in [Message -> [state : {"none", "due", "sent", "acknowledged", "failed"},
                                   attempt : 0 .. MaxAttempts]]
  <2>1. CASE Recycle(k)
    BY <2>1 DEF Recycle, IInv, TypeOK
  <2>2. CASE Kill(k)
    <3>1. /\ pc[k] # "idle" /\ Answer(k, FALSE) /\ hit' = hit \cup {ChannelOf(k)}
          /\ faults' = faults + 1 /\ faults < MaxFaults
      BY <2>2 DEF Kill, Fault
    <3>2. ChannelOf(k) \in Channel
      BY <3>1, Serving
    <3>3. hit \subseteq hit' /\ hit' \subseteq Channel /\ faults' \in 0 .. MaxFaults
      BY <3>1, <3>2, BoundsAssumption DEF IInv, TypeOK
    <3>4. \A m \in Message : webhook'[m] = webhook[m]
            \/ (m = MessageOf(k) /\ webhook'[m].state \in {"due", "failed"})
      BY <3>1, Answered
    <3>5. webhook' \in [Message ->
            [state : {"none", "due", "sent", "acknowledged", "failed"},
             attempt : 0 .. MaxAttempts]]
      BY <3>1, Answered
    <3>6. MessageOf(k)[1] \in hit'
      BY <3>1 DEF ChannelOf
    <3> QED BY <3>3, <3>4, <3>5, <3>6
  <2> QED BY <2>1, <2>2
<1>3. TypeOK'
  BY <1>1, <1>2 DEF IInv, TypeOK
<1>4. /\ \A j \in Container : IF pc'[j] = "idle" THEN call'[j] = None
                              ELSE pc[j] # "idle" /\ call'[j] = call[j]
      /\ \A j \in Container \ {k} : pc'[j] = pc[j] /\ channelInfo'[j] = channelInfo[j]
      /\ pc'[k] = "idle" /\ channelInfo'[k] = [c \in Channel |-> None]
  BY <1>1 DEF IInv, TypeOK, WebhooksPosted
<1>5. WebhooksPosted'
  <2>1. CASE Recycle(k)
    BY <1>1, <1>4, <2>1 DEF Recycle, IInv, WebhooksPosted, MessageOf
  <2>2. CASE Kill(k)
    BY <1>1, <1>4, <2>2, PostedFrame DEF Kill
  <2> QED BY <2>1, <2>2
<1>6. PromisesHold'
  <2>1. \A j \in Container : \A c \in Channel :
          /\ channelInfo'[j][c] \in {c, Failed, None}
          /\ channelInfo'[j][c] = Failed => c \in hit'
    BY <1>2, <1>4, NoneAssumption DEF IInv, PromisesHold
  <2>2. \A j \in Container : pc'[j] = "send" =>
          j # k /\ pc[j] = "send" /\ call'[j] = call[j] /\ channelInfo'[j] = channelInfo[j]
    BY <1>4
  <2> QED BY <2>1, <2>2 DEF IInv, PromisesHold, ChannelOf, MessageOf
<1>7. QueuedOnce' /\ AcknowledgedAreQueued' /\ QueuedInOrder' /\ FailuresIsolated'
  <2>1. \A c \in Channel : posted[c] <= posted'[c] /\ posted'[c] \in Nat
    BY <1>1, BoundsAssumption DEF IInv, TypeOK
  <2>2. \A m \in Message :
          /\ webhook'[m].state = "acknowledged" => webhook[m].state = "acknowledged"
          /\ webhook'[m].state = "failed" =>
               m[1] \in hit' \/ (webhook[m].state = "failed" /\ hit \subseteq hit')
    BY <1>2
  <2> QED BY <1>1, <2>1, <2>2, QueueFrame
<1> QED BY <1>3, <1>5, <1>6, <1>7 DEF IInv

-----------------------------------------------------------------------------
(* The queue grows by messages that were posted                            *)

LEMMA FifoGrows ==
    ASSUME IInv, Next
    PROVE  \/ /\ UNCHANGED fifo
              /\ \/ UNCHANGED posted
                 \/ \E c \in Channel : /\ posted[c] < MaxMessages
                                       /\ posted' = [posted EXCEPT ![c] = posted[c] + 1]
           \/ /\ UNCHANGED posted
              /\ \E c \in Channel, n \in 1 .. MaxMessages :
                   /\ n <= posted[c] /\ n \notin Queued(c)
                   /\ fifo' = [fifo EXCEPT ![c] =
                                 Append(fifo[c], [index |-> n, channel |-> c])]
<1>1. CASE \E c \in Channel : Post(c)
  BY <1>1 DEF Post
<1>2. CASE \E m \in Message : GiveUp(m) \/ \E k \in Container : Invoke(k, m)
  BY <1>2 DEF GiveUp, Invoke
<1>3. CASE Register
  BY <1>3 DEF Register
<1>4. ASSUME NEW k \in Container,
             ReadSettings(k) \/ SettingsFault(k) \/ FetchChannel(k) \/ FetchFault(k)
             \/ Kill(k) \/ Recycle(k)
      PROVE  UNCHANGED <<fifo, posted>>
  BY <1>4 DEF ReadSettings, SettingsFault, FetchChannel, FetchFault, Kill, Recycle
<1>5. ASSUME NEW k \in Container, SendMessage(k) \/ SendFault(k)
      PROVE  /\ UNCHANGED posted
             /\ \/ UNCHANGED fifo
                \/ \E c \in Channel, n \in 1 .. MaxMessages :
                     /\ n <= posted[c] /\ n \notin Queued(c)
                     /\ fifo' = [fifo EXCEPT ![c] =
                                   Append(fifo[c], [index |-> n, channel |-> c])]
  <2>1. pc[k] = "send" /\ UNCHANGED posted /\ fifo' \in {fifo, Enqueued(k)}
    BY <1>5 DEF SendMessage, SendFault
  <2>2. /\ ChannelOf(k) \in Channel /\ MessageOf(k)[2] \in 1 .. MaxMessages
        /\ MessageOf(k)[2] <= posted[ChannelOf(k)]
    BY <2>1, Serving
  <2>3. channelInfo[k][Slot(ChannelOf(k))] = ChannelOf(k)
    BY <2>1 DEF IInv, PromisesHold, Slot
  <2>4. CASE MessageOf(k)[2] \in Queued(ChannelOf(k))
    BY <2>1, <2>4 DEF Enqueued
  <2>5. CASE MessageOf(k)[2] \notin Queued(ChannelOf(k))
    <3>1. Enqueued(k) = [fifo EXCEPT ![ChannelOf(k)] =
            Append(fifo[ChannelOf(k)],
                   [index |-> MessageOf(k)[2], channel |-> ChannelOf(k)])]
      BY <2>3, <2>5 DEF Enqueued
    <3> QED BY <2>1, <2>2, <2>5, <3>1
  <2> QED BY <2>4, <2>5
<1> QED BY <1>1, <1>2, <1>3, <1>4, <1>5 DEF Next, Step, StepFault

-----------------------------------------------------------------------------
(* The theorems                                                            *)

LEMMA NextIInv == IInv /\ [Next]_vars => IInv'
<1> SUFFICES ASSUME IInv, [Next]_vars PROVE IInv'
  OBVIOUS
<1>1. CASE UNCHANGED vars
  <2>1. /\ UNCHANGED <<registered, posted, webhook, pc, call, twilioSettings, channelInfo>>
        /\ UNCHANGED <<fifo, dropped, hit, before, faults>>
    BY <1>1 DEF vars, container
  <2>2. TypeOK' /\ WebhooksPosted' /\ PromisesHold'
    BY <2>1 DEF IInv, TypeOK, WebhooksPosted, PromisesHold, MessageOf, ChannelOf
  <2>3. QueuedOnce' /\ AcknowledgedAreQueued' /\ QueuedInOrder' /\ FailuresIsolated'
    BY <2>1, BoundsAssumption, QueueFrame DEF IInv, TypeOK
  <2> QED BY <2>2, <2>3 DEF IInv
<1>2. CASE \E c \in Channel : Post(c)
  BY <1>2, PostIInv
<1>3. CASE \E m \in Message : GiveUp(m) \/ \E k \in Container : Invoke(k, m)
  BY <1>3, GiveUpIInv, InvokeIInv
<1>4. CASE \E k \in Container : Step(k) \/ StepFault(k) \/ Recycle(k)
  BY <1>4, SettingsIInv, FetchIInv, SendIInv, RestartIInv DEF Step, StepFault
<1>5. CASE Register
  BY <1>5, RegisterIInv
<1> QED BY <1>1, <1>2, <1>3, <1>4, <1>5 DEF Next

\* The inductive invariant of the receiver: Twilio, the containers and the
\* queue agree on what was posted, acknowledged and queued.
THEOREM Invariance == Spec => []IInv
<1> QED BY InitIInv, NextIInv, PTL DEF Spec

\* The receiver's state, its promises and the queue's groups have their types.
THEOREM TypeCorrectness == Spec => []TypeOK
<1>1. IInv => TypeOK
  BY DEF IInv
<1> QED BY <1>1, Invariance, PTL

\* However often Twilio calls a webhook, and however often and by however many
\* containers its message is sent, the group of its channel holds it once.
THEOREM MessagesQueuedOnce == Spec => []QueuedOnce
<1>1. IInv => QueuedOnce
  BY DEF IInv
<1> QED BY <1>1, Invariance, PTL

\* A message Twilio is told is taken is in the queue, or the container that
\* told so found no settings, also when the answer is that of an attempt that
\* Twilio had given up.
THEOREM NoAcknowledgedMessageLost == Spec => []AcknowledgedAreQueued
<1>1. IInv => AcknowledgedAreQueued
  BY DEF IInv
<1> QED BY <1>1, Invariance, PTL

\* The queue keeps the order of messages one of which was acknowledged before
\* the other was posted.
THEOREM QueueKeepsOrder == Spec => []QueuedInOrder
<1>1. IInv => QueuedInOrder
  BY DEF IInv
<1> QED BY <1>1, Invariance, PTL

\* The rejected promises a container keeps fail only messages of channels a
\* call for which failed.
THEOREM FailuresStayInChannel == Spec => []FailuresIsolated
<1>1. IInv => FailuresIsolated
  BY DEF IInv
<1> QED BY <1>1, Invariance, PTL
=============================================================================
