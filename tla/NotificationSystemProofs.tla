----------------------- MODULE NotificationSystemProofs -----------------------
(***************************************************************************)
(* Theorems about NotificationSystem, for every set of channels, users,    *)
(* addresses, containers and invocations, every batch size, and every      *)
(* bound.  The inductive invariants of the two components hold in their    *)
(* composition, since each of its steps is one of theirs; what links them  *)
(* is that the sender's count of the queue is its length in the receiver.  *)
(***************************************************************************)
EXTENDS NotificationSystem, EmailNotificationsProofs

\* What is proved of the receiver.
Theorems == INSTANCE WebhookReceiverProofs WITH
    Channel <- Channel, Container <- Container, MaxMessages <- MaxMessages,
    MaxAttempts <- MaxAttempts, MaxFaults <- MaxFaults, None <- None,
    Failed <- Failed, registered <- registered, posted <- posted, webhook <- webhook,
    pc <- receiverPc, call <- call, twilioSettings <- twilioSettings,
    channelInfo <- channelInfo, fifo <- fifo, dropped <- dropped, hit <- hit,
    before <- before, faults <- receiverFaults

\* The theorems are about the very module that the system is composed of.
LEMMA SameInit == Receiver!Init => Theorems!Init
  BY DEF Receiver!Init, Theorems!Init, Receiver!Message, Theorems!Message

LEMMA SameNext == Receiver!Next => Theorems!Next
  BY DEF Receiver!Next, Theorems!Next, Receiver!Message, Theorems!Message,
     Receiver!Call, Theorems!Call, Receiver!container, Theorems!container,
     Receiver!MessageOf, Theorems!MessageOf, Receiver!ChannelOf, Theorems!ChannelOf,
     Receiver!Awaited, Theorems!Awaited, Receiver!Retried, Theorems!Retried,
     Receiver!Answer, Theorems!Answer, Receiver!Idle, Theorems!Idle,
     Receiver!Fault, Theorems!Fault, Receiver!Queued, Theorems!Queued,
     Receiver!Post, Theorems!Post, Receiver!Invoke, Theorems!Invoke,
     Receiver!GiveUp, Theorems!GiveUp, Receiver!Settled, Theorems!Settled,
     Receiver!ReadSettings, Theorems!ReadSettings,
     Receiver!SettingsFault, Theorems!SettingsFault, Receiver!Slot, Theorems!Slot,
     Receiver!Fetched, Theorems!Fetched, Receiver!FetchChannel, Theorems!FetchChannel,
     Receiver!FetchFault, Theorems!FetchFault, Receiver!Enqueued, Theorems!Enqueued,
     Receiver!SendMessage, Theorems!SendMessage, Receiver!SendFault, Theorems!SendFault,
     Receiver!Restart, Theorems!Restart, Receiver!Recycle, Theorems!Recycle,
     Receiver!Kill, Theorems!Kill, Receiver!Register, Theorems!Register,
     Receiver!Step, Theorems!Step, Receiver!StepFault, Theorems!StepFault

-----------------------------------------------------------------------------
(* Steps of the system are steps of its components                         *)

LEMMA SenderTakesStep ==
    ASSUME SystemNext
    PROVE  [Next]_vars
  BY DEF SystemNext, SenderStep, Forward, Next, vars

LEMMA ReceiverTakesStep ==
    ASSUME Theorems!IInv, SystemNext
    PROVE  /\ Theorems!IInv'
           /\ UNCHANGED receiverVars \/ Theorems!Next
<1>1. UNCHANGED receiverVars \/ Theorems!Next
  BY SameNext DEF SystemNext
<1>2. CASE UNCHANGED receiverVars
  <2>1. UNCHANGED Theorems!vars
    BY <1>2 DEF receiverVars, Theorems!vars, Theorems!container
  <2> QED BY <1>2, <2>1, Theorems!NextIInv, ReceiverAssumption, BoundsAssumption
<1>3. CASE Theorems!Next
  BY <1>3, Theorems!NextIInv, ReceiverAssumption, BoundsAssumption
<1> QED BY <1>1, <1>2, <1>3

\* What a step does to the queue as both components see it: they add the same
\* message, or none.
LEMMA QueueStep ==
    ASSUME IInv, Theorems!IInv, SystemNext
    PROVE  \/ UNCHANGED <<fifo, posted, enqueued>>
           \/ /\ UNCHANGED vars /\ UNCHANGED fifo
              /\ \E c \in Channel : /\ posted[c] < MaxMessages
                                    /\ posted' = [posted EXCEPT ![c] = posted[c] + 1]
           \/ /\ UNCHANGED posted
              /\ \E c \in Channel, n \in 1 .. MaxMessages :
                   /\ n <= posted[c] /\ \A i \in DOMAIN fifo[c] : fifo[c][i].index # n
                   /\ fifo' = [fifo EXCEPT ![c] =
                                 Append(fifo[c], [index |-> n, channel |-> c])]
                   /\ Enqueue(c)
<1>0. fifo \in [Channel -> Seq(Theorems!Entry)]
  BY DEF Theorems!IInv, Theorems!TypeOK
<1>1. CASE UNCHANGED receiverVars
  <2>1. CASE Receiver!Next /\ Forward
    BY <1>1, <2>1 DEF Forward, receiverVars, vars, queue
  <2>2. CASE \E w \in Worker : SenderStep(w)
    BY <1>1, <2>2 DEF receiverVars, SenderStep, Delivery, Receive, Step, StepFault, Expire,
       Recycle, FindSubscriptions, FindUsers, FindEmails, Finish, ReturnBlind, SendMail,
       SettingsFault, ReadFault, Kill, SendFault, Return, queue
  <2>3. CASE User
    BY <1>1, <2>3 DEF receiverVars, User, Subscribe, Verify, Around, Join,
       SubscriptionCatchesUp, VerificationCatchesUp, GoOnline, GoOffline, queue
  <2> QED BY <2>1, <2>2, <2>3 DEF SystemNext
<1>2. CASE Receiver!Next /\ Forward
  <2>1. Theorems!Next
    BY <1>2, SameNext
  <2>2. \/ /\ UNCHANGED fifo
           /\ \/ UNCHANGED posted
              \/ \E c \in Channel : /\ posted[c] < MaxMessages
                                    /\ posted' = [posted EXCEPT ![c] = posted[c] + 1]
        \/ /\ UNCHANGED posted
           /\ \E c \in Channel, n \in 1 .. MaxMessages :
                /\ n <= posted[c] /\ n \notin Theorems!Queued(c)
                /\ fifo' = [fifo EXCEPT ![c] =
                              Append(fifo[c], [index |-> n, channel |-> c])]
    BY <2>1, Theorems!FifoGrows, ReceiverAssumption, BoundsAssumption
  <2>3. CASE UNCHANGED fifo
    BY <1>2, <2>2, <2>3 DEF Forward, vars, queue
  <2>4. CASE fifo' # fifo
    <3>1. PICK c \in Channel, n \in 1 .. MaxMessages :
            /\ n <= posted[c] /\ n \notin Theorems!Queued(c)
            /\ fifo' = [fifo EXCEPT ![c] = Append(fifo[c], [index |-> n, channel |-> c])]
      BY <2>2, <2>4
    <3>2. \A d \in Channel \ {c} : fifo'[d] = fifo[d]
      BY <1>0, <3>1
    <3>3. Enqueue(c)
      BY <1>2, <2>4, <3>2 DEF Forward
    <3> QED BY <2>2, <2>4, <3>1, <3>3 DEF Theorems!Queued
  <2> QED BY <2>3, <2>4
<1> QED BY <1>1, <1>2 DEF SystemNext

-----------------------------------------------------------------------------
(* The inductive invariant                                                 *)

\* Mails are about messages that are in the queue or were.
MailsQueued ==
    \A s \in Channel \X Email : \A i \in DOMAIN mails[s] : mails[s][i] <= enqueued[s[1]]

SystemInv ==
    /\ IInv
    /\ Theorems!IInv
    /\ \A c \in Channel : enqueued[c] = Len(fifo[c])
    /\ awaiting \in [Message -> SUBSET Email]
    /\ MailsQueued
    /\ WorkSubscribed

LEMMA InitSystemInv == SystemInit => SystemInv
<1> SUFFICES ASSUME SystemInit PROVE SystemInv
  OBVIOUS
<1>1. Init /\ Receiver!Init /\ awaiting = [m \in Message |-> {}]
  BY DEF SystemInit
<1>2. IInv /\ Theorems!IInv
  BY <1>1, InitIInv, SameInit, Theorems!InitIInv, ReceiverAssumption, BoundsAssumption
<1>3. \A c \in Channel : enqueued[c] = Len(fifo[c])
  BY <1>1 DEF Init, Receiver!Init
<1>4. MailsQueued /\ WorkSubscribed
  BY <1>1 DEF Init, MailsQueued, WorkSubscribed
<1> QED BY <1>1, <1>2, <1>3, <1>4 DEF SystemInv

LEMMA NextSystemInv ==
    ASSUME SystemInv, SystemNext
    PROVE  SystemInv'
<1>1. /\ IInv /\ DeliveryInv /\ Theorems!IInv /\ [Next]_vars /\ MailsQueued
      /\ WorkSubscribed /\ \A c \in Channel : enqueued[c] = Len(fifo[c])
  BY SenderTakesStep DEF SystemInv, IInv
<1>2. IInv' /\ Theorems!IInv'
  BY <1>1, NextIInv, ReceiverTakesStep
<1>3. WorkSubscribed'
  BY <1>1, WorkStep
<1>4. /\ fifo \in [Channel -> Seq(Theorems!Entry)]
      /\ enqueued \in [Channel -> Nat] /\ enqueued' \in [Channel -> Nat]
      /\ mails \in [Channel \X Email -> Seq(1 .. MaxMessages)]
      /\ mails' \in [Channel \X Email -> Seq(1 .. MaxMessages)]
  BY <1>1, <1>2, BoundsAssumption
     DEF Theorems!IInv, Theorems!TypeOK, IInv, DeliveryInv, TypeOK
<1>5. /\ \A c \in Channel : enqueued'[c] = Len(fifo'[c])
      /\ \A c \in Channel : enqueued[c] <= enqueued'[c]
  <2>1. CASE UNCHANGED <<fifo, enqueued>>
    BY <1>1, <1>4, <2>1
  <2>2. CASE \E c \in Channel, n \in 1 .. MaxMessages :
               /\ fifo' = [fifo EXCEPT ![c] = Append(fifo[c], [index |-> n, channel |-> c])]
               /\ Enqueue(c)
    <3>1. PICK c \in Channel, n \in 1 .. MaxMessages :
            /\ fifo' = [fifo EXCEPT ![c] = Append(fifo[c], [index |-> n, channel |-> c])]
            /\ Enqueue(c)
      BY <2>2
    <3>2. enqueued' = [enqueued EXCEPT ![c] = enqueued[c] + 1]
      BY <3>1 DEF Enqueue
    <3>3. [index |-> n, channel |-> c] \in Theorems!Entry
      BY DEF Theorems!Entry
    <3>4. /\ fifo'[c] = Append(fifo[c], [index |-> n, channel |-> c])
          /\ \A d \in Channel \ {c} : fifo'[d] = fifo[d] /\ enqueued'[d] = enqueued[d]
          /\ enqueued'[c] = enqueued[c] + 1
      BY <1>4, <3>1, <3>2
    <3>5. Len(fifo'[c]) = Len(fifo[c]) + 1
      BY <1>4, <3>3, <3>4, AppendProperties
    <3>6. ASSUME NEW d \in Channel
          PROVE  enqueued'[d] = Len(fifo'[d]) /\ enqueued[d] <= enqueued'[d]
      <4>0. enqueued[d] \in Nat /\ enqueued[d] = Len(fifo[d])
        BY <1>1, <1>4
      <4>1. CASE d = c
        BY <3>4, <3>5, <4>0, <4>1
      <4>2. CASE d # c
        BY <3>4, <4>0, <4>2
      <4> QED BY <4>1, <4>2
    <3> QED BY <3>6
  <2>3. CASE UNCHANGED vars /\ UNCHANGED fifo
    BY <1>1, <1>4, <2>3 DEF vars, queue
  <2> QED BY <1>1, <2>1, <2>2, <2>3, QueueStep
<1>6. ASSUME NEW s \in Channel \X Email, NEW i \in DOMAIN mails[s]
      PROVE  mails[s][i] <= enqueued[s[1]] /\ mails[s][i] \in Nat
  <2>1. mails[s] \in Seq(1 .. MaxMessages)
    BY <1>4
  <2>2. mails[s][i] \in 1 .. MaxMessages
    <3>1. i \in 1 .. Len(mails[s])
      BY <2>1, LenProperties
    <3> QED BY <2>1, <3>1, ElementOfSeq
  <2> QED BY <1>1, <2>2 DEF MailsQueued
<1>7. MailsQueued'
  <2> SUFFICES ASSUME NEW s \in Channel \X Email, NEW i \in DOMAIN mails'[s]
               PROVE  mails'[s][i] <= enqueued'[s[1]]
    BY DEF MailsQueued
  <2>0. s[1] \in Channel
    OBVIOUS
  <2>1. CASE mails'[s] = mails[s]
    <3>1. mails[s][i] <= enqueued[s[1]] /\ mails[s][i] \in Nat
      BY <1>6, <2>1
    <3> QED BY <1>4, <1>5, <2>0, <2>1, <3>1
  <2>2. CASE mails'[s] # mails[s]
    <3>1. PICK w \in Worker, c \in Channel, e \in Email :
            /\ first[w][c] # 0
            /\ mails' = [mails EXCEPT ![<<c, e>>] = Append(mails[<<c, e>>], first[w][c])]
      BY <1>1, <2>2, MailStep
    <3>2. s = <<c, e>> /\ mails'[s] = Append(mails[s], first[w][c])
      BY <1>4, <2>2, <3>1
    <3>3. first[w][c] \in 1 .. MaxMessages /\ first[w][c] <= enqueued[c]
      BY <1>1, <3>1, FirstIsMessage DEF Message
    <3>4. /\ DOMAIN mails'[s] = 1 .. Len(mails[s]) + 1 /\ Len(mails[s]) \in Nat
          /\ mails'[s][Len(mails[s]) + 1] = first[w][c]
          /\ \A j \in 1 .. Len(mails[s]) : mails'[s][j] = mails[s][j] /\ j \in DOMAIN mails[s]
      BY <1>4, <3>2, <3>3
    <3>5. CASE i = Len(mails[s]) + 1
      BY <1>4, <1>5, <3>2, <3>3, <3>4, <3>5
    <3>6. CASE i # Len(mails[s]) + 1
      <4>1. i \in 1 .. Len(mails[s])
        BY <3>4, <3>6
      <4>2. mails[s][i] <= enqueued[s[1]] /\ mails[s][i] \in Nat /\ mails'[s][i] = mails[s][i]
        BY <1>6, <3>4, <4>1
      <4> QED BY <1>4, <1>5, <2>0, <4>2
    <3> QED BY <3>5, <3>6
  <2> QED BY <2>1, <2>2
<1>8. awaiting' \in [Message -> SUBSET Email]
  <2>1. \A c : Eligible(c) \subseteq Email
    BY <1>1 DEF Eligible, DeliveryInv, TypeOK
  <2>2. awaiting \in [Message -> SUBSET Email]
    BY DEF SystemInv
  <2> QED BY <2>1, <2>2 DEF SystemNext, Await
<1> QED BY <1>2, <1>3, <1>5, <1>7, <1>8 DEF SystemInv

-----------------------------------------------------------------------------
(* The service                                                             *)

\* The messages of channel c the queue has accepted.
Accepted == [c \in Channel |-> [n \in DOMAIN fifo[c] |-> fifo[c][n].index]]

LEMMA AcceptedGrows ==
    ASSUME SystemInv, NEW c \in Channel, NEW n \in 1 .. MaxMessages,
           fifo' = [fifo EXCEPT ![c] = Append(fifo[c], [index |-> n, channel |-> c])]
    PROVE  Accepted' = [Accepted EXCEPT ![c] = Append(Accepted[c], n)]
<1> DEFINE e == [index |-> n, channel |-> c]
           q == fifo[c]
<1>1. fifo \in [Channel -> Seq(Theorems!Entry)] /\ q \in Seq(Theorems!Entry)
  BY DEF SystemInv, Theorems!IInv, Theorems!TypeOK
<1>2. e \in Theorems!Entry /\ e.index = n
  BY DEF Theorems!Entry
<1> HIDE DEF e
<1>3. /\ fifo'[c] = Append(q, e) /\ \A d \in Channel \ {c} : fifo'[d] = fifo[d]
      /\ DOMAIN fifo' = Channel
  BY <1>1 DEF e
<1>4. /\ Len(q) \in Nat /\ DOMAIN q = 1 .. Len(q) /\ DOMAIN fifo'[c] = 1 .. Len(q) + 1
      /\ fifo'[c][Len(q) + 1] = e /\ \A i \in 1 .. Len(q) : fifo'[c][i] = q[i]
  BY <1>1, <1>2, <1>3
<1>5. \A d \in Channel : Accepted[d] = [i \in DOMAIN fifo[d] |-> fifo[d][i].index]
  BY DEF Accepted
<1>6. \A d \in Channel : Accepted'[d] = [i \in DOMAIN fifo'[d] |-> fifo'[d][i].index]
  BY DEF Accepted
<1>7. /\ DOMAIN Accepted[c] = 1 .. Len(q)
      /\ \A i \in 1 .. Len(q) : /\ Accepted[c][i] = q[i].index
                                /\ q[i].index \in 1 .. MaxMessages
  <2>1. ASSUME NEW i \in 1 .. Len(q) PROVE q[i].index \in 1 .. MaxMessages
    <3>1. q[i] \in Theorems!Entry
      BY <1>1, ElementOfSeq
    <3> QED BY <3>1 DEF Theorems!Entry
  <2> QED BY <1>4, <1>5, <2>1
<1>8. /\ DOMAIN Accepted'[c] = 1 .. Len(q) + 1 /\ Accepted'[c][Len(q) + 1] = n
      /\ \A i \in 1 .. Len(q) : Accepted'[c][i] = q[i].index
  <2>1. Accepted'[c] = [i \in 1 .. Len(q) + 1 |-> fifo'[c][i].index]
    BY <1>4, <1>6
  <2>2. /\ Len(q) + 1 \in 1 .. Len(q) + 1
        /\ \A i \in 1 .. Len(q) : i \in 1 .. Len(q) + 1
    BY <1>4
  <2> QED BY <1>2, <1>4, <2>1, <2>2
<1>9. Accepted'[c] = Append(Accepted[c], n)
  <2>1. Accepted[c] = [i \in 1 .. Len(q) |-> Accepted[c][i]]
    BY <1>5, <1>7
  <2>2. Accepted[c] \in Seq(1 .. MaxMessages)
    <3>1. Accepted[c] \in [1 .. Len(q) -> 1 .. MaxMessages]
      BY <1>7, <2>1
    <3> QED BY <1>4, <3>1, SeqDef
  <2>3. Len(Accepted[c]) = Len(q)
    BY <1>4, <1>7, <2>2, LenProperties
  <2>4. /\ Append(Accepted[c], n) \in Seq(1 .. MaxMessages)
        /\ Len(Append(Accepted[c], n)) = Len(q) + 1
        /\ \A i \in 1 .. Len(q) : Append(Accepted[c], n)[i] = q[i].index
        /\ Append(Accepted[c], n)[Len(q) + 1] = n
    BY <1>7, <2>2, <2>3, AppendProperties
  <2>5. Accepted'[c] = [i \in 1 .. Len(q) + 1 |-> Accepted'[c][i]]
    BY <1>6, <1>8
  <2>6. \A i \in 1 .. Len(q) + 1 : i \in 1 .. Len(q) \/ i = Len(q) + 1
    BY <1>4
  <2>7. \A i \in 1 .. Len(q) + 1 : Accepted'[c][i] \in 1 .. MaxMessages
    BY <1>7, <1>8, <2>6
  <2>8. Accepted'[c] \in Seq(1 .. MaxMessages)
    <3>1. Accepted'[c] \in [1 .. Len(q) + 1 -> 1 .. MaxMessages]
      BY <2>5, <2>7
    <3>2. Len(q) + 1 \in Nat
      BY <1>4
    <3> QED BY <3>1, <3>2, SeqDef
  <2>9. Len(Accepted'[c]) = Len(q) + 1
    BY <1>4, <1>8, <2>8, LenProperties
  <2>10. \A i \in 1 .. Len(q) + 1 : Accepted'[c][i] = Append(Accepted[c], n)[i]
    BY <1>8, <2>4, <2>6
  <2> QED BY <2>4, <2>8, <2>9, <2>10, SeqEqual
<1>10. \A d \in Channel \ {c} : Accepted'[d] = Accepted[d]
  <2> SUFFICES ASSUME NEW d \in Channel \ {c} PROVE Accepted'[d] = Accepted[d]
    OBVIOUS
  <2>1. fifo'[d] = fifo[d]
    BY <1>3
  <2>2. Accepted'[d] = [i \in DOMAIN fifo[d] |-> fifo[d][i].index]
    BY <1>6, <2>1
  <2> QED BY <1>5, <2>2
<1>11. DOMAIN Accepted = Channel /\ DOMAIN Accepted' = Channel
  BY DEF Accepted
<1>12. Accepted' = [d \in Channel |-> IF d = c THEN Append(Accepted[c], n) ELSE Accepted[d]]
  BY <1>9, <1>10, <1>11 DEF Accepted
<1> QED BY <1>11, <1>12 DEF Accepted

LEMMA ServiceInit == SystemInit => Service!Init
  BY DEF SystemInit, Init, Receiver!Init, Service!Init

\* A mail is a mail of the service: about an accepted message, and not older
\* than those the subscriber got.
LEMMA NotifyStep ==
    ASSUME SystemInv, NEW w \in Worker, NEW c \in Channel, NEW e \in Email,
           first[w][c] # 0, e \in verified, subscriptions[<<c, e>>] # None,
           mails' = [mails EXCEPT ![<<c, e>>] = Append(mails[<<c, e>>], first[w][c])],
           UNCHANGED <<fifo, posted, verified, subscriptions>>
    PROVE  Service!Notify(c, e, first[w][c]) /\ first[w][c] \in 1 .. MaxMessages
<1>1. DeliveryInv
  BY DEF SystemInv, IInv
<1>2. /\ first[w][c] = deleted[c] + 1 /\ first[w][c] \in 1 .. MaxMessages
      /\ first[w][c] <= enqueued[c] /\ enqueued[c] = Len(fifo[c])
  BY <1>1, FirstIsMessage DEF Message, SystemInv
<1>3. fifo[c] \in Seq(Theorems!Entry)
  BY DEF SystemInv, Theorems!IInv, Theorems!TypeOK
<1>4. first[w][c] \in DOMAIN fifo[c]
  BY <1>2, <1>3
<1>5. \A i \in DOMAIN mails[<<c, e>>] : mails[<<c, e>>][i] <= first[w][c]
  BY <1>1, <1>2 DEF DeliveryInv, MailsFromHead
<1> QED BY <1>2, <1>4, <1>5 DEF Service!Notify

LEMMA ServiceStep ==
    ASSUME SystemInv, SystemNext
    PROVE  [Service!Next]_(Service!vars)
<1>1. DeliveryInv /\ IInv /\ Theorems!IInv /\ WorkSubscribed /\ [Next]_vars
  BY SenderTakesStep DEF SystemInv, IInv
<1>2. CASE UNCHANGED vars /\ UNCHANGED fifo
           /\ \E c \in Channel : /\ posted[c] < MaxMessages
                                 /\ posted' = [posted EXCEPT ![c] = posted[c] + 1]
  BY <1>2 DEF vars, environment, Service!Next, Service!Post
<1>3. CASE /\ UNCHANGED posted
           /\ \E c \in Channel, n \in 1 .. MaxMessages :
                   /\ n <= posted[c] /\ \A i \in DOMAIN fifo[c] : fifo[c][i].index # n
                   /\ fifo' = [fifo EXCEPT ![c] =
                                 Append(fifo[c], [index |-> n, channel |-> c])]
                   /\ Enqueue(c)
  <2>1. PICK c \in Channel, n \in 1 .. MaxMessages :
               /\ n <= posted[c] /\ \A i \in DOMAIN fifo[c] : fifo[c][i].index # n
               /\ fifo' = [fifo EXCEPT ![c] =
                             Append(fifo[c], [index |-> n, channel |-> c])]
               /\ Enqueue(c)
    BY <1>3
  <2>2. UNCHANGED <<posted, subscriptions, verified, mails>>
    BY <1>3, <2>1 DEF Enqueue, environment
  <2>3. Accepted' = [Accepted EXCEPT ![c] = Append(Accepted[c], n)]
    BY <2>1, AcceptedGrows
  <2>4. DOMAIN Accepted[c] = DOMAIN fifo[c]
        /\ \A i \in DOMAIN fifo[c] : Accepted[c][i] = fifo[c][i].index
    BY DEF Accepted
  <2>5. Service!Accept(c, n)
    BY <2>1, <2>2, <2>3, <2>4 DEF Service!Accept, Accepted
  <2> QED BY <2>5 DEF Service!Next
<1>4. CASE UNCHANGED <<fifo, posted, enqueued>>
  <2>1. CASE UNCHANGED <<mails, verified, subscriptions>>
    BY <1>4, <2>1 DEF Service!vars
  <2>2. CASE \E c \in Channel, e \in Email, i \in Identity :
               /\ subscriptions' = [subscriptions EXCEPT ![<<c, e>>] = i]
               /\ UNCHANGED <<mails, verified>>
    BY <1>4, <2>2 DEF Service!Next, Service!Subscribe
  <2>3. CASE \E e \in Email : /\ verified' = verified \cup {e}
                              /\ UNCHANGED <<mails, subscriptions>>
    BY <1>4, <2>3 DEF Service!Next, Service!Verify
  <2>4. CASE \E w \in Worker, c \in Channel, e \in Email :
               /\ first[w][c] # 0 /\ e \in verified /\ subscriptions[<<c, e>>] # None
               /\ mails' = [mails EXCEPT ![<<c, e>>] =
                              Append(mails[<<c, e>>], first[w][c])]
               /\ UNCHANGED <<verified, subscriptions, enqueued>>
    BY <1>4, <2>4, NotifyStep DEF Service!Next
  <2> QED BY <1>1, <2>1, <2>2, <2>3, <2>4, MailStep
<1> QED BY <1>1, <1>2, <1>3, <1>4, QueueStep

-----------------------------------------------------------------------------
(* The theorems                                                            *)

LEMMA UnchangedSystemInv ==
    ASSUME SystemInv, UNCHANGED systemVars
    PROVE  SystemInv' /\ UNCHANGED vars /\ UNCHANGED Service!vars
<1>1. UNCHANGED vars /\ UNCHANGED receiverVars /\ UNCHANGED awaiting
  BY DEF systemVars
<1>2. UNCHANGED Theorems!vars /\ UNCHANGED Receiver!vars
  BY <1>1 DEF receiverVars, Theorems!vars, Theorems!container, Receiver!vars,
     Receiver!container
<1>3. IInv' /\ Theorems!IInv'
  BY <1>1, <1>2, NextIInv, Theorems!NextIInv, ReceiverAssumption, BoundsAssumption
     DEF SystemInv
<1>4. UNCHANGED <<fifo, posted, enqueued, mails, work, subscriptions, replaced, verified>>
  BY <1>1 DEF vars, queue, environment, receiverVars
<1>5. SystemInv'
  BY <1>1, <1>3, <1>4 DEF SystemInv, MailsQueued, WorkSubscribed
<1> QED BY <1>1, <1>4, <1>5 DEF Service!vars

\* The inductive invariant of the system: those of the components, and that
\* both count the queue alike.
THEOREM SystemInvariance == SystemSpec => []SystemInv
<1>1. SystemInv /\ [SystemNext]_systemVars => SystemInv'
  BY NextSystemInv, UnchangedSystemInv
<1> QED BY <1>1, InitSystemInv, PTL DEF SystemSpec

\* The system and its parts are well typed, and the sender counts the messages
\* the receiver queued.
THEOREM SystemTypeCorrectness == SystemSpec => []SystemTypeOK
<1>1. SystemInv => SystemTypeOK
  BY DEF SystemInv, IInv, DeliveryInv, Theorems!IInv, SystemTypeOK, Receiver!TypeOK,
     Theorems!TypeOK, Receiver!Message, Theorems!Message, Receiver!Call, Theorems!Call,
     Receiver!Entry, Theorems!Entry
<1> QED BY <1>1, SystemInvariance, PTL

\* What is mailed was queued, where each message has one place.
LEMMA MailedPlaces ==
    ASSUME SystemInv, NEW s \in Channel \X Email, NEW i \in DOMAIN mails[s]
    PROVE  /\ s[1] \in Channel /\ mails[s][i] \in Nat /\ mails[s][i] \in DOMAIN fifo[s[1]]
           /\ \A k \in DOMAIN fifo[s[1]] :
                fifo[s[1]][k].index = fifo[s[1]][mails[s][i]].index => k = mails[s][i]
<1>1. s[1] \in Channel /\ mails[s] \in Seq(1 .. MaxMessages)
  BY DEF SystemInv, IInv, DeliveryInv, TypeOK
<1>2. i \in 1 .. Len(mails[s])
  BY <1>1, LenProperties
<1>3. mails[s][i] \in 1 .. MaxMessages
  BY <1>1, <1>2, ElementOfSeq
<1>4. mails[s][i] <= Len(fifo[s[1]]) /\ fifo[s[1]] \in Seq(Theorems!Entry)
  BY <1>1 DEF SystemInv, MailsQueued, Theorems!IInv, Theorems!TypeOK
<1>5. mails[s][i] \in DOMAIN fifo[s[1]]
  BY <1>3, <1>4, LenProperties
<1>6. \A k \in DOMAIN fifo[s[1]] :
        fifo[s[1]][k].index = fifo[s[1]][mails[s][i]].index => k = mails[s][i]
  BY <1>1, <1>5 DEF SystemInv, Theorems!IInv, Theorems!QueuedOnce
<1> QED BY <1>1, <1>3, <1>5, <1>6

\* Nobody is mailed about the messages of a chat the wrong way round: what
\* Twilio knew to be taken before it called about the next message was queued
\* before it, and the queue is worked off in order.
THEOREM MailsFollowTheChat == SystemSpec => []MailsFollowChat
<1>1. SystemInv => MailsFollowChat
  <2> SUFFICES ASSUME SystemInv, NEW s \in Channel \X Email,
                      NEW i \in DOMAIN mails[s], NEW j \in DOMAIN mails[s], i < j,
                      fifo[s[1]][mails[s][j]].index \in
                        before[<<s[1], fifo[s[1]][mails[s][i]].index>>]
               PROVE  <<s[1], fifo[s[1]][mails[s][j]].index>> \in dropped
    BY DEF MailsFollowChat, MessageAt
  <2>1. mails[s][i] <= mails[s][j]
    BY DEF SystemInv, IInv, DeliveryInv, MailsInOrder
  <2>2. /\ s[1] \in Channel /\ mails[s][i] \in Nat /\ mails[s][j] \in Nat
        /\ mails[s][i] \in DOMAIN fifo[s[1]]
        /\ \A k \in DOMAIN fifo[s[1]] :
             fifo[s[1]][k].index = fifo[s[1]][mails[s][j]].index => k = mails[s][j]
    BY MailedPlaces
  <2>3. \/ <<s[1], fifo[s[1]][mails[s][j]].index>> \in dropped
        \/ \E k \in DOMAIN fifo[s[1]] :
             k < mails[s][i] /\ fifo[s[1]][k].index = fifo[s[1]][mails[s][j]].index
    <3>1. Theorems!QueuedInOrder
      BY DEF SystemInv, Theorems!IInv
    <3>2. \A n \in before[<<s[1], fifo[s[1]][mails[s][i]].index>>] :
            \/ <<s[1], n>> \in dropped
            \/ \E k \in DOMAIN fifo[s[1]] : k < mails[s][i] /\ fifo[s[1]][k].index = n
      BY <2>2, <3>1, Zenon DEF Theorems!QueuedInOrder
    <3> QED BY <3>2
  <2>4. CASE \E k \in DOMAIN fifo[s[1]] :
               k < mails[s][i] /\ fifo[s[1]][k].index = fifo[s[1]][mails[s][j]].index
    <3>1. mails[s][j] < mails[s][i]
      BY <2>2, <2>4
    <3> QED BY <2>1, <2>2, <3>1
  <2> QED BY <2>3, <2>4
<1> QED BY <1>1, SystemInvariance, PTL

\* From Twilio's first attempt at the webhook to the last delivery of the queue,
\* only an invocation of the sender that is killed makes a mail be sent twice.
THEOREM MailedOncePerChatMessage == SystemSpec => []MailedOncePerMessage
<1>1. SystemInv => MailedOncePerMessage
  <2> SUFFICES ASSUME SystemInv, NEW s \in Channel \X Email,
                      NEW i \in DOMAIN mails[s], NEW j \in DOMAIN mails[s],
                      fifo[s[1]][mails[s][i]].index = fifo[s[1]][mails[s][j]].index
               PROVE  i = j \/ <<s[1], mails[s][i]>> \in repeated
    BY DEF MailedOncePerMessage, MessageAt
  <2>1. mails[s][i] = mails[s][j]
    BY MailedPlaces
  <2> QED BY <2>1 DEF SystemInv, IInv, MailedOnce
<1> QED BY <1>1, SystemInvariance, PTL

\* The composition adds nothing to the sender: it does what EmailNotifications
\* says, for an environment that posts messages at will.
THEOREM SystemImplementsSender == SystemSpec => Spec
<1>1. SystemInit => Init
  BY DEF SystemInit
<1>2. [SystemNext]_systemVars => [Next]_vars
  BY SenderTakesStep DEF systemVars
<1> QED BY <1>1, <1>2, PTL DEF SystemSpec, Spec

\* Delivered one at a time, as in the deployment for tests, no message leaves the
\* queue unnoticed by those it is due for, in the whole system, too.
THEOREM SystemMailsEveryMessage ==
    ASSUME BatchSize = 1
    PROVE  SystemSpec => EveryMessageMailed
  BY SystemImplementsSender, EveryMessageMailedHolds

\* The webhooks, the containers of both lambdas, and the queue between them
\* refine the service: each message is accepted once, and subscribers with a
\* verified address are mailed about accepted messages, in their order.
THEOREM SystemImplementsService == SystemSpec => ImplementsService
<1>1. SystemInit => Service!Init
  BY ServiceInit
<1>2. SystemInv /\ [SystemNext]_systemVars => [Service!Next]_(Service!vars)
  BY ServiceStep, UnchangedSystemInv
<1> QED BY <1>1, <1>2, SystemInvariance, PTL DEF SystemSpec, ImplementsService, Service!Spec

-----------------------------------------------------------------------------
(* Nobody is forgotten                                                     *)

LEMMA InitAwaitInv == SystemInit => AwaitInv
  BY DEF SystemInit, Receiver!Init, AwaitInv, AwaitingAreEligible, AwaitingAreDue, Message,
     MessageAt

\* A chat message that is in the queue was posted.
PlacesPosted ==
    \A c \in Channel : \A n \in DOMAIN fifo[c] :
        /\ fifo[c][n].index <= posted[c] /\ MessageAt(c, n) \in Message
        /\ n \in 1 .. enqueued[c] /\ posted[c] \in Nat /\ fifo[c][n].index \in Nat

LEMMA PlacesArePosted == SystemInv => PlacesPosted
<1> SUFFICES ASSUME SystemInv, NEW c \in Channel, NEW n \in DOMAIN fifo[c]
             PROVE  /\ fifo[c][n].index <= posted[c] /\ MessageAt(c, n) \in Message
                    /\ n \in 1 .. enqueued[c] /\ posted[c] \in Nat /\ fifo[c][n].index \in Nat
  BY DEF PlacesPosted
<1>1. fifo[c] \in Seq(Theorems!Entry) /\ posted[c] \in Nat
  BY DEF SystemInv, Theorems!IInv, Theorems!TypeOK
<1>2. fifo[c][n] \in Theorems!Entry /\ n \in 1 .. Len(fifo[c])
  BY <1>1, ElementOfSeq, LenProperties
<1> QED BY <1>1, <1>2
        DEF SystemInv, Theorems!IInv, Theorems!QueuedOnce, Theorems!Entry, MessageAt, Message

LEMMA PlacesArePostedNext == SystemInv' => PlacesPosted'
  BY PlacesArePosted, PTL

\* Who awaits a mail about a message after a step did so before, if it was not
\* posted in this very step, and still meets the conditions.
LEMMA AwaitStep ==
    ASSUME SystemNext, NEW m \in Message, NEW e \in awaiting'[m]
    PROVE  \/ /\ posted'[m[1]] > posted[m[1]] /\ m[2] = posted'[m[1]]
              /\ e \in Eligible(m[1])
           \/ /\ e \in awaiting[m] /\ e \in Eligible(m[1])' /\ ~MailedAbout(e, m)'
              /\ subscriptions'[<<m[1], e>>] = subscriptions[<<m[1], e>>]
  BY DEF SystemNext, Await

LEMMA NextEligible ==
    ASSUME SystemInv, SystemNext
    PROVE  AwaitingAreEligible'
<1> SUFFICES ASSUME NEW m \in Message, NEW e \in awaiting'[m]
             PROVE  e \in Eligible(m[1])' /\ ~MailedAbout(e, m)'
  BY DEF AwaitingAreEligible
<1>1. CASE e \in Eligible(m[1])' /\ ~MailedAbout(e, m)'
  BY <1>1
<1>2. CASE posted'[m[1]] > posted[m[1]] /\ m[2] = posted'[m[1]] /\ e \in Eligible(m[1])
  <2>1. m[1] \in Channel /\ posted[m[1]] \in Nat
    BY DEF Message, SystemInv, Theorems!IInv, Theorems!TypeOK
  <2>2. posted' # posted
    BY <1>2, <2>1
  <2>3. UNCHANGED vars /\ UNCHANGED fifo
    BY <2>2, QueueStep DEF SystemInv
  <2>4. e \in Eligible(m[1])'
    BY <1>2, <2>3 DEF vars, environment, Eligible, CaughtUp, Notifiable
  <2>5. \A n \in DOMAIN fifo[m[1]] : fifo[m[1]][n].index # m[2]
    BY <1>2, <2>1, PlacesArePosted DEF PlacesPosted
  <2>6. ~MailedAbout(e, m)'
    BY <2>3, <2>5 DEF MailedAbout, MessageAt
  <2> QED BY <2>4, <2>6
<1> QED BY <1>1, <1>2, AwaitStep

LEMMA NextDue ==
    ASSUME BatchSize = 1, SystemInv, DueInv, AwaitInv, SystemNext
    PROVE  AwaitingAreDue'
<1>0. /\ SystemInv' /\ DeliveryInv /\ [Next]_vars
      /\ \A c \in Channel : enqueued[c] = Len(fifo[c])
      /\ fifo \in [Channel -> Seq(Theorems!Entry)]
  BY NextSystemInv, SenderTakesStep
     DEF SystemInv, IInv, Theorems!IInv, Theorems!TypeOK
<1>a. PlacesPosted'
  BY <1>0, PlacesArePostedNext
<1> SUFFICES ASSUME NEW c \in Channel, NEW n \in DOMAIN fifo'[c],
                    NEW m, m = <<c, fifo'[c][n].index>>, NEW e \in awaiting'[m]
             PROVE  IF n > deleted'[c] THEN e \in due'[<<c, n>>]
                    ELSE <<c, n>> \in harmed'
  BY DEF AwaitingAreDue, MessageAt
<1>1. /\ m \in Message /\ m[1] = c /\ m[2] = fifo'[c][n].index
      /\ m[2] \in Nat /\ m[2] <= posted'[c]
  BY <1>a DEF PlacesPosted, MessageAt
\* A message that was in the queue before the step.
<1>2. ASSUME n \in DOMAIN fifo[c], fifo'[c][n] = fifo[c][n], UNCHANGED posted
      PROVE  IF n > deleted'[c] THEN e \in due'[<<c, n>>] ELSE <<c, n>> \in harmed'
  <2>1. /\ e \in awaiting[m] /\ e \in Eligible(m[1])' /\ ~MailedAbout(e, m)'
        /\ subscriptions'[<<m[1], e>>] = subscriptions[<<m[1], e>>]
    <3>1. posted[c] \in Nat
      BY <1>2, PlacesArePosted DEF PlacesPosted
    <3>2. ~(posted'[m[1]] > posted[m[1]])
      BY <1>1, <1>2, <3>1
    <3> QED BY <1>1, <3>2, AwaitStep
  <2>2. m = MessageAt(c, n)
    BY <1>2 DEF MessageAt
  <2>3. ~Mailed(c, e, n)'
    BY <1>1, <2>1 DEF MailedAbout, MessageAt
  <2>4. IF n > deleted[c] THEN e \in due[<<c, n>>] ELSE <<c, n>> \in harmed
    BY <1>2, <2>1, <2>2 DEF AwaitInv, AwaitingAreDue
  <2>5. n \in 1 .. enqueued[c]
    BY <1>2, PlacesArePosted DEF PlacesPosted
  <2> QED BY <1>0, <1>1, <2>1, <2>3, <2>4, <2>5, PlaceKept
<1>3. CASE UNCHANGED <<fifo, posted, enqueued>>
  BY <1>2, <1>3
<1>4. ASSUME UNCHANGED vars, UNCHANGED fifo,
             NEW d \in Channel, posted' = [posted EXCEPT ![d] = posted[d] + 1]
      PROVE  IF n > deleted'[c] THEN e \in due'[<<c, n>>] ELSE <<c, n>> \in harmed'
  <2>1. m = MessageAt(c, n) /\ n \in DOMAIN fifo[c]
    BY <1>4 DEF MessageAt
  <2>2. m[2] <= posted[c] /\ posted[c] \in Nat
    BY <1>1, <1>4, <2>1, PlacesArePosted DEF PlacesPosted
  <2>3. ~(posted'[m[1]] > posted[m[1]] /\ m[2] = posted'[m[1]])
    BY <1>1, <2>2
  <2>4. e \in awaiting[m]
    BY <1>1, <2>3, AwaitStep
  <2>5. IF n > deleted[c] THEN e \in due[<<c, n>>] ELSE <<c, n>> \in harmed
    BY <2>1, <2>4 DEF AwaitInv, AwaitingAreDue
  <2> QED BY <1>4, <2>5 DEF vars, queue, failures
<1>5. ASSUME NEW d \in Channel, NEW k \in 1 .. MaxMessages, UNCHANGED posted,
             fifo' = [fifo EXCEPT ![d] = Append(fifo[d], [index |-> k, channel |-> d])],
             Enqueue(d)
      PROVE  IF n > deleted'[c] THEN e \in due'[<<c, n>>] ELSE <<c, n>> \in harmed'
  <2>1. [index |-> k, channel |-> d] \in Theorems!Entry
    BY DEF Theorems!Entry
  <2>2. CASE c # d
    <3>1. fifo'[c] = fifo[c]
      BY <1>0, <1>5, <2>2
    <3> QED BY <1>2, <1>5, <3>1
  <2>3. CASE c = d /\ n # Len(fifo[c]) + 1
    <3>1. /\ fifo'[c] = Append(fifo[c], [index |-> k, channel |-> d])
          /\ fifo[c] \in Seq(Theorems!Entry)
      BY <1>0, <1>5, <2>3
    <3>2. n \in DOMAIN fifo[c] /\ fifo'[c][n] = fifo[c][n]
      BY <2>1, <2>3, <3>1, AppendProperties
    <3> QED BY <1>2, <1>5, <3>2
  <2>4. CASE c = d /\ n = Len(fifo[c]) + 1
    <3>1. n = enqueued[c] + 1 /\ <<c, n>> \in Message
      <4>1. n = enqueued[c] + 1
        BY <1>0, <2>4
      <4>2. enqueued[c] \in 0 .. MaxMessages /\ enqueued[c] < MaxMessages
        BY <1>0, <1>5, <2>4 DEF Enqueue, DeliveryInv, TypeOK
      <4>3. n \in 1 .. MaxMessages
        BY <4>1, <4>2, BoundsAssumption
      <4> QED BY <4>1, <4>3 DEF Message
    <3>2. n > deleted'[c]
      <4>1. deleted[c] <= enqueued[c] /\ deleted[c] \in Nat /\ enqueued[c] \in Nat
            /\ deleted' = deleted
        BY <1>0, <1>5 DEF DeliveryInv, TypeOK, HeldInQueue, Enqueue
      <4> QED BY <3>1, <4>1
    <3>3. e \in Eligible(c)'
      <4>1. posted[c] \in Nat /\ ~(posted'[c] > posted[c])
        BY <1>5 DEF SystemInv, Theorems!IInv, Theorems!TypeOK
      <4> QED BY <1>1, <4>1, AwaitStep
    <3>4. Eligible(c)' = Eligible(c)
      BY <1>5 DEF Enqueue, Eligible, CaughtUp, Notifiable, environment
    <3>5. due'[<<c, n>>] = Eligible(c)
      BY <1>0, <1>5, <2>4, <3>1 DEF Enqueue, DeliveryInv, TypeOK
    <3> QED BY <3>2, <3>3, <3>4, <3>5
  <2> QED BY <2>2, <2>3, <2>4
<1>6. \/ UNCHANGED <<fifo, posted, enqueued>>
      \/ UNCHANGED vars /\ UNCHANGED fifo
         /\ \E d \in Channel : posted' = [posted EXCEPT ![d] = posted[d] + 1]
      \/ UNCHANGED posted
         /\ \E d \in Channel, k \in 1 .. MaxMessages :
              /\ fifo' = [fifo EXCEPT ![d] = Append(fifo[d], [index |-> k, channel |-> d])]
              /\ Enqueue(d)
  BY QueueStep DEF SystemInv
<1> QED BY <1>3, <1>4, <1>5, <1>6

LEMMA NextAwaitInv ==
    ASSUME BatchSize = 1, SystemInv, DueInv, AwaitInv, [SystemNext]_systemVars
    PROVE  AwaitInv'
<1>1. CASE SystemNext
  BY <1>1, NextEligible, NextDue DEF AwaitInv
<1>2. CASE UNCHANGED systemVars
  <2>1. UNCHANGED <<fifo, awaiting, deleted, due, harmed, mails, verified, unseen, known,
                    online, subscriptions, replaced>>
    BY <1>2 DEF systemVars, vars, queue, failures, environment, receiverVars
  <2> QED BY <2>1 DEF AwaitInv, AwaitingAreEligible, AwaitingAreDue, Eligible, CaughtUp,
                     Notifiable, MailedAbout, Mailed, MessageAt
<1> QED BY <1>1, <1>2

\* Who awaits a mail about a message that Twilio was told to be taken is still
\* served by the queue, or what befell the message excuses it.
LEMMA AwaitInvSuffices ==
    ASSUME SystemInv, AwaitInv
    PROVE  NothingIsForgotten
<1> SUFFICES ASSUME NEW m \in Message, NEW e \in awaiting[m],
                    webhook[m].state = "acknowledged", m \notin dropped
             PROVE  Waits(m) \/ Excused(m)
  BY DEF NothingIsForgotten, Excused
<1>1. m[1] \in Channel /\ m = <<m[1], m[2]>>
  BY DEF Message
<1>2. m[2] \in Theorems!Queued(m[1])
  BY DEF SystemInv, Theorems!IInv, Theorems!AcknowledgedAreQueued, Theorems!Message, Message
<1>3. PICK n \in DOMAIN fifo[m[1]] : MessageAt(m[1], n) = m
  BY <1>1, <1>2 DEF Theorems!Queued, MessageAt
<1>4. IF n > deleted[m[1]] THEN e \in due[<<m[1], n>>] ELSE <<m[1], n>> \in harmed
  BY <1>1, <1>3 DEF AwaitInv, AwaitingAreDue
<1>5. n \in 1 .. enqueued[m[1]] /\ deleted[m[1]] \in Nat /\ enqueued[m[1]] \in Nat
  BY <1>1, <1>3, PlacesArePosted DEF SystemInv, IInv, DeliveryInv, TypeOK, PlacesPosted
<1>6. CASE n > deleted[m[1]]
  BY <1>3, <1>5, <1>6 DEF Waits
<1>7. CASE ~(n > deleted[m[1]])
  BY <1>3, <1>4, <1>7 DEF Excused
<1> QED BY <1>6, <1>7

\* From the chat to the mail nothing is forgotten: as long as somebody awaits a
\* mail about a message, Twilio will call once more, or the queue has the message,
\* or a call failed on the way of this very message.
THEOREM NothingIsForgottenAlways ==
    ASSUME BatchSize = 1
    PROVE  SystemSpec => []NothingIsForgotten
<1>1. SystemSpec => []DueInv
  BY SystemImplementsSender, DueInvariance
<1>2. SystemInv /\ DueInv /\ AwaitInv /\ [SystemNext]_systemVars => AwaitInv'
  BY NextAwaitInv
<1>3. SystemInv /\ AwaitInv => NothingIsForgotten
  BY AwaitInvSuffices
<1> QED BY <1>1, <1>2, <1>3, InitAwaitInv, SystemInvariance, PTL DEF SystemSpec
=============================================================================
