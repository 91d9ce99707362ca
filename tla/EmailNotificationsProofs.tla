----------------------- MODULE EmailNotificationsProofs ----------------------
(***************************************************************************)
(* Theorems about EmailNotifications, for every set of channels, addresses *)
(* users and invocations, every batch size and timeout, and every bound.   *)
(* They rest on the visibility timeout being the timeout of the lambda:    *)
(* a batch in flight to an invocation that runs stays in flight, so that   *)
(* it is the head of its groups until the invocation returns.              *)
(* EveryMessageMailed, which larger batches break, is proved for batches   *)
(* of one; what leads to it (DueInv) holds for any batch size.             *)
(***************************************************************************)
EXTENDS EmailNotifications, SequenceTheorems, TLAPS

LEMMA InitDeliveryInv == Init => DeliveryInv
<1> SUFFICES ASSUME Init PROVE DeliveryInv
  OBVIOUS
<1> USE DEF Init
<1>1. TypeOK
  BY BoundsAssumption DEF TypeOK, Batch
<1>2. HeldInQueue /\ BatchAtHead /\ WorkFromBatch
  BY DEF HeldInQueue, BatchAtHead, WorkFromBatch
<1>3. MailsFromHead /\ MailsInOrder /\ OnlyVerifiedAreMailed
  BY DEF MailsFromHead, MailsInOrder, OnlyVerifiedAreMailed
<1> QED BY <1>1, <1>2, <1>3 DEF DeliveryInv

-----------------------------------------------------------------------------
(* The failures                                                            *)

FailureTypes ==
    /\ blind \subseteq Worker
    /\ faults \in 0 .. MaxFaults
    /\ harmed \subseteq Message /\ repeated \subseteq Message

\* The failures are counted, and what they concern are messages.
LEMMA FailuresTyped ==
    ASSUME TypeOK, Next PROVE FailureTypes'
<1>1. FailureTypes /\ \A w \in Worker : Batch(w) \subseteq Message
  BY DEF TypeOK, FailureTypes, Batch
<1>2. CASE UNCHANGED <<blind, failures>>
  BY <1>1, <1>2 DEF FailureTypes, failures
<1>3. ASSUME NEW w \in Worker, FindUsers(w) PROVE FailureTypes'
  <2>1. PICK missing : \/ missing = {} /\ UNCHANGED <<faults, harmed>>
                       \/ missing # {} /\ Fault /\ Harm(w, ChannelsOf(w, missing))
    BY <1>3 DEF FindUsers
  <2> QED BY <1>1, <1>3, <2>1, BoundsAssumption DEF FindUsers, Fault, Harm, FailureTypes
<1>4. ASSUME NEW w \in Worker,
             \/ StepFault(w) \/ Recycle(w) \/ ReturnBlind(w)
      PROVE  FailureTypes'
  BY <1>1, <1>4, BoundsAssumption
     DEF StepFault, SettingsFault, ReadFault, Kill, SendFault, Recycle, ReturnBlind,
         Fault, Harm, FailureTypes, failures
<1>5. ASSUME NEW w \in Worker, Delivery(w) \/ Step(w) \/ Expire(w) PROVE FailureTypes'
  BY <1>2, <1>3, <1>4, <1>5
     DEF Delivery, Receive, Step, FindSubscriptions, FindEmails, Finish, SendMail, Expire
<1>6. ASSUME User \/ \E c \in Channel : Enqueue(c) PROVE FailureTypes'
  BY <1>2, <1>6 DEF User, Subscribe, Verify, Around, Join, SubscriptionCatchesUp,
     VerificationCatchesUp, GoOnline, GoOffline, Enqueue
<1> QED BY <1>4, <1>5, <1>6 DEF Next

-----------------------------------------------------------------------------
(* The queue                                                               *)

\* The mails sent stay in order and about the head of their group as long as
\* nothing is mailed and nothing returns to the queue.
LEMMA MailsFrame ==
    ASSUME DeliveryInv, UNCHANGED <<mails, deleted>>, verified \subseteq verified'
    PROVE  MailsFromHead' /\ MailsInOrder' /\ OnlyVerifiedAreMailed'
  BY DEF DeliveryInv, MailsFromHead, MailsInOrder, OnlyVerifiedAreMailed

LEMMA EnqueueDeliveryInv ==
    ASSUME DeliveryInv, NEW c \in Channel, Enqueue(c)
    PROVE  DeliveryInv'
<1>1. /\ enqueued' \in [Channel -> 0 .. MaxMessages]
      /\ \A d \in Channel : enqueued'[d] >= enqueued[d]
  BY BoundsAssumption DEF Enqueue, DeliveryInv, TypeOK
<1>2. due' \in [Message -> SUBSET Email]
  BY DEF Enqueue, Eligible, DeliveryInv, TypeOK
<1>3. TypeOK'
  BY <1>1, <1>2 DEF Enqueue, environment, failures, DeliveryInv, TypeOK
<1>4. HeldInQueue'
  BY <1>1, BoundsAssumption DEF Enqueue, DeliveryInv, TypeOK, HeldInQueue
<1>5. BatchAtHead' /\ WorkFromBatch'
  BY DEF Enqueue, environment, DeliveryInv, BatchAtHead, WorkFromBatch, Running
<1> QED BY <1>3, <1>4, <1>5, MailsFrame DEF Enqueue, environment, DeliveryInv

LEMMA ReceiveDeliveryInv ==
    ASSUME DeliveryInv, NEW w \in Worker, NEW n \in [Channel -> 0 .. BatchSize],
           Receive(w, n)
    PROVE  DeliveryInv'
<1> USE DEF DeliveryInv
<1>1. ASSUME NEW c \in Channel
      PROVE  /\ n[c] \in 0 .. MaxMessages /\ n[c] <= enqueued[c] - deleted[c]
             /\ n[c] > 0 => GroupFree(c) /\ deleted[c] + 1 \in 1 .. MaxMessages
  BY BatchAssumption, BoundsAssumption DEF Receive, TypeOK, HeldInQueue
<1>2. held' \in [Worker -> [Channel -> 0 .. MaxMessages]]
  BY <1>1 DEF Receive, TypeOK
<1>3. first' \in [Worker -> [Channel -> 0 .. MaxMessages]]
  BY <1>1, BoundsAssumption DEF Receive, TypeOK
<1>4. TypeOK'
  BY <1>2, <1>3 DEF Receive, environment, failures, TypeOK
<1>5. HeldInQueue'
  BY <1>1 DEF Receive, TypeOK, HeldInQueue, GroupFree
<1>6. BatchAtHead'
  BY <1>1 DEF Receive, TypeOK, BatchAtHead
<1>7. WorkFromBatch'
  BY DEF Receive, environment, TypeOK, WorkFromBatch, Running
<1> QED BY <1>4, <1>5, <1>6, <1>7, MailsFrame DEF Receive, environment

\* Only a killed invocation loses its messages, and it has no batch any more.
LEMMA ExpireDeliveryInv ==
    ASSUME DeliveryInv, NEW w \in Worker, Expire(w)
    PROVE  DeliveryInv'
<1> USE DEF DeliveryInv
<1>1. pc[w] = "killed" /\ pc' = [pc EXCEPT ![w] = "idle"]
  <2>1. ~(VisibilityTimeout < Timeout)
    BY BatchAssumption DEF VisibilityTimeout
  <2>2. pc[w] = "killed"
    BY <2>1 DEF Expire
  <2>3. ~Running(w)
    BY <2>2 DEF Running
  <2> QED BY <2>2, <2>3 DEF Expire
<1>2. TypeOK'
  BY <1>1, BoundsAssumption DEF Expire, environment, failures, TypeOK
<1>3. HeldInQueue'
  BY DEF Expire, TypeOK, HeldInQueue
<1>4. \A c \in Channel : first[w][c] = 0
  BY <1>1 DEF WorkFromBatch, Running
<1>5. BatchAtHead'
  BY <1>4 DEF Expire, TypeOK, BatchAtHead
<1>6. WorkFromBatch'
  BY <1>1, <1>4 DEF Expire, environment, TypeOK, WorkFromBatch, Running
<1> QED BY <1>2, <1>3, <1>5, <1>6, MailsFrame DEF Expire, environment

\* When an invocation returns, the messages it was delivered leave the heads
\* of their groups; nobody else's batch is in these groups.
LEMMA ReturnDeliveryInv ==
    ASSUME DeliveryInv, NEW w \in Worker, Return(w),
           UNCHANGED <<environment, mails>>, FailureTypes'
    PROVE  DeliveryInv'
<1> USE DEF DeliveryInv
<1>1. ASSUME NEW c \in Channel
      PROVE  /\ deleted'[c] = deleted[c] + held[w][c]
             /\ deleted'[c] \in 0 .. MaxMessages
             /\ deleted[c] <= deleted'[c] /\ deleted'[c] <= enqueued[c]
  BY BoundsAssumption DEF Return, TypeOK, HeldInQueue
<1>2. TypeOK'
  <2>1. deleted' \in [Channel -> 0 .. MaxMessages]
    BY <1>1 DEF Return
  <2>2. due' \in [Message -> SUBSET Email]
    BY DEF Return, TypeOK
  <2> QED BY <2>1, <2>2, BoundsAssumption DEF Return, environment, FailureTypes, TypeOK
<1>3. HeldInQueue'
  BY <1>1 DEF Return, TypeOK, HeldInQueue
<1>4. BatchAtHead'
  BY <1>1 DEF Return, TypeOK, HeldInQueue, BatchAtHead
<1>5. WorkFromBatch'
  BY DEF Return, environment, TypeOK, WorkFromBatch, Running
<1>6. MailsFromHead' /\ MailsInOrder' /\ OnlyVerifiedAreMailed'
  <2>1. ASSUME NEW s \in Channel \X Email, NEW i \in DOMAIN mails[s]
        PROVE  mails[s][i] <= deleted'[s[1]] + 1
    <3>1. s[1] \in Channel /\ deleted[s[1]] \in Int
      BY DEF TypeOK
    <3>2. mails[s][i] \in 1 .. MaxMessages
      <4>1. mails[s] \in Seq(1 .. MaxMessages)
        BY DEF TypeOK
      <4>2. DOMAIN mails[s] = 1 .. Len(mails[s])
        BY <4>1
      <4> QED BY <4>1, <4>2, ElementOfSeq
    <3>3. mails[s][i] <= deleted[s[1]] + 1
      BY DEF MailsFromHead
    <3>4. deleted[s[1]] <= deleted'[s[1]] /\ deleted'[s[1]] \in Int
      BY <1>1, <3>1
    <3> QED BY <3>1, <3>2, <3>3, <3>4, BoundsAssumption
  <2>2. MailsFromHead'
    BY <2>1 DEF MailsFromHead
  <2>3. MailsInOrder' /\ OnlyVerifiedAreMailed'
    BY DEF environment, MailsInOrder, OnlyVerifiedAreMailed
  <2> QED BY <2>2, <2>3
<1> QED BY <1>2, <1>3, <1>4, <1>5, <1>6

-----------------------------------------------------------------------------
(* sendEmailNotifications                                                  *)

\* A step that only narrows down what an invocation has to do.
LEMMA NarrowDeliveryInv ==
    ASSUME DeliveryInv, NEW w \in Worker, Running(w),
           NEW next \in {"users", "emails", "send"},
           NEW rest \in SUBSET Subscription,
           \A s \in rest : first[w][s.channel] # 0,
           next = "send" => \A s \in rest : s.email \in verified,
           pc' = [pc EXCEPT ![w] = next],
           work' = [work EXCEPT ![w] = rest],
           UNCHANGED <<queue, first, environment, mails, due>>,
           FailureTypes'
    PROVE  DeliveryInv'
<1> USE DEF DeliveryInv, queue, environment
<1>1. TypeOK'
  BY DEF FailureTypes, TypeOK
<1>2. HeldInQueue' /\ BatchAtHead'
  BY DEF HeldInQueue, BatchAtHead
<1>3. WorkFromBatch'
  BY DEF TypeOK, WorkFromBatch, Running
<1> QED BY <1>1, <1>2, <1>3, MailsFrame

LEMMA FindDeliveryInv ==
    ASSUME DeliveryInv, NEW w \in Worker,
           FindSubscriptions(w) \/ FindUsers(w) \/ FindEmails(w), FailureTypes'
    PROVE  DeliveryInv'
<1> USE DEF DeliveryInv
<1>0. work[w] \subseteq Subscription
  BY DEF TypeOK
<1>1. CASE FindSubscriptions(w)
  <2>1. PICK rows : work' = [work EXCEPT ![w] =
                      {s \in Subscription : /\ first[w][s.channel] > 0
                                            /\ rows[<<s.channel, s.email>>] = s.identity}]
    BY <1>1 DEF FindSubscriptions
  <2> DEFINE found ==
        {s \in Subscription : /\ first[w][s.channel] > 0
                              /\ rows[<<s.channel, s.email>>] = s.identity}
  <2>2. /\ found \subseteq Subscription /\ work' = [work EXCEPT ![w] = found]
        /\ \A s \in found : first[w][s.channel] # 0
    BY <2>1 DEF TypeOK, Subscription
  <2> HIDE DEF found
  <2>3. /\ Running(w) /\ pc' = [pc EXCEPT ![w] = "users"]
        /\ UNCHANGED <<queue, first, environment, mails, due>>
    BY <1>1 DEF FindSubscriptions, Running
  <2> QED BY <2>2, <2>3, NarrowDeliveryInv
<1>2. CASE FindUsers(w)
  <2>1. PICK missing : work' = [work EXCEPT ![w] =
                         {s \in work[w] : s.identity \in Notifiable \ missing}]
    BY <1>2 DEF FindUsers
  <2> DEFINE rest == {s \in work[w] : s.identity \in Notifiable \ missing}
  <2>2. rest \subseteq work[w] /\ work' = [work EXCEPT ![w] = rest]
    BY <2>1
  <2> HIDE DEF rest
  <2>4. Running(w) /\ pc' = [pc EXCEPT ![w] = "emails"]
    BY <1>2 DEF FindUsers, Running
  <2>5. \A s \in rest : first[w][s.channel] # 0
    BY <2>2 DEF WorkFromBatch
  <2>6. /\ rest \subseteq Subscription
        /\ UNCHANGED <<queue, first, environment, mails, due>>
    BY <1>0, <1>2, <2>2 DEF FindUsers
  <2> QED BY <2>2, <2>4, <2>5, <2>6, NarrowDeliveryInv
<1>3. CASE FindEmails(w)
  <2>0. PICK missed : work' = [work EXCEPT ![w] =
                        {s \in work[w] : s.email \in verified \ missed}]
    BY <1>3 DEF FindEmails
  <2> DEFINE rest == {s \in work[w] : s.email \in verified \ missed}
  <2>1. /\ rest \subseteq work[w] /\ \A s \in rest : s.email \in verified
        /\ work' = [work EXCEPT ![w] = rest]
    BY <2>0
  <2> HIDE DEF rest
  <2>2. Running(w) /\ pc' = [pc EXCEPT ![w] = "send"]
    BY <1>3 DEF FindEmails, Running
  <2>3. \A s \in rest : first[w][s.channel] # 0
    BY <2>1 DEF WorkFromBatch
  <2>4. /\ rest \subseteq Subscription
        /\ UNCHANGED <<queue, first, environment, mails, due>>
    BY <1>0, <1>3, <2>1 DEF FindEmails
  <2> QED BY <2>1, <2>2, <2>3, <2>4, NarrowDeliveryInv
<1> QED BY <1>1, <1>2, <1>3

\* The mail is about the head of the group, which is no older than what was
\* mailed before, and goes to a verified address.
LEMMA MailKeeps ==
    ASSUME DeliveryInv, NEW w \in Worker, NEW s \in work[w], pc[w] = "send",
           Mail(w, s), UNCHANGED <<deleted, verified>>
    PROVE  /\ mails' \in [Channel \X Email -> Seq(1 .. MaxMessages)]
           /\ MailsFromHead' /\ MailsInOrder' /\ OnlyVerifiedAreMailed'
<1> DEFINE t == <<s.channel, s.email>>
           n == first[w][s.channel]
<1>1. /\ s.channel \in Channel /\ s.email \in Email /\ t \in Channel \X Email
      /\ t[1] = s.channel /\ t[2] = s.email
  BY DEF DeliveryInv, TypeOK, Subscription
<1>2. /\ n \in 1 .. MaxMessages /\ n = deleted[s.channel] + 1
      /\ s.email \in verified
  BY <1>1, BoundsAssumption DEF DeliveryInv, TypeOK, BatchAtHead, WorkFromBatch
<1>3. mails' = [mails EXCEPT ![t] = Append(mails[t], n)]
  BY DEF Mail
<1>4. mails \in [Channel \X Email -> Seq(1 .. MaxMessages)]
  BY DEF DeliveryInv, TypeOK
<1> HIDE DEF t, n
<1>5. mails' \in [Channel \X Email -> Seq(1 .. MaxMessages)]
  BY <1>1, <1>2, <1>3, <1>4
<1>6. /\ mails[t] \in Seq(1 .. MaxMessages) /\ mails'[t] = Append(mails[t], n)
      /\ \A u \in Channel \X Email : u # t => mails'[u] = mails[u]
  BY <1>1, <1>3, <1>4
<1>7. /\ Len(mails'[t]) = Len(mails[t]) + 1
      /\ DOMAIN mails[t] = 1 .. Len(mails[t])
      /\ DOMAIN mails'[t] = 1 .. Len(mails[t]) + 1
      /\ mails'[t][Len(mails[t]) + 1] = n
      /\ \A i \in 1 .. Len(mails[t]) : mails'[t][i] = mails[t][i]
      /\ Len(mails[t]) \in Nat
  BY <1>2, <1>6
<1>8. \A i \in DOMAIN mails[t] : mails[t][i] <= n
  BY <1>1, <1>2 DEF DeliveryInv, MailsFromHead
<1>9. MailsFromHead'
  <2> SUFFICES ASSUME NEW u \in Channel \X Email, NEW i \in DOMAIN mails'[u]
               PROVE  mails'[u][i] <= deleted[u[1]] + 1
    BY DEF MailsFromHead
  <2>1. CASE u = t
    <3>1. i \in 1 .. Len(mails[t]) + 1
      BY <1>7, <2>1
    <3>2. CASE i = Len(mails[t]) + 1
      BY <1>1, <1>2, <1>7, <2>1, <3>2
    <3>3. CASE i # Len(mails[t]) + 1
      BY <1>1, <1>2, <1>7, <1>8, <2>1, <3>1, <3>3
    <3> QED BY <3>2, <3>3
  <2>2. CASE u # t
    BY <1>6, <2>2 DEF DeliveryInv, MailsFromHead
  <2> QED BY <2>1, <2>2
<1>10. MailsInOrder'
  <2> SUFFICES ASSUME NEW u \in Channel \X Email,
                      NEW i \in DOMAIN mails'[u], NEW j \in DOMAIN mails'[u],
                      i < j
               PROVE  mails'[u][i] <= mails'[u][j]
    BY DEF MailsInOrder
  <2>1. CASE u = t
    <3>1. CASE j = Len(mails[t]) + 1
      BY <1>2, <1>7, <1>8, <2>1, <3>1
    <3>2. CASE j # Len(mails[t]) + 1
      BY <1>1, <1>7, <2>1, <3>2 DEF DeliveryInv, MailsInOrder
    <3> QED BY <3>1, <3>2
  <2>2. CASE u # t
    BY <1>6, <2>2 DEF DeliveryInv, MailsInOrder
  <2> QED BY <2>1, <2>2
<1>11. OnlyVerifiedAreMailed'
  BY <1>1, <1>2, <1>6 DEF DeliveryInv, OnlyVerifiedAreMailed
<1> QED BY <1>5, <1>9, <1>10, <1>11

LEMMA SendMailDeliveryInv ==
    ASSUME DeliveryInv, NEW w \in Worker, NEW s \in work[w],
           SendMail(w, s) \/ SendFault(w, s), FailureTypes'
    PROVE  DeliveryInv'
<1> USE DEF DeliveryInv
<1>1. /\ pc[w] = "send" /\ work' = [work EXCEPT ![w] = work[w] \ {s}]
      /\ UNCHANGED <<enqueued, deleted, held, pc, first, subscriptions, replaced,
                     verified, unseen, known, online, due>>
      /\ UNCHANGED mails \/ Mail(w, s)
  BY DEF SendMail, SendFault, queue, environment
<1>3. /\ mails' \in [Channel \X Email -> Seq(1 .. MaxMessages)]
      /\ MailsFromHead' /\ MailsInOrder' /\ OnlyVerifiedAreMailed'
  <2>1. CASE UNCHANGED mails
    BY <1>1, <2>1, MailsFrame DEF TypeOK
  <2>2. CASE Mail(w, s)
    BY <1>1, <2>2, MailKeeps
  <2> QED BY <1>1, <2>1, <2>2
<1>4. TypeOK'
  BY <1>1, <1>3 DEF FailureTypes, TypeOK
<1>5. HeldInQueue' /\ BatchAtHead'
  BY <1>1 DEF HeldInQueue, BatchAtHead
<1>6. WorkFromBatch'
  BY <1>1 DEF TypeOK, WorkFromBatch, Running
<1> QED BY <1>3, <1>4, <1>5, <1>6

\* All the ways to return from an invocation.
Returns(w) == Finish(w) \/ ReadFault(w) \/ SettingsFault(w) \/ ReturnBlind(w)

LEMMA EndDeliveryInv ==
    ASSUME DeliveryInv, NEW w \in Worker, Returns(w), FailureTypes'
    PROVE  DeliveryInv'
  BY ReturnDeliveryInv
     DEF Returns, Finish, ReadFault, SettingsFault, ReturnBlind, environment

LEMMA KillDeliveryInv ==
    ASSUME DeliveryInv, NEW w \in Worker, Kill(w), FailureTypes'
    PROVE  DeliveryInv'
<1> USE DEF DeliveryInv, Kill, queue, environment
<1>2. first' \in [Worker -> [Channel -> 0 .. MaxMessages]]
  BY BoundsAssumption DEF TypeOK
<1>3. TypeOK'
  BY <1>2 DEF FailureTypes, TypeOK
<1>4. HeldInQueue'
  BY DEF HeldInQueue
<1>5. BatchAtHead'
  BY DEF TypeOK, BatchAtHead
<1>6. WorkFromBatch'
  BY DEF TypeOK, WorkFromBatch, Running
<1> QED BY <1>3, <1>4, <1>5, <1>6, MailsFrame

-----------------------------------------------------------------------------
(* The users                                                               *)

\* What the users do concerns the invocations through their reads only.
LEMMA UserDeliveryInv ==
    ASSUME DeliveryInv, User
    PROVE  DeliveryInv'
<1> USE DEF DeliveryInv
<1>1. /\ UNCHANGED <<enqueued, deleted, held, pc, first, work, blind, mails, failures>>
      /\ verified \subseteq verified'
  BY DEF User, Subscribe, Verify, Around, Join, SubscriptionCatchesUp,
     VerificationCatchesUp, GoOnline, GoOffline, queue
<1>2. TypeOK'
  <2>1. /\ subscriptions' \in [Channel \X Email -> Identity \cup {None}]
        /\ replaced' \in [Channel \X Email -> SUBSET (Identity \cup {None})]
    <3>1. CASE \E c \in Channel, e \in Email, i \in Identity : Subscribe(c, e, i)
      BY <3>1 DEF Subscribe, TypeOK
    <3>2. CASE \E c \in Channel, e \in Email : SubscriptionCatchesUp(c, e)
      BY <3>2 DEF SubscriptionCatchesUp, TypeOK
    <3>3. CASE UNCHANGED <<subscriptions, replaced>>
      BY <3>3 DEF TypeOK
    <3> QED BY <3>1, <3>2, <3>3 DEF User, Verify, Around, Join, VerificationCatchesUp,
       GoOnline, GoOffline
  <2>2. /\ unseen' \subseteq verified' /\ verified' \subseteq Email
        /\ online' \subseteq known' /\ known' \subseteq Identity
    BY DEF User, Subscribe, Verify, Around, Join, SubscriptionCatchesUp,
       VerificationCatchesUp, GoOnline, GoOffline, TypeOK
  <2>3. due' \in [Message -> SUBSET Email]
    <3>1. due \in [Message -> SUBSET Email]
      BY DEF TypeOK
    <3>2. CASE \E c \in Channel, e \in Email, i \in Identity : Subscribe(c, e, i)
      BY <3>1, <3>2 DEF Subscribe
    <3>3. CASE StillDue
      <4>1. \A m \in Message : due[m] \cap Eligible(m[1])' \in SUBSET Email
        BY <3>1
      <4> QED BY <3>3, <4>1 DEF StillDue
    <3>4. CASE UNCHANGED due
      BY <3>1, <3>4
    <3> QED BY <3>2, <3>3, <3>4 DEF User, Verify, Around, Join, SubscriptionCatchesUp,
       VerificationCatchesUp, GoOnline, GoOffline
  <2> QED BY <1>1, <2>1, <2>2, <2>3 DEF failures, TypeOK
<1>3. HeldInQueue' /\ BatchAtHead'
  BY <1>1 DEF HeldInQueue, BatchAtHead
<1>4. WorkFromBatch'
  BY <1>1 DEF WorkFromBatch, Running
<1> QED BY <1>1, <1>2, <1>3, <1>4, MailsFrame

-----------------------------------------------------------------------------
LEMMA NextDeliveryInv == DeliveryInv /\ [Next]_vars => DeliveryInv'
<1> SUFFICES ASSUME DeliveryInv, [Next]_vars PROVE DeliveryInv'
  OBVIOUS
<1>1. CASE UNCHANGED vars
  BY <1>1, MailsFrame
     DEF vars, queue, environment, failures, DeliveryInv, TypeOK, HeldInQueue,
         BatchAtHead, WorkFromBatch, Running
<1>2. CASE Next
  <2>1. FailureTypes'
    BY <1>2, FailuresTyped DEF DeliveryInv
  <2>2. ASSUME NEW c \in Channel, Enqueue(c) PROVE DeliveryInv'
    BY <2>2, EnqueueDeliveryInv
  <2>3. ASSUME NEW w \in Worker, Delivery(w) PROVE DeliveryInv'
    BY <2>3, ReceiveDeliveryInv DEF Delivery
  <2>4. ASSUME NEW w \in Worker, Step(w) PROVE DeliveryInv'
    BY <2>1, <2>4, FindDeliveryInv, SendMailDeliveryInv, EndDeliveryInv DEF Step, Returns
  <2>5. ASSUME NEW w \in Worker, StepFault(w) PROVE DeliveryInv'
    BY <2>1, <2>5, SendMailDeliveryInv, EndDeliveryInv, KillDeliveryInv
       DEF StepFault, Returns
  <2>6. ASSUME NEW w \in Worker, Expire(w) PROVE DeliveryInv'
    BY <2>6, ExpireDeliveryInv
  <2>7. ASSUME NEW w \in Worker, Recycle(w) PROVE DeliveryInv'
    BY <2>1, <2>7, MailsFrame
       DEF Recycle, queue, environment, FailureTypes, failures, DeliveryInv, TypeOK,
           HeldInQueue, BatchAtHead, WorkFromBatch, Running
  <2> QED BY <1>2, <2>2, <2>3, <2>4, <2>5, <2>6, <2>7, UserDeliveryInv DEF Next
<1> QED BY <1>1, <1>2

-----------------------------------------------------------------------------
(* Mailed once                                                             *)

\* A step that mails nothing, and after which the invocations that have served
\* a subscription to a head still have.
LEMMA OnceFrame ==
    ASSUME IInv, UNCHANGED <<deleted, mails>>, repeated \subseteq repeated',
           \A w \in Worker : \A s, t \in work'[w] :
             s.channel = t.channel /\ s.email = t.email => s = t,
           \A w \in Worker, c \in Channel, e \in Email :
             first[w][c] # 0 /\ pc[w] = "send" /\ ~Pending(w, c, e) =>
               (first[w][c] # 0 /\ pc[w] = "send" /\ ~Pending(w, c, e))'
    PROVE  HeadMailedOnce' /\ MailedOnce'
<1>1. MailedOnce'
  BY DEF IInv, MailedOnce
<1>2. HeadMailedOnce'
  BY DEF IInv, HeadMailedOnce, Mailed
<1> QED BY <1>1, <1>2

LEMMA QueueOnce ==
    ASSUME IInv, NEW w \in Worker,
           \/ \E c \in Channel : Enqueue(c)
           \/ Delivery(w) \/ Expire(w) \/ Recycle(w) \/ User
    PROVE  HeadMailedOnce' /\ MailedOnce'
<1>1. UNCHANGED <<deleted, mails, work, repeated>>
  BY DEF Enqueue, Delivery, Receive, Expire, Recycle, User, Subscribe, Verify, Around,
     Join, SubscriptionCatchesUp, VerificationCatchesUp, GoOnline, GoOffline, failures,
     queue
<1>2. \A v \in Worker, c \in Channel :
        first[v][c] # 0 /\ pc[v] = "send" => first'[v][c] # 0 /\ pc'[v] = "send"
  <2>1. CASE UNCHANGED <<first, pc>>
    BY <2>1
  <2>2. CASE Delivery(w)
    BY <2>2 DEF Delivery, Receive, IInv, DeliveryInv, TypeOK
  <2>3. CASE Expire(w)
    BY <2>3 DEF Expire, Running, IInv, DeliveryInv, TypeOK
  <2> QED BY <2>1, <2>2, <2>3
          DEF Enqueue, Recycle, User, Subscribe, Verify, Around, Join,
              SubscriptionCatchesUp, VerificationCatchesUp, GoOnline, GoOffline
<1> QED BY <1>1, <1>2, OnceFrame DEF IInv, HeadMailedOnce, Pending

LEMMA FindOnce ==
    ASSUME IInv, NEW w \in Worker,
           FindSubscriptions(w) \/ FindUsers(w) \/ FindEmails(w)
    PROVE  HeadMailedOnce' /\ MailedOnce'
<1>1. /\ UNCHANGED <<deleted, mails, first, repeated>>
      /\ pc[w] # "send" /\ \A v \in Worker \ {w} : pc'[v] = pc[v] /\ work'[v] = work[v]
  BY DEF FindSubscriptions, FindUsers, FindEmails, queue, failures, IInv, DeliveryInv, TypeOK
<1>2. \A s, t \in work'[w] : s.channel = t.channel /\ s.email = t.email => s = t
  <2>1. CASE FindSubscriptions(w)
    <3>1. PICK rows : \A s \in work'[w] :
            s \in Subscription /\ s.identity = rows[<<s.channel, s.email>>]
      BY <2>1 DEF FindSubscriptions, IInv, DeliveryInv, TypeOK
    <3>2. \A s \in Subscription :
            s = [channel |-> s.channel, email |-> s.email, identity |-> s.identity]
      BY DEF Subscription
    <3>3. ASSUME NEW s \in work'[w], NEW t \in work'[w],
                 s.channel = t.channel, s.email = t.email
          PROVE  s = t
      <4>1. s.identity = t.identity
        BY <3>1, <3>3
      <4> QED BY <3>1, <3>2, <3>3, <4>1
    <3> QED BY <3>3
  <2>2. CASE FindUsers(w) \/ FindEmails(w)
    <3>1. work'[w] \subseteq work[w]
      BY <2>2 DEF FindUsers, FindEmails, IInv, DeliveryInv, TypeOK
    <3> QED BY <3>1 DEF IInv, HeadMailedOnce
  <2> QED BY <2>1, <2>2
<1> QED BY <1>1, <1>2, OnceFrame DEF IInv, HeadMailedOnce, Pending

\* A killed invocation gives the messages back that it has mailed about.
LEMMA KillOnce ==
    ASSUME IInv, NEW w \in Worker, Kill(w)
    PROVE  HeadMailedOnce' /\ MailedOnce'
<1>1. /\ UNCHANGED <<deleted, mails>> /\ repeated' = repeated \cup Batch(w)
      /\ work'[w] = {}
      /\ \A v \in Worker \ {w} : /\ pc'[v] = pc[v] /\ work'[v] = work[v]
                                 /\ first'[v] = first[v]
  BY DEF Kill, queue, IInv, DeliveryInv, TypeOK
<1>2. MailedOnce'
  BY <1>1 DEF IInv, MailedOnce
<1>3. ASSUME NEW c \in Channel, first[w][c] # 0
      PROVE  <<c, deleted[c] + 1>> \in repeated'
  <2>1. /\ held[w][c] > 0 /\ held[w][c] <= enqueued[c] - deleted[c]
        /\ held[w][c] \in Nat /\ deleted[c] \in Nat /\ enqueued[c] \in 0 .. MaxMessages
    BY <1>3 DEF IInv, DeliveryInv, TypeOK, HeldInQueue, BatchAtHead
  <2>2. <<c, deleted[c] + 1>> \in Batch(w)
    BY <2>1, BoundsAssumption DEF Batch, Message
  <2> QED BY <1>1, <2>2
<1>4. HeadMailedOnce'
  <2>1. ASSUME NEW v \in Worker, NEW s \in work'[v], NEW t \in work'[v],
               s.channel = t.channel, s.email = t.email
        PROVE  s = t
    BY <1>1, <2>1 DEF IInv, HeadMailedOnce
  <2>2. ASSUME NEW c \in Channel, NEW e \in Email, Mailed(c, e, deleted[c] + 1),
               <<c, deleted[c] + 1>> \notin repeated'
        PROVE  \E v \in Worker : (first[v][c] # 0 /\ pc[v] = "send" /\ ~Pending(v, c, e))'
    <3>1. PICK v \in Worker : first[v][c] # 0 /\ pc[v] = "send" /\ ~Pending(v, c, e)
      BY <1>1, <2>2 DEF IInv, HeadMailedOnce
    <3>2. v # w
      BY <1>3, <2>2, <3>1
    <3> QED BY <1>1, <3>1, <3>2 DEF Pending
  <2> QED BY <1>1, <2>1, <2>2 DEF HeadMailedOnce, Mailed
<1> QED BY <1>2, <1>4

\* What is at the head of a group after an invocation has returned was mailed
\* to nobody yet, or is not the business of this invocation.
LEMMA ReturnOnce ==
    ASSUME IInv, NEW w \in Worker, Return(w), UNCHANGED <<mails, repeated>>
    PROVE  HeadMailedOnce' /\ MailedOnce'
<1>1. /\ work'[w] = {}
      /\ \A v \in Worker \ {w} : /\ pc'[v] = pc[v] /\ work'[v] = work[v]
                                 /\ first'[v] = first[v]
  BY DEF Return, IInv, DeliveryInv, TypeOK
<1>2. MailedOnce'
  BY DEF IInv, MailedOnce
<1>3. ASSUME NEW c \in Channel, NEW e \in Email, Mailed(c, e, deleted'[c] + 1),
             <<c, deleted'[c] + 1>> \notin repeated
      PROVE  \E v \in Worker : (first[v][c] # 0 /\ pc[v] = "send" /\ ~Pending(v, c, e))'
  <2>1. deleted'[c] = deleted[c] + held[w][c] /\ deleted[c] \in Nat /\ held[w][c] \in Nat
    BY DEF Return, IInv, DeliveryInv, TypeOK
  <2>2. deleted'[c] + 1 <= deleted[c] + 1
    <3>1. PICK i \in DOMAIN mails[<<c, e>>] : mails[<<c, e>>][i] = deleted'[c] + 1
      BY <1>3 DEF Mailed
    <3>2. mails[<<c, e>>][i] <= deleted[<<c, e>>[1]] + 1
      BY DEF IInv, DeliveryInv, MailsFromHead
    <3> QED BY <3>1, <3>2
  <2>3. held[w][c] = 0 /\ deleted'[c] = deleted[c]
    BY <2>1, <2>2
  <2>4. PICK v \in Worker : first[v][c] # 0 /\ pc[v] = "send" /\ ~Pending(v, c, e)
    BY <1>3, <2>3 DEF IInv, HeadMailedOnce
  <2>5. v # w
    BY <2>3, <2>4 DEF IInv, DeliveryInv, BatchAtHead
  <2> QED BY <1>1, <2>4, <2>5 DEF Pending
<1>4. ASSUME NEW v \in Worker, NEW s \in work'[v], NEW t \in work'[v],
             s.channel = t.channel, s.email = t.email
      PROVE  s = t
  BY <1>1, <1>4 DEF IInv, HeadMailedOnce
<1> QED BY <1>2, <1>3, <1>4 DEF HeadMailedOnce, Mailed

\* A subscription that is served was not served before by this invocation, and
\* by an earlier one only if that was killed.
LEMMA SendOnce ==
    ASSUME IInv, NEW w \in Worker, NEW s \in work[w],
           SendMail(w, s) \/ SendFault(w, s)
    PROVE  HeadMailedOnce' /\ MailedOnce'
<1> DEFINE c == s.channel
           e == s.email
<1>1. /\ c \in Channel /\ e \in Email /\ pc[w] = "send"
      /\ work' = [work EXCEPT ![w] = work[w] \ {s}]
      /\ UNCHANGED <<deleted, pc, first, repeated>>
      /\ UNCHANGED mails \/ Mail(w, s)
  BY DEF SendMail, SendFault, queue, failures, IInv, DeliveryInv, TypeOK, Subscription
<1>2. /\ \A v \in Worker : work'[v] \subseteq work[v]
      /\ ~Pending(w, c, e)'
  BY <1>1 DEF IInv, DeliveryInv, TypeOK, HeadMailedOnce, Pending
<1>3. \A v \in Worker : \A t, u \in work'[v] :
        t.channel = u.channel /\ t.email = u.email => t = u
  BY <1>2 DEF IInv, HeadMailedOnce
<1>4. \A v \in Worker, d \in Channel, a \in Email :
        first[v][d] # 0 /\ pc[v] = "send" /\ ~Pending(v, d, a) =>
          (first[v][d] # 0 /\ pc[v] = "send" /\ ~Pending(v, d, a))'
  BY <1>1, <1>2 DEF Pending
<1>5. CASE UNCHANGED mails
  BY <1>1, <1>3, <1>4, <1>5, OnceFrame
<1>6. CASE Mail(w, s)
  <2>1. /\ first[w][c] # 0 /\ first[w][c] = deleted[c] + 1
        /\ deleted[c] + 1 \in 1 .. MaxMessages
    BY <1>1, BoundsAssumption DEF IInv, DeliveryInv, TypeOK, WorkFromBatch, BatchAtHead
  <2>2. Mailed(c, e, deleted[c] + 1) => <<c, deleted[c] + 1>> \in repeated
    <3> SUFFICES ASSUME Mailed(c, e, deleted[c] + 1), <<c, deleted[c] + 1>> \notin repeated
                 PROVE  FALSE
      OBVIOUS
    <3>1. PICK v \in Worker : first[v][c] # 0 /\ pc[v] = "send" /\ ~Pending(v, c, e)
      BY <1>1 DEF IInv, HeadMailedOnce
    <3>2. v = w
      BY <1>1, <2>1, <3>1 DEF IInv, DeliveryInv, BatchAtHead, HeldInQueue
    <3> QED BY <3>1, <3>2 DEF Pending
  <2>3. /\ mails[<<c, e>>] \in Seq(1 .. MaxMessages)
        /\ mails'[<<c, e>>] = Append(mails[<<c, e>>], deleted[c] + 1)
        /\ \A u \in Channel \X Email : u # <<c, e>> => mails'[u] = mails[u]
    BY <1>1, <1>6, <2>1 DEF Mail, IInv, DeliveryInv, TypeOK
  <2> HIDE DEF c, e
  <2>4. /\ DOMAIN mails[<<c, e>>] = 1 .. Len(mails[<<c, e>>])
        /\ DOMAIN mails'[<<c, e>>] = 1 .. Len(mails[<<c, e>>]) + 1
        /\ mails'[<<c, e>>][Len(mails[<<c, e>>]) + 1] = deleted[c] + 1
        /\ \A i \in 1 .. Len(mails[<<c, e>>]) : mails'[<<c, e>>][i] = mails[<<c, e>>][i]
        /\ Len(mails[<<c, e>>]) \in Nat
    BY <2>1, <2>3
  <2>5. MailedOnce'
    <3> SUFFICES ASSUME NEW u \in Channel \X Email,
                        NEW i \in DOMAIN mails'[u], NEW j \in DOMAIN mails'[u],
                        mails'[u][i] = mails'[u][j], i # j
                 PROVE  <<u[1], mails'[u][i]>> \in repeated'
      BY DEF MailedOnce
    <3>1. CASE u # <<c, e>>
      BY <1>1, <2>3, <3>1 DEF IInv, MailedOnce
    <3>2. CASE u = <<c, e>>
      <4>1. CASE i # Len(mails[<<c, e>>]) + 1 /\ j # Len(mails[<<c, e>>]) + 1
        <5>1. i \in DOMAIN mails[u] /\ j \in DOMAIN mails[u]
          BY <2>4, <3>2, <4>1
        <5>2. mails[u][i] = mails[u][j] /\ mails'[u][i] = mails[u][i]
          BY <2>4, <3>2, <5>1
        <5> QED BY <1>1, <5>1, <5>2 DEF IInv, MailedOnce
      <4>2. CASE i = Len(mails[<<c, e>>]) + 1 \/ j = Len(mails[<<c, e>>]) + 1
        <5>1. mails'[u][i] = deleted[c] + 1 /\ mails'[u][j] = deleted[c] + 1
          BY <2>4, <3>2, <4>2
        <5>2. Mailed(c, e, deleted[c] + 1)
          <6>1. CASE i # Len(mails[<<c, e>>]) + 1
            <7>1. i \in DOMAIN mails[<<c, e>>]
              BY <2>4, <3>2, <6>1
            <7> QED BY <2>4, <3>2, <5>1, <7>1 DEF Mailed
          <6>2. CASE j # Len(mails[<<c, e>>]) + 1
            <7>1. j \in DOMAIN mails[<<c, e>>]
              BY <2>4, <3>2, <6>2
            <7> QED BY <2>4, <3>2, <5>1, <7>1 DEF Mailed
          <6> QED BY <6>1, <6>2
        <5> QED BY <1>1, <2>2, <3>2, <5>1, <5>2
      <4> QED BY <4>1, <4>2
    <3> QED BY <3>1, <3>2
  <2>6. ASSUME NEW d \in Channel, NEW a \in Email, Mailed(d, a, deleted[d] + 1)',
               <<d, deleted[d] + 1>> \notin repeated
        PROVE  \E v \in Worker : (first[v][d] # 0 /\ pc[v] = "send" /\ ~Pending(v, d, a))'
    <3>1. CASE d = c /\ a = e
      BY <1>1, <1>2, <2>1, <3>1 DEF c, e
    <3>2. CASE ~(d = c /\ a = e)
      <4>1. mails'[<<d, a>>] = mails[<<d, a>>]
        BY <2>3, <3>2
      <4>2. PICK v \in Worker : first[v][d] # 0 /\ pc[v] = "send" /\ ~Pending(v, d, a)
        BY <1>1, <2>6, <4>1 DEF Mailed, IInv, HeadMailedOnce
      <4> QED BY <1>4, <4>2
    <3> QED BY <3>1, <3>2
  <2> QED BY <1>1, <1>3, <2>5, <2>6 DEF HeadMailedOnce
<1> QED BY <1>1, <1>5, <1>6

-----------------------------------------------------------------------------
(* The theorems                                                            *)

LEMMA NextIInv == IInv /\ [Next]_vars => IInv'
<1> SUFFICES ASSUME IInv, [Next]_vars PROVE IInv'
  OBVIOUS
<1>0. DeliveryInv'
  BY NextDeliveryInv DEF IInv
<1>1. CASE UNCHANGED vars
  BY <1>0, <1>1
     DEF vars, queue, failures, IInv, HeadMailedOnce, MailedOnce, Mailed, Pending
<1>2. CASE Next
  <2>1. ASSUME User \/ \E c \in Channel : Enqueue(c) PROVE HeadMailedOnce' /\ MailedOnce'
    <3>1. CASE Worker = {}
      <4>1. UNCHANGED <<deleted, mails>> /\ repeated' = repeated
        BY <2>1 DEF User, Subscribe, Verify, Around, Join, SubscriptionCatchesUp,
           VerificationCatchesUp, GoOnline, GoOffline, Enqueue, queue, failures
      <4> QED BY <3>1, <4>1, OnceFrame
    <3> QED BY <2>1, <3>1, QueueOnce
  <2>2. ASSUME NEW w \in Worker, Delivery(w) \/ Expire(w) \/ Recycle(w)
        PROVE  HeadMailedOnce' /\ MailedOnce'
    BY <2>2, QueueOnce
  <2>3. ASSUME NEW w \in Worker, Returns(w) PROVE HeadMailedOnce' /\ MailedOnce'
    BY <2>3, ReturnOnce DEF Returns, Finish, ReadFault, SettingsFault, ReturnBlind, failures
  <2>4. ASSUME NEW w \in Worker, Step(w) \/ StepFault(w)
        PROVE  HeadMailedOnce' /\ MailedOnce'
    BY <2>3, <2>4, FindOnce, SendOnce, KillOnce DEF Step, StepFault, Returns
  <2> QED BY <1>0, <1>2, <2>1, <2>2, <2>4 DEF IInv, Next
<1> QED BY <1>1, <1>2

LEMMA InitIInv == Init => IInv
<1> SUFFICES ASSUME Init PROVE IInv
  OBVIOUS
<1>1. HeadMailedOnce /\ MailedOnce
  BY DEF Init, HeadMailedOnce, MailedOnce, Mailed
<1> QED BY <1>1, InitDeliveryInv DEF IInv

\* The inductive invariant holds in every reachable state.
THEOREM Invariance == Spec => []IInv
  BY InitIInv, NextIInv, PTL DEF Spec

\* The queue, the invocations and the tables are well typed.
THEOREM TypeCorrectness == Spec => []TypeOK
<1>1. IInv => TypeOK
  BY DEF IInv, DeliveryInv
<1> QED BY <1>1, Invariance, PTL

\* Two invocations never work on messages of the same channel.
THEOREM GroupExclusiveHolds == Spec => []GroupExclusive
<1>1. IInv => GroupExclusive
  <2> SUFFICES ASSUME IInv, NEW v \in Worker, NEW w \in Worker, v # w,
                      NEW c \in Channel, first[v][c] # 0, first[w][c] # 0
               PROVE  FALSE
    BY DEF GroupExclusive
  <2>1. held[v][c] > 0 /\ held[w][c] > 0
    BY DEF IInv, DeliveryInv, BatchAtHead
  <2> QED BY <2>1 DEF IInv, DeliveryInv, HeldInQueue
<1> QED BY <1>1, Invariance, PTL

\* The mails of a channel reach a subscriber in the order of its messages.
THEOREM MailsInOrderAlways == Spec => []MailsInOrder
<1>1. IInv => MailsInOrder
  BY DEF IInv, DeliveryInv
<1> QED BY <1>1, Invariance, PTL

\* A message is mailed twice to a subscriber only if its invocation was killed.
THEOREM MailedOnceAlways == Spec => []MailedOnce
<1>1. IInv => MailedOnce
  BY DEF IInv
<1> QED BY <1>1, Invariance, PTL

\* Only verified addresses are mailed.
THEOREM OnlyVerifiedAreMailedAlways == Spec => []OnlyVerifiedAreMailed
<1>1. IInv => OnlyVerifiedAreMailed
  BY DEF IInv, DeliveryInv
<1> QED BY <1>1, Invariance, PTL

-----------------------------------------------------------------------------
(* Who is due is mailed                                                    *)

\* A batch is at the head of its group, as in BatchAtHead, and is a message.
LEMMA FirstIsMessage ==
    ASSUME DeliveryInv, NEW w \in Worker, NEW c \in Channel, first[w][c] # 0
    PROVE  /\ first[w][c] = deleted[c] + 1 /\ first[w][c] <= enqueued[c]
           /\ <<c, first[w][c]>> \in Message /\ <<c, first[w][c]>> \in Batch(w)
<1>1. /\ held[w][c] > 0 /\ held[w][c] <= enqueued[c] - deleted[c]
      /\ first[w][c] = deleted[c] + 1
      /\ held[w][c] \in Nat /\ deleted[c] \in Nat /\ enqueued[c] \in 0 .. MaxMessages
  BY DEF DeliveryInv, TypeOK, HeldInQueue, BatchAtHead
<1> QED BY <1>1, BoundsAssumption DEF Batch, Message

\* Nothing changes for those who stay due if neither their subscriptions nor the
\* invocations of the messages they are due for change.
LEMMA DueFrame ==
    ASSUME DeliveryInv, DueInv, DueAreEligible', BatchSizes',
           UNCHANGED <<subscriptions, mails>>, harmed \subseteq harmed',
           \A m \in Message : m[2] <= enqueued[m[1]] => due'[m] \subseteq due[m],
           \A w \in Worker, c \in Channel : first'[w][c] # 0 =>
             \/ pc'[w] = "subscriptions"
             \/ first'[w] = first[w] /\ pc'[w] = pc[w] /\ work'[w] = work[w]
    PROVE  DueInv'
<1>1. ASSUME NEW w \in Worker, NEW c \in Channel, first'[w][c] # 0,
             NEW e \in due'[<<c, first'[w][c]>>]
      PROVE  <<c, first'[w][c]>> \in harmed' \/ Served(w, c, e)'
  <2>1. CASE pc'[w] = "subscriptions"
    BY <2>1 DEF Served
  <2>2. CASE first'[w] = first[w] /\ pc'[w] = pc[w] /\ work'[w] = work[w]
    <3>1. <<c, first[w][c]>> \in Message /\ first[w][c] <= enqueued[c]
      BY <1>1, <2>2, FirstIsMessage
    <3>2. e \in due[<<c, first[w][c]>>]
      BY <1>1, <2>2, <3>1
    <3>3. <<c, first[w][c]>> \in harmed \/ Served(w, c, e)
      BY <1>1, <2>2, <3>2 DEF DueInv, DueAreServed
    <3> QED BY <2>2, <3>3 DEF Served, Pending, Mailed
  <2> QED BY <1>1, <2>1, <2>2
<1> QED BY <1>1 DEF DueInv, DueAreServed

\* A step of the queue or the end of an invocation.
LEMMA QueueDue ==
    ASSUME DeliveryInv, DueInv, NEW w \in Worker,
           \/ \E c \in Channel : Enqueue(c)
           \/ Delivery(w) \/ Expire(w) \/ Recycle(w) \/ Returns(w) \/ Kill(w)
    PROVE  DueInv'
<1>1. UNCHANGED <<environment, mails>> /\ harmed \subseteq harmed'
  BY DEF Enqueue, Delivery, Receive, Expire, Recycle, Returns, Finish, ReadFault,
         SettingsFault, ReturnBlind, Kill, Harm, failures
<1>2. \A c \in Channel : Eligible(c)' = Eligible(c)
  BY <1>1 DEF Eligible, CaughtUp, Notifiable, environment
<1>3. \A m \in Message :
        /\ due'[m] \subseteq due[m] \cup Eligible(m[1])
        /\ m[2] <= enqueued[m[1]] => due'[m] \subseteq due[m]
  <2>1. CASE \E c \in Channel : Enqueue(c)
    BY <2>1 DEF Enqueue, DeliveryInv, TypeOK, Message
  <2>2. CASE UNCHANGED due
    BY <2>2
  <2>3. CASE Return(w)
    BY <2>3 DEF Return
  <2> QED BY <2>1, <2>2, <2>3
          DEF Delivery, Receive, Expire, Recycle, Returns, Finish, ReadFault,
              SettingsFault, ReturnBlind, Kill
<1>4. DueAreEligible'
  BY <1>2, <1>3 DEF DueInv, DueAreEligible, Message
<1>5. ASSUME NEW v \in Worker, NEW c \in Channel
      PROVE  /\ held'[v][c] <= BatchSize
             /\ Running(v)' /\ held'[v][c] > 0 => first'[v][c] # 0
             /\ first'[v][c] # 0 =>
                  \/ pc'[v] = "subscriptions"
                  \/ first'[v] = first[v] /\ pc'[v] = pc[v] /\ work'[v] = work[v]
  <2> USE DEF Running, DueInv, BatchSizes, DeliveryInv, TypeOK
  <2>1. CASE UNCHANGED <<held, first, pc, work>>
    BY <2>1
  <2>2. CASE Delivery(w)
    <3>1. PICK n \in [Channel -> 0 .. BatchSize] : Receive(w, n)
      BY <2>2 DEF Delivery
    <3>2. deleted[c] + 1 # 0
      OBVIOUS
    <3> QED BY <3>1, <3>2, BatchAssumption DEF Receive
  <2>3. CASE Expire(w)
    <3>1. ~(VisibilityTimeout < Timeout)
      BY BatchAssumption DEF VisibilityTimeout
    <3>2. pc[w] = "killed" /\ pc' = [pc EXCEPT ![w] = "idle"]
      BY <2>3, <3>1 DEF Expire
    <3>3. first[w][c] = 0 /\ UNCHANGED <<first, work>>
      BY <2>3, <3>2 DEF Expire, WorkFromBatch
    <3>4. held' = [held EXCEPT ![w] = [d \in Channel |-> 0]]
      BY <2>3 DEF Expire
    <3> QED BY <3>2, <3>3, <3>4, BatchAssumption
  <2>4. CASE Return(w)
    BY <2>4, BatchAssumption DEF Return
  <2>5. CASE Kill(w)
    BY <2>5 DEF Kill, queue
  <2> QED BY <2>1, <2>2, <2>3, <2>4, <2>5
          DEF Enqueue, Recycle, queue, Returns, Finish, ReadFault, SettingsFault, ReturnBlind
<1> QED BY <1>1, <1>3, <1>4, <1>5, DueFrame DEF BatchSizes, environment

\* A stage of the handler keeps whoever is due, unless a call fails.
LEMMA FindDue ==
    ASSUME DeliveryInv, DueInv, NEW w \in Worker,
           FindSubscriptions(w) \/ FindUsers(w) \/ FindEmails(w)
    PROVE  DueInv'
<1>1. /\ UNCHANGED <<held, first, environment, mails, due>> /\ harmed \subseteq harmed'
      /\ Running(w) /\ Running(w)'
      /\ \A v \in Worker \ {w} : pc'[v] = pc[v] /\ work'[v] = work[v]
  BY DEF FindSubscriptions, FindUsers, FindEmails, Harm, queue, failures, Running,
         DeliveryInv, TypeOK
<1>2. DueAreEligible'
  BY <1>1 DEF DueInv, DueAreEligible, Eligible, CaughtUp, Notifiable, environment
<1>3. BatchSizes'
  BY <1>1 DEF DueInv, BatchSizes, Running
<1>4. ASSUME NEW v \in Worker, NEW c \in Channel, first[v][c] # 0,
             NEW e \in due[<<c, first[v][c]>>]
      PROVE  <<c, first[v][c]>> \in harmed' \/ Served(v, c, e)'
  <2>1. <<c, first[v][c]>> \in harmed \/ Served(v, c, e)
    BY <1>4 DEF DueInv, DueAreServed
  <2>2. CASE v # w
    BY <1>1, <2>1, <2>2 DEF Served, Pending, Mailed, environment
  <2>3. CASE v = w
    <3> DEFINE i == subscriptions[<<c, e>>]
    <3>1. /\ <<c, first[w][c]>> \in Message /\ <<c, first[w][c]>> \in Batch(w)
          /\ first[w][c] > 0
      BY <1>4, <2>3, FirstIsMessage DEF DeliveryInv, TypeOK
    <3>2. /\ CaughtUp(c, e) /\ i \in Notifiable
          /\ e \in Email /\ i \in Identity /\ <<c, e>> \in Channel \X Email
      <4>1. e \in Eligible(<<c, first[w][c]>>[1])
        BY <1>4, <2>3, <3>1 DEF DueInv, DueAreEligible
      <4> QED BY <4>1 DEF Eligible, Notifiable, DeliveryInv, TypeOK
    <3>3. CASE FindSubscriptions(w)
      <4>1. pc'[w] = "users"
        BY <3>3 DEF FindSubscriptions, DeliveryInv, TypeOK
      <4>2. PICK rows \in [Channel \X Email -> Identity \cup {None}] :
              /\ \A t \in Channel \X Email : rows[t] \in {subscriptions[t]} \cup replaced[t]
              /\ work' = [work EXCEPT ![w] =
                   {s \in Subscription : /\ first[w][s.channel] > 0
                                         /\ rows[<<s.channel, s.email>>] = s.identity}]
        BY <3>3, Zenon DEF FindSubscriptions
      <4>3. rows[<<c, e>>] = i
        BY <3>2, <4>2 DEF CaughtUp
      <4>4. [channel |-> c, email |-> e, identity |-> i] \in work'[w]
        BY <3>1, <3>2, <4>2, <4>3 DEF Subscription, DeliveryInv, TypeOK
      <4> QED BY <1>1, <2>3, <4>1, <4>4 DEF Served, environment
    <3>4. CASE FindUsers(w)
      <4>1. PICK missing :
              /\ \/ missing = {} /\ UNCHANGED <<faults, harmed>>
                 \/ missing # {} /\ Fault /\ Harm(w, ChannelsOf(w, missing))
              /\ work' = [work EXCEPT ![w] =
                            {s \in work[w] : s.identity \in Notifiable \ missing}]
        BY <3>4 DEF FindUsers
      <4>2. pc[w] = "users" /\ pc'[w] = "emails"
        BY <3>4 DEF FindUsers, DeliveryInv, TypeOK
      <4>3. CASE ~Served(w, c, e)
        BY <1>1, <2>1, <2>3, <4>3
      <4>4. CASE Served(w, c, e)
        <5>1. PICK s \in work[w] : s.channel = c /\ s.email = e /\ s.identity = i
          BY <4>2, <4>4 DEF Served
        <5>2. CASE i \in missing
          <6>1. c \in ChannelsOf(w, missing)
            BY <5>1, <5>2 DEF ChannelsOf
          <6> QED BY <2>3, <3>1, <4>1, <5>2, <6>1 DEF Harm
        <5>3. CASE i \notin missing
          <6>1. s \in work'[w]
            BY <3>2, <4>1, <5>1, <5>3 DEF DeliveryInv, TypeOK
          <6> QED BY <1>1, <2>3, <4>2, <5>1, <6>1 DEF Served, environment
        <5> QED BY <5>2, <5>3
      <4> QED BY <4>3, <4>4
    <3>5. CASE FindEmails(w)
      <4>1. pc[w] = "emails" /\ pc'[w] = "send"
        BY <3>5 DEF FindEmails, DeliveryInv, TypeOK
      <4>2. PICK missed \in SUBSET unseen :
              work'[w] = {s \in work[w] : s.email \in verified \ missed}
        BY <3>5 DEF FindEmails, DeliveryInv, TypeOK
      <4>3. CASE Served(w, c, e)
        BY <2>3, <3>2, <4>1, <4>2, <4>3 DEF Served, Pending, CaughtUp
      <4> QED BY <1>1, <2>1, <2>3, <4>3
    <3> QED BY <3>3, <3>4, <3>5
  <2> QED BY <2>2, <2>3
<1> QED BY <1>1, <1>2, <1>3, <1>4 DEF DueInv, DueAreServed

\* Who leaves what an invocation has to do was mailed, or the mail failed.
LEMMA SendDue ==
    ASSUME DeliveryInv, DueInv, NEW w \in Worker, NEW s \in work[w],
           SendMail(w, s) \/ SendFault(w, s)
    PROVE  DueInv'
<1>1. /\ UNCHANGED <<held, pc, first, environment, due>> /\ harmed \subseteq harmed'
      /\ pc[w] = "send" /\ work' = [work EXCEPT ![w] = work[w] \ {s}]
      /\ s.channel \in Channel /\ s.email \in Email
      /\ UNCHANGED mails \/ Mail(w, s)
  BY DEF SendMail, SendFault, Harm, queue, failures, DeliveryInv, TypeOK, Subscription
<1>2. DueAreEligible'
  BY <1>1 DEF DueInv, DueAreEligible, Eligible, CaughtUp, Notifiable, environment
<1>3. BatchSizes'
  BY <1>1 DEF DueInv, BatchSizes, Running
<1>4. /\ \A c \in Channel, e \in Email, n \in 1 .. MaxMessages :
            Mailed(c, e, n) => Mailed(c, e, n)'
      /\ Mail(w, s) => Mailed(s.channel, s.email, first[w][s.channel])'
  <2>1. CASE UNCHANGED mails /\ ~Mail(w, s)
    BY <2>1 DEF Mailed
  <2>2. CASE Mail(w, s)
    <3> DEFINE t == <<s.channel, s.email>>
               n == first[w][s.channel]
    <3>1. mails \in [Channel \X Email -> Seq(1 .. MaxMessages)] /\ t \in Channel \X Email
      BY <1>1 DEF DeliveryInv, TypeOK
    <3>2. n \in 1 .. MaxMessages
      BY <1>1, BoundsAssumption DEF DeliveryInv, TypeOK, WorkFromBatch
    <3>3. mails' = [mails EXCEPT ![t] = Append(mails[t], n)]
      BY <2>2 DEF Mail
    <3> HIDE DEF t, n
    <3>4. /\ mails'[t] = Append(mails[t], n) /\ mails[t] \in Seq(1 .. MaxMessages)
          /\ \A u \in Channel \X Email : u # t => mails'[u] = mails[u]
      BY <3>1, <3>3
    <3>5. /\ Len(mails[t]) + 1 \in DOMAIN mails'[t] /\ mails'[t][Len(mails[t]) + 1] = n
          /\ \A i \in DOMAIN mails[t] : i \in DOMAIN mails'[t] /\ mails'[t][i] = mails[t][i]
      BY <3>2, <3>4
    <3>6. ASSUME NEW c \in Channel, NEW e \in Email, NEW k \in 1 .. MaxMessages,
                 Mailed(c, e, k)
          PROVE  Mailed(c, e, k)'
      <4>1. CASE <<c, e>> = t
        BY <3>5, <3>6, <4>1 DEF Mailed
      <4>2. CASE <<c, e>> # t
        BY <3>4, <3>6, <4>2 DEF Mailed
      <4> QED BY <4>1, <4>2
    <3>7. Mailed(s.channel, s.email, n)'
      BY <1>1, <3>5 DEF Mailed, t, n
    <3> QED BY <1>1, <3>6, <3>7 DEF n
  <2> QED BY <1>1, <2>1, <2>2
<1>5. ASSUME NEW v \in Worker, NEW c \in Channel, first[v][c] # 0,
             NEW e \in due[<<c, first[v][c]>>]
      PROVE  <<c, first[v][c]>> \in harmed' \/ Served(v, c, e)'
  <2>1. <<c, first[v][c]>> \in Message /\ <<c, first[v][c]>> \in Batch(v)
    BY <1>5, FirstIsMessage
  <2>2. e \in Email /\ first[v][c] \in 1 .. MaxMessages
    BY <2>1 DEF Message, DeliveryInv, TypeOK
  <2>3. <<c, first[v][c]>> \in harmed \/ Served(v, c, e)
    BY <1>5 DEF DueInv, DueAreServed
  <2>4. CASE v # w
    BY <1>1, <1>4, <2>2, <2>3, <2>4 DEF Served, Pending, environment
  <2>5. CASE v = w /\ <<c, e>> # <<s.channel, s.email>>
    <3>1. Pending(w, c, e) => Pending(w, c, e)'
      BY <1>1, <2>5 DEF Pending, DeliveryInv, TypeOK
    <3> QED BY <1>1, <1>4, <2>2, <2>3, <2>5, <3>1 DEF Served
  <2>6. CASE v = w /\ <<c, e>> = <<s.channel, s.email>>
    <3>1. CASE Mail(w, s)
      BY <1>1, <1>4, <2>6, <3>1 DEF Served
    <3>2. CASE SendFault(w, s)
      BY <2>1, <2>6, <3>2 DEF SendFault, Harm
    <3> QED BY <3>1, <3>2 DEF SendMail
  <2> QED BY <2>4, <2>5, <2>6
<1> QED BY <1>1, <1>2, <1>3, <1>5 DEF DueInv, DueAreServed

\* Whoever stays due has kept his subscription.
LEMMA UserDue ==
    ASSUME DeliveryInv, DueInv, User
    PROVE  DueInv'
<1>1. UNCHANGED <<held, pc, first, work, mails, harmed>>
  BY DEF User, Subscribe, Verify, Around, Join, SubscriptionCatchesUp,
     VerificationCatchesUp, GoOnline, GoOffline, queue, failures
<1>2. BatchSizes'
  BY <1>1 DEF DueInv, BatchSizes, Running
<1>3. \A m \in Message :
        /\ due'[m] \subseteq due[m] /\ due'[m] \subseteq Eligible(m[1])'
        /\ \A e \in due'[m] : subscriptions'[<<m[1], e>>] = subscriptions[<<m[1], e>>]
  <2> USE DEF DueInv, DueAreEligible, DeliveryInv, TypeOK
  <2>1. ASSUME NEW c \in Channel, NEW a \in Email, NEW i \in Identity, Subscribe(c, a, i),
               NEW m \in Message, NEW e \in due'[m]
        PROVE  /\ e \in due[m] /\ e \in Eligible(m[1])'
               /\ subscriptions'[<<m[1], e>>] = subscriptions[<<m[1], e>>]
    <3>1. m[1] \in Channel /\ e \in due[m] /\ e \in Email /\ ~(m[1] = c /\ e = a)
      BY <2>1 DEF Subscribe, Message
    <3>2. subscriptions'[<<m[1], e>>] = subscriptions[<<m[1], e>>]
      BY <2>1, <3>1 DEF Subscribe
    <3> QED BY <2>1, <3>1, <3>2 DEF Subscribe, Eligible, CaughtUp, Notifiable
  <2>2. ASSUME NEW a \in Email, Verify(a), NEW m \in Message, NEW e \in due'[m]
        PROVE  /\ e \in due[m] /\ e \in Eligible(m[1])'
               /\ subscriptions'[<<m[1], e>>] = subscriptions[<<m[1], e>>]
    BY <2>2 DEF Verify, Eligible, CaughtUp, Notifiable
  <2>3. ASSUME NEW i \in Identity, GoOnline(i), NEW m \in Message, NEW e \in due'[m]
        PROVE  /\ e \in due[m] /\ e \in Eligible(m[1])'
               /\ subscriptions'[<<m[1], e>>] = subscriptions[<<m[1], e>>]
    BY <2>3 DEF GoOnline, StillDue
  <2>4. ASSUME NEW i \in Identity, Join(i) \/ GoOffline(i), NEW m \in Message,
               NEW e \in due'[m]
        PROVE  /\ e \in due[m] /\ e \in Eligible(m[1])'
               /\ subscriptions'[<<m[1], e>>] = subscriptions[<<m[1], e>>]
    BY <2>4 DEF Join, GoOffline, Eligible, CaughtUp, Notifiable
  <2>5. ASSUME NEW c \in Channel, NEW a \in Email, SubscriptionCatchesUp(c, a),
               NEW m \in Message, NEW e \in due'[m]
        PROVE  /\ e \in due[m] /\ e \in Eligible(m[1])'
               /\ subscriptions'[<<m[1], e>>] = subscriptions[<<m[1], e>>]
    BY <2>5 DEF SubscriptionCatchesUp, Message, Eligible, CaughtUp, Notifiable
  <2>6. ASSUME NEW a \in Email, VerificationCatchesUp(a), NEW m \in Message,
               NEW e \in due'[m]
        PROVE  /\ e \in due[m] /\ e \in Eligible(m[1])'
               /\ subscriptions'[<<m[1], e>>] = subscriptions[<<m[1], e>>]
    BY <2>6 DEF VerificationCatchesUp, Eligible, CaughtUp, Notifiable
  <2> QED BY <2>1, <2>2, <2>3, <2>4, <2>5, <2>6 DEF User, Around
<1>4. DueAreEligible'
  BY <1>3 DEF DueAreEligible
<1>5. ASSUME NEW w \in Worker, NEW c \in Channel, first[w][c] # 0,
             NEW e \in due'[<<c, first[w][c]>>]
      PROVE  <<c, first[w][c]>> \in harmed \/ Served(w, c, e)'
  <2>1. <<c, first[w][c]>> \in Message
    BY <1>5, FirstIsMessage
  <2>2. /\ e \in due[<<c, first[w][c]>>]
        /\ subscriptions'[<<c, e>>] = subscriptions[<<c, e>>]
    BY <1>3, <1>5, <2>1
  <2>3. <<c, first[w][c]>> \in harmed \/ Served(w, c, e)
    BY <1>5, <2>2 DEF DueInv, DueAreServed
  <2> QED BY <1>1, <2>2, <2>3 DEF Served, Pending, Mailed
<1> QED BY <1>1, <1>2, <1>4, <1>5 DEF DueInv, DueAreServed

LEMMA NextDueInv == DeliveryInv /\ DueInv /\ [Next]_vars => DueInv'
<1> SUFFICES ASSUME DeliveryInv, DueInv, [Next]_vars PROVE DueInv'
  OBVIOUS
<1>1. CASE UNCHANGED vars
  BY <1>1
     DEF vars, queue, environment, failures, DueInv, DueAreEligible, Eligible,
     CaughtUp, Notifiable,
         BatchSizes, Running, DueAreServed, Served, Pending, Mailed
<1>2. ASSUME NEW c \in Channel, Enqueue(c) PROVE DueInv'
  <2>1. CASE Worker = {}
    <3>1. \A d \in Channel : Eligible(d)' = Eligible(d)
      BY <1>2 DEF Enqueue, Eligible, CaughtUp, Notifiable, environment
    <3>2. \A m \in Message : due'[m] \subseteq due[m] \cup Eligible(m[1])
      BY <1>2 DEF Enqueue, DeliveryInv, TypeOK, Message
    <3>3. DueAreEligible'
      BY <3>1, <3>2 DEF DueInv, DueAreEligible, Message
    <3> QED BY <2>1, <3>3 DEF DueInv, BatchSizes, DueAreServed
  <2> QED BY <1>2, <2>1, QueueDue
<1>3. ASSUME NEW w \in Worker,
             Delivery(w) \/ Step(w) \/ StepFault(w) \/ Expire(w) \/ Recycle(w)
      PROVE  DueInv'
  BY <1>3, QueueDue, FindDue, SendDue DEF Step, StepFault, Returns
<1> QED BY <1>1, <1>2, <1>3, UserDue DEF Next

\* Messages leave the queue when an invocation returns, those of a channel as the
\* part of its batch that begins with the head of the channel.
LEMMA DeletedByReturn ==
    ASSUME DeliveryInv, DueInv, [Next]_vars, NEW c \in Channel, deleted'[c] # deleted[c]
    PROVE  \E w \in Worker :
             /\ Returns(w)
             /\ deleted'[c] = deleted[c] + held[w][c] /\ held[w][c] \in 1 .. BatchSize
             /\ first[w][c] = deleted[c] + 1 /\ <<c, first[w][c]>> \in Batch(w)
<1>1. PICK w \in Worker : Returns(w)
  <2>1. ~UNCHANGED deleted
    BY DEF DeliveryInv, TypeOK
  <2> QED BY <2>1
          DEF Next, User, Subscribe, Verify, Around, Join, SubscriptionCatchesUp,
              VerificationCatchesUp, GoOnline, GoOffline, Enqueue, Delivery, Receive,
              Step, StepFault, FindSubscriptions, FindUsers, FindEmails, SendMail,
              SendFault, Kill, Expire, Recycle, Returns, vars, queue
<1>2. Return(w) /\ Running(w)
  BY <1>1 DEF Returns, Finish, ReadFault, SettingsFault, ReturnBlind, Running
<1>3. /\ held[w][c] <= BatchSize /\ held[w][c] \in Nat /\ deleted[c] \in Nat
      /\ deleted'[c] = deleted[c] + held[w][c]
  BY <1>2 DEF Return, DueInv, BatchSizes, DeliveryInv, TypeOK
<1>4. held[w][c] \in 1 .. BatchSize
  BY <1>3, BatchAssumption
<1>5. first[w][c] # 0
  BY <1>2, <1>4 DEF DueInv, BatchSizes
<1> QED BY <1>1, <1>3, <1>4, <1>5, FirstIsMessage

\* Whoever is due for the head of a channel was mailed about it when it leaves the
\* queue, or a call of its invocation failed.
LEMMA HeadDeletedIsMailed ==
    ASSUME DeliveryInv, DueInv, [Next]_vars,
           NEW c \in Channel, deleted'[c] # deleted[c],
           NEW e \in due[<<c, deleted[c] + 1>>]
    PROVE  <<c, deleted[c] + 1>> \in harmed' \/ Mailed(c, e, deleted[c] + 1)
<1> DEFINE n == deleted[c] + 1
<1>1. PICK w \in Worker : /\ Returns(w) /\ first[w][c] = n /\ <<c, n>> \in Batch(w)
                          /\ first[w][c] # 0
  <2>1. deleted[c] \in Nat
    BY DEF DeliveryInv, TypeOK
  <2>2. PICK w \in Worker : /\ Returns(w) /\ first[w][c] = deleted[c] + 1
                            /\ <<c, first[w][c]>> \in Batch(w)
    BY DeletedByReturn
  <2> QED BY <2>1, <2>2
<1> HIDE DEF n
<1>2. CASE Finish(w)
  <2>1. <<c, n>> \in harmed \/ Served(w, c, e)
    BY <1>1 DEF DueInv, DueAreServed, n
  <2>2. pc[w] = "send" /\ work[w] = {} /\ harmed' = harmed
    BY <1>2 DEF Finish, failures
  <2> QED BY <1>1, <2>1, <2>2 DEF Served, Pending, n
<1>3. CASE ReadFault(w) \/ SettingsFault(w) \/ ReturnBlind(w)
  BY <1>1, <1>3 DEF ReadFault, SettingsFault, ReturnBlind, Harm, n
<1> QED BY <1>1, <1>2, <1>3 DEF Returns

LEMMA InitDueInv == Init => DueInv
<1> SUFFICES ASSUME Init PROVE DueInv
  OBVIOUS
<1>1. DueAreEligible
  BY DEF Init, DueAreEligible
<1>2. \A w \in Worker, c \in Channel : held[w][c] = 0 /\ first[w][c] = 0 /\ ~Running(w)
  BY DEF Init, Running
<1>3. BatchSizes /\ DueAreServed
  BY <1>2, BatchAssumption DEF BatchSizes, DueAreServed
<1> QED BY <1>1, <1>3 DEF DueInv

\* For every size of the batches, whoever is due for the first message of a channel
\* in a batch is mailed about it before the batch leaves the queue, unless a call of
\* its own invocation failed or its container had no settings.
THEOREM FirstOfBatchMailedAlways == Spec => FirstOfBatchMailed
<1>1. IInv => DeliveryInv
  BY DEF IInv
<1>2. DeliveryInv /\ DueInv /\ [Next]_vars =>
        [ \A c \in Channel : deleted'[c] > deleted[c] =>
            \A e \in due[<<c, deleted[c] + 1>>] :
              \/ <<c, deleted[c] + 1>> \in harmed'
              \/ Mailed(c, e, deleted[c] + 1) ]_vars
  <2>1. DeliveryInv => \A c \in Channel : deleted[c] \in Nat
    BY DEF DeliveryInv, TypeOK
  <2> QED BY <2>1, HeadDeletedIsMailed
<1> QED BY <1>1, <1>2, Invariance, InitDueInv, NextDueInv, PTL
        DEF Spec, FirstOfBatchMailed

\* With batches of one, the head of the channel is all that an invocation deletes.
LEMMA DeletedIsMailed ==
    ASSUME BatchSize = 1, DeliveryInv, DueInv, [Next]_vars,
           NEW c \in Channel, NEW n \in deleted[c] + 1 .. deleted'[c],
           NEW e \in due[<<c, n>>]
    PROVE  <<c, n>> \in harmed' \/ Mailed(c, e, n)
<1>1. deleted[c] \in Nat /\ deleted'[c] # deleted[c]
  BY DEF DeliveryInv, TypeOK
<1>2. n = deleted[c] + 1
  <2>1. \E w \in Worker : /\ deleted'[c] = deleted[c] + held[w][c]
                          /\ held[w][c] \in 1 .. BatchSize
    BY <1>1, DeletedByReturn
  <2> QED BY <1>1, <2>1
<1> QED BY <1>1, <1>2, HeadDeletedIsMailed

\* With batches of one, as the tests deploy, no message leaves the queue before
\* it was mailed to whoever was due, unless a call of its own invocation failed
\* or its container had no settings.
THEOREM EveryMessageMailedHolds ==
    ASSUME BatchSize = 1 PROVE Spec => EveryMessageMailed
<1>1. IInv => DeliveryInv
  BY DEF IInv
<1>2. DeliveryInv /\ DueInv /\ [Next]_vars =>
        [ \A c \in Channel : \A n \in deleted[c] + 1 .. deleted'[c] :
            \A e \in due[<<c, n>>] :
              <<c, n>> \in harmed' \/ Mailed(c, e, n) ]_vars
  BY DeletedIsMailed
<1> QED BY <1>1, <1>2, Invariance, InitDueInv, NextDueInv, PTL DEF Spec, EveryMessageMailed

-----------------------------------------------------------------------------
(* The way of one message                                                  *)

THEOREM DueInvariance == Spec => []DueInv
<1>1. IInv => DeliveryInv
  BY DEF IInv
<1> QED BY <1>1, Invariance, InitDueInv, NextDueInv, PTL DEF Spec

\* Who is due for a message stays due until the message leaves the queue, unless
\* he loses a condition for it.
LEMMA DueKept ==
    ASSUME DeliveryInv, [Next]_vars, NEW m \in Message, NEW e \in due[m],
           e \in Eligible(m[1])', m[2] > deleted'[m[1]],
           subscriptions'[<<m[1], e>>] = subscriptions[<<m[1], e>>]
    PROVE  e \in due'[m]
<1>0. /\ due \in [Message -> SUBSET Email] /\ m[1] \in Channel /\ e \in Email
      /\ subscriptions \in [Channel \X Email -> Identity \cup {None}]
  BY DEF DeliveryInv, TypeOK, Message
<1>1. CASE UNCHANGED due
  BY <1>1
<1>2. ASSUME NEW c \in Channel, Enqueue(c) PROVE e \in due'[m]
  <2>1. Eligible(m[1])' = Eligible(m[1])
    BY <1>2 DEF Enqueue, Eligible, CaughtUp, Notifiable, environment
  <2>2. due' = [due EXCEPT ![<<c, enqueued[c] + 1>>] = Eligible(c)]
    BY <1>2 DEF Enqueue
  <2>3. CASE m = <<c, enqueued[c] + 1>>
    BY <1>0, <2>1, <2>2, <2>3
  <2>4. CASE m # <<c, enqueued[c] + 1>>
    BY <1>0, <2>2, <2>4
  <2> QED BY <2>3, <2>4
<1>3. ASSUME NEW c \in Channel, NEW f \in Email, NEW i \in Identity, Subscribe(c, f, i)
      PROVE  e \in due'[m]
  <2>1. ~(m[1] = c /\ e = f)
    BY <1>0, <1>3 DEF Subscribe
  <2> QED BY <1>3, <2>1 DEF Subscribe
<1>4. ASSUME NEW i \in Identity, GoOnline(i) PROVE e \in due'[m]
  BY <1>4 DEF GoOnline, StillDue
<1>5. ASSUME NEW w \in Worker, Return(w) PROVE e \in due'[m]
  BY <1>0, <1>5 DEF Return, DeliveryInv, TypeOK, Message
<1>6. CASE User
  BY <1>1, <1>3, <1>4, <1>6 DEF User, Verify, Around, Join, SubscriptionCatchesUp,
     VerificationCatchesUp, GoOffline
<1>7. ASSUME NEW w \in Worker,
             Delivery(w) \/ Step(w) \/ StepFault(w) \/ Expire(w) \/ Recycle(w)
      PROVE  e \in due'[m]
  <2>1. UNCHANGED due \/ Return(w)
    BY <1>7 DEF Delivery, Receive, Step, StepFault, FindSubscriptions, FindUsers, FindEmails,
       Finish, ReturnBlind, SettingsFault, ReadFault, SendMail, SendFault, Kill, Expire,
       Recycle
  <2> QED BY <1>1, <1>5, <2>1
<1>8. CASE UNCHANGED vars
  BY <1>1, <1>8 DEF vars
<1> QED BY <1>2, <1>6, <1>7, <1>8 DEF Next

\* What harmed a message is not forgotten.
LEMMA HarmedGrows ==
    ASSUME [Next]_vars
    PROVE  harmed \subseteq harmed'
<1>1. CASE UNCHANGED harmed
  BY <1>1
<1>2. ASSUME NEW w \in Worker, Step(w) \/ StepFault(w) PROVE harmed \subseteq harmed'
  BY <1>2 DEF Step, StepFault, FindSubscriptions, FindUsers, FindEmails, Finish, ReturnBlind,
     SettingsFault, ReadFault, SendMail, SendFault, Kill, Harm, failures
<1>3. CASE \/ UNCHANGED vars \/ User \/ \E c \in Channel : Enqueue(c)
           \/ \E w \in Worker : Delivery(w) \/ Expire(w) \/ Recycle(w)
  BY <1>1, <1>3 DEF vars, failures, User, Subscribe, Verify, Around, Join,
     SubscriptionCatchesUp, VerificationCatchesUp, GoOnline, GoOffline, Enqueue, Delivery,
     Receive, Expire, Recycle
<1> QED BY <1>2, <1>3 DEF Next

\* An address that meets the conditions for place n of a channel and was not
\* mailed about it is due for it as long as it is in the queue, and harmed if
\* it left: one step with batches of one.
LEMMA PlaceKept ==
    ASSUME BatchSize = 1, DeliveryInv, DueInv, [Next]_vars,
           NEW c \in Channel, NEW n \in 1 .. enqueued[c], NEW e,
           e \in Eligible(c)', ~Mailed(c, e, n)',
           subscriptions'[<<c, e>>] = subscriptions[<<c, e>>],
           IF n > deleted[c] THEN e \in due[<<c, n>>] ELSE <<c, n>> \in harmed
    PROVE  IF n > deleted'[c] THEN e \in due'[<<c, n>>] ELSE <<c, n>> \in harmed'
<1>1. /\ <<c, n>> \in Message /\ deleted[c] \in Nat /\ n \in Nat
      /\ deleted'[c] = deleted[c]
         \/ \E w \in Worker : /\ Returns(w) /\ held[w][c] \in 1 .. BatchSize
                              /\ deleted'[c] = deleted[c] + held[w][c]
  <2>1. enqueued[c] \in 0 .. MaxMessages /\ deleted[c] \in 0 .. MaxMessages
    BY DEF DeliveryInv, TypeOK
  <2>2. n \in 1 .. MaxMessages
    <3>1. enqueued[c] <= MaxMessages /\ enqueued[c] \in Nat /\ MaxMessages \in Nat
      BY <2>1, BoundsAssumption
    <3> QED BY <3>1
  <2>3. <<c, n>> \in Message /\ deleted[c] \in Nat /\ n \in Nat
    BY <2>1, <2>2 DEF Message
  <2>4. deleted'[c] # deleted[c] =>
          \E w \in Worker : /\ Returns(w) /\ held[w][c] \in 1 .. BatchSize
                            /\ deleted'[c] = deleted[c] + held[w][c]
    BY DeletedByReturn
  <2> QED BY <2>3, <2>4
<1>2. CASE n > deleted'[c]
  <2>1. n > deleted[c]
    BY <1>1, <1>2
  <2> QED BY <1>1, <1>2, <2>1, DueKept
<1>3. CASE ~(n > deleted'[c]) /\ n > deleted[c]
  <2>1. deleted'[c] # deleted[c]
    BY <1>3
  <2>2. PICK w \in Worker : /\ Returns(w) /\ held[w][c] \in 1 .. BatchSize
                            /\ deleted'[c] = deleted[c] + held[w][c]
    BY <1>1, <2>1
  <2>3. n \in deleted[c] + 1 .. deleted'[c]
    BY <1>1, <1>3, <2>2
  <2>4. <<c, n>> \in harmed' \/ Mailed(c, e, n)
    BY <1>3, <2>3, DeletedIsMailed
  <2>5. UNCHANGED mails
    BY <2>2 DEF Returns, Finish, ReturnBlind, SettingsFault, ReadFault
  <2> QED BY <1>3, <2>4, <2>5 DEF Mailed
<1>4. CASE ~(n > deleted'[c]) /\ ~(n > deleted[c])
  BY <1>4, HarmedGrows
<1> QED BY <1>2, <1>3, <1>4
-----------------------------------------------------------------------------
(* The mails and what they rest on                                         *)

\* What an invocation has to do, and what a lagging read finds, are subscriptions
\* that are still there, though perhaps somebody else's.
WorkSubscribed ==
    /\ \A w \in Worker : \A s \in work[w] : subscriptions[<<s.channel, s.email>>] # None
    /\ \A t \in Channel \X Email : replaced[t] # {} => subscriptions[t] # None

\* Mails and subscriptions change as the sender and the users have it: a mail is
\* about the head of a group in an invocation that runs.
LEMMA MailStep ==
    ASSUME DeliveryInv, WorkSubscribed, [Next]_vars
    PROVE  \/ UNCHANGED <<mails, verified, subscriptions>>
           \/ \E c \in Channel, e \in Email, i \in Identity :
                /\ subscriptions' = [subscriptions EXCEPT ![<<c, e>>] = i]
                /\ UNCHANGED <<mails, verified>>
           \/ \E e \in Email : /\ verified' = verified \cup {e}
                               /\ UNCHANGED <<mails, subscriptions>>
           \/ \E w \in Worker, c \in Channel, e \in Email :
                /\ first[w][c] # 0 /\ e \in verified /\ subscriptions[<<c, e>>] # None
                /\ mails' = [mails EXCEPT ![<<c, e>>] = Append(mails[<<c, e>>], first[w][c])]
                /\ UNCHANGED <<verified, subscriptions, enqueued>>
<1>1. CASE UNCHANGED vars
  BY <1>1 DEF vars, environment
<1>2. CASE \E c \in Channel : Enqueue(c)
  BY <1>2 DEF Enqueue, environment
<1>3. CASE User
  <2>1. ASSUME NEW c \in Channel, NEW e \in Email, NEW i \in Identity,
               Subscribe(c, e, i)
        PROVE  /\ subscriptions' = [subscriptions EXCEPT ![<<c, e>>] = i]
               /\ UNCHANGED <<mails, verified>>
    BY <2>1 DEF Subscribe
  <2>2. CASE \E e \in Email : Verify(e)
    BY <2>2 DEF Verify
  <2>3. CASE Around
    BY <2>3 DEF Around, Join, SubscriptionCatchesUp, VerificationCatchesUp, GoOnline,
       GoOffline
  <2>4. CASE \E c \in Channel, e \in Email, i \in Identity : Subscribe(c, e, i)
    <3>1. PICK c \in Channel, e \in Email, i \in Identity : Subscribe(c, e, i)
      BY <2>4
    <3>2. \E d \in Channel, f \in Email, j \in Identity :
            /\ subscriptions' = [subscriptions EXCEPT ![<<d, f>>] = j]
            /\ UNCHANGED <<mails, verified>>
      <4>1. /\ subscriptions' = [subscriptions EXCEPT ![<<c, e>>] = i]
            /\ UNCHANGED <<mails, verified>>
        BY <2>1, <3>1
      <4> QED BY <4>1, Zenon
    <3> QED BY <3>2, Zenon
  <2>5. QED BY <1>3, <2>2, <2>3, <2>4, Zenon DEF User
<1>4. ASSUME NEW w \in Worker, Delivery(w) \/ Expire(w) \/ Recycle(w)
      PROVE  UNCHANGED <<mails, verified, subscriptions>>
  BY <1>4 DEF Delivery, Receive, Expire, Recycle, environment
<1>5. ASSUME NEW w \in Worker,
             FindSubscriptions(w) \/ FindUsers(w) \/ FindEmails(w) \/ Finish(w)
             \/ ReturnBlind(w) \/ SettingsFault(w) \/ ReadFault(w) \/ Kill(w)
      PROVE  UNCHANGED <<mails, verified, subscriptions>>
  BY <1>5 DEF FindSubscriptions, FindUsers, FindEmails, Finish, ReturnBlind, SettingsFault,
     ReadFault, Kill, environment
<1>6. ASSUME NEW w \in Worker, NEW s \in work[w], SendMail(w, s) \/ SendFault(w, s)
      PROVE  \/ UNCHANGED <<mails, verified, subscriptions>>
             \/ \E c \in Channel, e \in Email :
                  /\ first[w][c] # 0 /\ e \in verified /\ subscriptions[<<c, e>>] # None
                  /\ mails' = [mails EXCEPT ![<<c, e>>] =
                                 Append(mails[<<c, e>>], first[w][c])]
                  /\ UNCHANGED <<verified, subscriptions, enqueued>>
  <2>1. s.channel \in Channel /\ s.email \in Email
    BY DEF DeliveryInv, TypeOK, Subscription
  <2>2. pc[w] = "send" /\ UNCHANGED <<verified, subscriptions, enqueued>>
        /\ (UNCHANGED mails \/ Mail(w, s))
    BY <1>6 DEF SendMail, SendFault, environment, queue
  <2>3. /\ first[w][s.channel] # 0 /\ s.email \in verified
        /\ subscriptions[<<s.channel, s.email>>] # None
    BY <2>2 DEF DeliveryInv, WorkFromBatch, WorkSubscribed
  <2>4. CASE Mail(w, s)
    BY <2>1, <2>2, <2>3, <2>4 DEF Mail
  <2> QED BY <2>2, <2>4
<1>7. ASSUME NEW w \in Worker, Step(w) \/ StepFault(w)
      PROVE  \/ UNCHANGED <<mails, verified, subscriptions>>
             \/ \E c \in Channel, e \in Email :
                  /\ first[w][c] # 0 /\ e \in verified /\ subscriptions[<<c, e>>] # None
                  /\ mails' = [mails EXCEPT ![<<c, e>>] =
                                 Append(mails[<<c, e>>], first[w][c])]
                  /\ UNCHANGED <<verified, subscriptions, enqueued>>
  BY <1>5, <1>6, <1>7 DEF Step, StepFault
<1> QED BY <1>1, <1>2, <1>3, <1>4, <1>7 DEF Next

\* An invocation works on subscriptions it has read from the table.
LEMMA WorkRead ==
    ASSUME DeliveryInv, [Next]_vars, NEW w \in Worker, NEW s \in work'[w]
    PROVE  /\ s \in Subscription
           /\ \/ s \in work[w]
              \/ s.identity \in {subscriptions[<<s.channel, s.email>>]}
                                 \cup replaced[<<s.channel, s.email>>]
<1>0. work \in [Worker -> SUBSET Subscription] /\ work[w] \subseteq Subscription
  BY DEF DeliveryInv, TypeOK
<1>1. ASSUME NEW v \in Worker, NEW rest \in SUBSET work[v],
             work' = [work EXCEPT ![v] = rest]
      PROVE  s \in work[w]
  BY <1>0, <1>1
<1>2. CASE UNCHANGED work
  BY <1>0, <1>2
<1>3. ASSUME NEW v \in Worker, FindSubscriptions(v)
      PROVE  /\ s \in Subscription
             /\ \/ s \in work[w]
                \/ s.identity \in {subscriptions[<<s.channel, s.email>>]}
                                   \cup replaced[<<s.channel, s.email>>]
  BY <1>0, <1>3 DEF FindSubscriptions, Subscription
<1>4. ASSUME NEW v \in Worker, Step(v) \/ StepFault(v), ~FindSubscriptions(v)
      PROVE  \E rest \in SUBSET work[v] : work' = [work EXCEPT ![v] = rest]
  <2>1. CASE FindUsers(v) \/ FindEmails(v)
    BY <2>1 DEF FindUsers, FindEmails
  <2>2. CASE \/ Finish(v) \/ ReturnBlind(v) \/ SettingsFault(v) \/ ReadFault(v)
             \/ Kill(v)
    BY <2>2 DEF Finish, ReturnBlind, SettingsFault, ReadFault, Kill, Return
  <2>3. CASE \E t \in work[v] : SendMail(v, t) \/ SendFault(v, t)
    BY <2>3 DEF SendMail, SendFault
  <2> QED BY <1>4, <2>1, <2>2, <2>3 DEF Step, StepFault
<1>5. CASE \/ UNCHANGED vars \/ User \/ \E c \in Channel : Enqueue(c)
           \/ \E v \in Worker : Delivery(v) \/ Expire(v) \/ Recycle(v)
  BY <1>2, <1>5 DEF vars, User, Subscribe, Verify, Around, Join, SubscriptionCatchesUp,
     VerificationCatchesUp, GoOnline, GoOffline, Enqueue, Delivery, Receive, Expire,
     Recycle
<1> QED BY <1>0, <1>1, <1>2, <1>3, <1>4, <1>5 DEF Next

\* A lagging read finds what the row was before, and only where it has been written.
LEMMA RowStep ==
    ASSUME DeliveryInv, [Next]_vars, NEW t \in Channel \X Email
    PROVE  /\ replaced'[t] \subseteq replaced[t] \cup {subscriptions[t]}
           /\ replaced'[t] \subseteq replaced[t] \/ subscriptions'[t] \in Identity
<1>1. CASE UNCHANGED replaced
  BY <1>1
<1>2. CASE User
  <2>1. ASSUME NEW c \in Channel, NEW e \in Email, NEW i \in Identity, Subscribe(c, e, i)
        PROVE  \/ replaced'[t] = replaced[t]
               \/ /\ replaced'[t] = replaced[t] \cup {subscriptions[t]}
                  /\ subscriptions'[t] = i
    BY <2>1 DEF Subscribe, DeliveryInv, TypeOK
  <2>2. ASSUME NEW c \in Channel, NEW e \in Email, SubscriptionCatchesUp(c, e)
        PROVE  replaced'[t] \subseteq replaced[t]
    BY <2>2 DEF SubscriptionCatchesUp, DeliveryInv, TypeOK
  <2> QED BY <1>1, <1>2, <2>1, <2>2 DEF User, Verify, Around, Join, VerificationCatchesUp,
         GoOnline, GoOffline
<1>3. ASSUME NEW w \in Worker,
             Delivery(w) \/ Step(w) \/ StepFault(w) \/ Expire(w) \/ Recycle(w)
      PROVE  UNCHANGED environment
  BY <1>3 DEF Delivery, Receive, Step, StepFault, FindSubscriptions, FindUsers, FindEmails,
     Finish, ReturnBlind, SettingsFault, ReadFault, SendMail, SendFault, Kill, Expire,
     Recycle
<1> QED BY <1>1, <1>2, <1>3 DEF Next, Enqueue, vars, environment

LEMMA WorkStep ==
    ASSUME DeliveryInv, WorkSubscribed, [Next]_vars
    PROVE  WorkSubscribed'
<1>1. \A t \in Channel \X Email : subscriptions[t] # None => subscriptions'[t] # None
  <2>1. UNCHANGED subscriptions
        \/ \E c \in Channel, e \in Email, i \in Identity :
             subscriptions' = [subscriptions EXCEPT ![<<c, e>>] = i]
    BY MailStep
  <2> QED BY <2>1, NoneAssumption DEF DeliveryInv, TypeOK
<1>2. ASSUME NEW w \in Worker, NEW s \in work'[w]
      PROVE  subscriptions'[<<s.channel, s.email>>] # None
  <2>1. <<s.channel, s.email>> \in Channel \X Email /\ s.identity # None
    BY <1>2, WorkRead, NoneAssumption DEF Subscription
  <2>2. subscriptions[<<s.channel, s.email>>] # None
    BY <1>2, <2>1, WorkRead DEF WorkSubscribed
  <2> QED BY <1>1, <2>1, <2>2
<1>3. ASSUME NEW t \in Channel \X Email, replaced'[t] # {}
      PROVE  subscriptions'[t] # None
  <2>1. CASE replaced'[t] \subseteq replaced[t]
    BY <1>1, <1>3, <2>1 DEF WorkSubscribed
  <2>2. CASE subscriptions'[t] \in Identity
    BY <2>2, NoneAssumption
  <2> QED BY <1>3, <2>1, <2>2, RowStep
<1> QED BY <1>2, <1>3 DEF WorkSubscribed

\* Only the receiver puts messages in the queue.
LEMMA OnlyEnqueueCounts ==
    ASSUME DeliveryInv, [Next]_vars, NEW c \in Channel, enqueued'[c] # enqueued[c]
    PROVE  Enqueue(c)
<1>1. ~UNCHANGED enqueued
  OBVIOUS
<1>2. PICK d \in Channel : Enqueue(d)
  BY <1>1 DEF Next, User, Subscribe, Verify, Around, Join, SubscriptionCatchesUp,
     VerificationCatchesUp, GoOnline, GoOffline, Delivery, Receive, Step, StepFault,
     FindSubscriptions, FindUsers, FindEmails, Finish, ReturnBlind, SendMail,
     SettingsFault, ReadFault, Kill, SendFault, Return, Expire, Recycle, vars, queue
<1>3. enqueued \in [Channel -> 0 .. MaxMessages]
  BY DEF DeliveryInv, TypeOK
<1>4. c = d
  BY <1>2, <1>3 DEF Enqueue
<1> QED BY <1>2, <1>4
=============================================================================
