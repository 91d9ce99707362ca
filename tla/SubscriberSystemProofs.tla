------------------------ MODULE SubscriberSystemProofs ------------------------
(***************************************************************************)
(* Theorems about SubscriberSystem, for every set of users, channels,      *)
(* addresses, codes, calls and invocations, every batch size, and every    *)
(* bound.  Each step of the system is one of the enrolment, which the      *)
(* sender takes for its users, or one of the sender, which leaves the      *)
(* tables alone: so both keep their invariants.  What is new is what the   *)
(* sender remembers of the tables, and what a lagging read still finds in  *)
(* them, while they change, and that the sender owes a mail to nobody      *)
(* who is not due for it.                                                  *)
(***************************************************************************)
EXTENDS SubscriberSystem, EmailNotificationsProofs

\* What is proved of the enrolment.
Theorems == INSTANCE ChannelSubscriptionProofs WITH
    Identity <- Identity, Channel <- Channel, Email <- Email, Code <- Code,
    Contexts <- Contexts, Request <- Request, Attempt <- Attempt,
    MaxDeliveries <- MaxDeliveries, MaxFaults <- MaxFaults, None <- None,
    subscriptions <- subscriptions, verified <- verified, code <- code, topic <- topic,
    api <- api, confirm <- confirm, attempts <- attempts, mailbox <- mailbox,
    faults <- enrolFaults, blind <- enrolBlind, harmed <- enrolHarmed

\* The theorems are about the very module that the system is composed of.
LEMMA SameInit == Enrolment!Init => Theorems!Init
  BY DEF Enrolment!Init, Theorems!Init, Enrolment!Delivery, Theorems!Delivery

LEMMA SameNext == Enrolment!Next => Theorems!Next
  BY DEF Enrolment!Next, Theorems!Next, Enrolment!Delivery, Theorems!Delivery,
     Enrolment!failures, Theorems!failures, Enrolment!Fault, Theorems!Fault,
     Enrolment!PutSubscription, Theorems!PutSubscription,
     Enrolment!PublishEvent, Theorems!PublishEvent,
     Enrolment!EmailOf, Theorems!EmailOf, Enrolment!RowExists, Theorems!RowExists,
     Enrolment!FreshCode, Theorems!FreshCode, Enrolment!PutCode, Theorems!PutCode,
     Enrolment!MailCode, Theorems!MailCode, Enrolment!CodeMatches, Theorems!CodeMatches,
     Enrolment!SetVerified, Theorems!SetVerified,
     Enrolment!EnableNotifications, Theorems!EnableNotifications,
     Enrolment!Subscribe, Theorems!Subscribe, Enrolment!Publish, Theorems!Publish,
     Enrolment!FindEmail, Theorems!FindEmail, Enrolment!ApiFault, Theorems!ApiFault,
     Enrolment!Deliver, Theorems!Deliver, Enrolment!StoreCode, Theorems!StoreCode,
     Enrolment!Conflict, Theorems!Conflict, Enrolment!SendCode, Theorems!SendCode,
     Enrolment!ConfirmationFails, Theorems!ConfirmationFails,
     Enrolment!SettingsFault, Theorems!SettingsFault,
     Enrolment!ReturnBlind, Theorems!ReturnBlind,
     Enrolment!ConfirmationFault, Theorems!ConfirmationFault,
     Enrolment!VerifyEmail, Theorems!VerifyEmail,
     Enrolment!AcceptCode, Theorems!AcceptCode, Enrolment!RejectCode, Theorems!RejectCode,
     Enrolment!PublishVerified, Theorems!PublishVerified,
     Enrolment!VerifyFault, Theorems!VerifyFault, Enrolment!ApiStep, Theorems!ApiStep,
     Enrolment!ConfirmStep, Theorems!ConfirmStep,
     Enrolment!ConfirmStepFault, Theorems!ConfirmStepFault,
     Enrolment!AttemptStep, Theorems!AttemptStep, Enrolment!MailedCode, Theorems!MailedCode

-----------------------------------------------------------------------------
(* Steps of the system are steps of its components                         *)

LEMMA SenderTakesStep ==
    ASSUME SystemNext
    PROVE  [Next]_vars
<1>1. CASE Enrolment!Next /\ Follow
  BY <1>1 DEF Follow, Next, User
<1>2. CASE SenderStep
  BY <1>2 DEF SenderStep, Next, User
<1> QED BY <1>1, <1>2 DEF SystemNext

\* What the tables hold changes as the enrolment has it, and in no other way.
LEMMA SenderLeavesTables ==
    ASSUME SenderStep
    PROVE  UNCHANGED <<subscriptions, verified>>
<1>1. ASSUME NEW w \in Worker, Delivery(w) \/ Expire(w) \/ Recycle(w)
      PROVE  UNCHANGED environment
  BY <1>1 DEF Delivery, Receive, Expire, Recycle
<1>2. ASSUME NEW w \in Worker, Step(w) PROVE UNCHANGED environment
  BY <1>2 DEF Step, FindSubscriptions, FindUsers, FindEmails, Finish, ReturnBlind, SendMail
<1>3. ASSUME NEW w \in Worker, StepFault(w) PROVE UNCHANGED environment
  BY <1>3 DEF StepFault, SettingsFault, ReadFault, Kill, SendFault
<1>4. CASE Around
  BY <1>4 DEF Around, Join, SubscriptionCatchesUp, VerificationCatchesUp, GoOnline, GoOffline
<1> QED BY <1>1, <1>2, <1>3, <1>4 DEF SenderStep, Enqueue, environment

LEMMA EnrolmentTakesStep ==
    ASSUME SystemNext
    PROVE  Enrolment!Next \/ UNCHANGED Enrolment!vars
<1>1. CASE SenderStep /\ UNCHANGED enrolVars
  BY <1>1, SenderLeavesTables DEF enrolVars, Enrolment!vars, Enrolment!failures
<1> QED BY <1>1 DEF SystemNext

\* The composition adds nothing to either component: the users of the sender are
\* the mutations, and the mutations do not notice the sender.
THEOREM SystemImplementsSender == SystemSpec => Spec
<1>1. SystemInit => Init
  BY DEF SystemInit
<1>2. [SystemNext]_systemVars => [Next]_vars
  BY SenderTakesStep DEF systemVars
<1> QED BY <1>1, <1>2, PTL DEF SystemSpec, Spec

THEOREM SystemImplementsEnrolment == SystemSpec => Enrolment!Spec
<1>1. SystemInit => Enrolment!Init
  BY DEF SystemInit
<1>2. [SystemNext]_systemVars => [Enrolment!Next]_(Enrolment!vars)
  <2>1. CASE UNCHANGED systemVars
    <3>1. UNCHANGED environment /\ UNCHANGED enrolVars
      BY <2>1 DEF systemVars, vars
    <3> QED BY <3>1 DEF environment, enrolVars, Enrolment!vars, Enrolment!failures
  <2> QED BY <2>1, EnrolmentTakesStep
<1> QED BY <1>1, <1>2, PTL DEF SystemSpec, Enrolment!Spec

-----------------------------------------------------------------------------
(* The inductive invariant                                                 *)

\* Who was mailed is subscribed, though perhaps by somebody else by now.
MailsSubscribed ==
    \A s \in Channel \X Email : mails[s] # <<>> => subscriptions[s] # None

\* An invocation serves users whose token names the channel, also those that were
\* replaced since it has read the table.
WorkEntitled == \A w \in Worker : \A s \in work[w] : s.channel \in Contexts[s.identity]

\* Whom a lagging read of a row still finds was entitled to subscribe, too.
FormerEntitled ==
    \A t \in Channel \X Email : \A i \in replaced[t] : i # None => t[1] \in Contexts[i]

LinkInv == WorkSubscribed /\ MailsSubscribed /\ WorkEntitled /\ FormerEntitled

SystemInv == DeliveryInv /\ DueInv /\ Theorems!IInv /\ LinkInv

LEMMA NextLinkInv ==
    ASSUME SystemInv, [Next]_vars
    PROVE  LinkInv'
<1> USE DEF SystemInv, LinkInv
<1>1. WorkSubscribed'
  BY WorkStep
<1>2. MailsSubscribed'
  <2> SUFFICES ASSUME NEW s \in Channel \X Email, mails'[s] # <<>>
               PROVE  subscriptions'[s] # None
    BY DEF MailsSubscribed
  <2>0. /\ mails \in [Channel \X Email -> Seq(1 .. MaxMessages)]
        /\ subscriptions \in [Channel \X Email -> Identity \cup {None}]
    BY DEF DeliveryInv, TypeOK
  <2>1. CASE UNCHANGED <<mails, verified, subscriptions>>
    BY <2>1 DEF MailsSubscribed
  <2>2. CASE \E c \in Channel, e \in Email, i \in Identity :
               /\ subscriptions' = [subscriptions EXCEPT ![<<c, e>>] = i]
               /\ UNCHANGED <<mails, verified>>
    BY <2>0, <2>2, NoneAssumption DEF MailsSubscribed
  <2>3. CASE UNCHANGED <<mails, subscriptions>>
    BY <2>3 DEF MailsSubscribed
  <2>4. ASSUME NEW w \in Worker, NEW c \in Channel, NEW e \in Email,
               subscriptions[<<c, e>>] # None, UNCHANGED subscriptions,
               mails' = [mails EXCEPT ![<<c, e>>] = Append(mails[<<c, e>>], first[w][c])]
        PROVE  subscriptions'[s] # None
    BY <2>0, <2>4 DEF MailsSubscribed
  <2> QED BY <2>1, <2>2, <2>3, <2>4, MailStep
<1>3. WorkEntitled'
  <2> SUFFICES ASSUME NEW w \in Worker, NEW s \in work'[w]
               PROVE  s.channel \in Contexts[s.identity]
    BY DEF WorkEntitled
  <2>1. /\ s \in Subscription
        /\ \/ s \in work[w]
           \/ s.identity \in {subscriptions[<<s.channel, s.email>>]}
                              \cup replaced[<<s.channel, s.email>>]
    BY WorkRead
  <2>2. CASE subscriptions[<<s.channel, s.email>>] = s.identity
    BY <2>1, <2>2, NoneAssumption
       DEF Theorems!IInv, Theorems!AuthorisedSubscriptions, Subscription
  <2>3. CASE s.identity \in replaced[<<s.channel, s.email>>]
    BY <2>1, <2>3, NoneAssumption DEF FormerEntitled, Subscription
  <2> QED BY <2>1, <2>2, <2>3 DEF WorkEntitled
<1>4. FormerEntitled'
  <2> SUFFICES ASSUME NEW t \in Channel \X Email, NEW i \in replaced'[t], i # None
               PROVE  t[1] \in Contexts[i]
    BY DEF FormerEntitled
  <2>1. i \in replaced[t] \/ i = subscriptions[t]
    BY RowStep
  <2>2. CASE i = subscriptions[t]
    <3>1. t[1] \in Channel /\ t[2] \in Email /\ t = <<t[1], t[2]>>
      OBVIOUS
    <3> QED BY <2>2, <3>1 DEF Theorems!IInv, Theorems!AuthorisedSubscriptions
  <2> QED BY <2>1, <2>2 DEF FormerEntitled
<1> QED BY <1>1, <1>2, <1>3, <1>4

\* The inductive invariant of the system: those of the components, and what the
\* mails and the invocations have in common with the tables.
THEOREM SystemInvariance == SystemSpec => []SystemInv
<1>1. SystemInit => SystemInv
  <2>1. SystemInit => DeliveryInv /\ DueInv
    BY InitDeliveryInv, InitDueInv DEF SystemInit
  <2>2. SystemInit => Theorems!IInv
    BY SameInit, Theorems!InitIInv, EnrolmentAssumption, BoundsAssumption DEF SystemInit
  <2>3. SystemInit => LinkInv
    BY DEF SystemInit, Init, LinkInv, WorkSubscribed, MailsSubscribed, WorkEntitled,
       FormerEntitled
  <2> QED BY <2>1, <2>2, <2>3 DEF SystemInv
<1>2. SystemInv /\ [SystemNext]_systemVars => SystemInv'
  <2> SUFFICES ASSUME SystemInv, [SystemNext]_systemVars PROVE SystemInv'
    OBVIOUS
  <2>1. [Next]_vars
    BY SenderTakesStep DEF systemVars
  <2>2. Theorems!Next \/ UNCHANGED Theorems!vars
    <3>1. CASE SystemNext
      <4>1. UNCHANGED Enrolment!vars => UNCHANGED Theorems!vars
        BY DEF Enrolment!vars, Theorems!vars, Enrolment!failures, Theorems!failures
      <4> QED BY <3>1, <4>1, EnrolmentTakesStep, SameNext
    <3>2. CASE UNCHANGED systemVars
      BY <3>2 DEF systemVars, vars, environment, enrolVars, Theorems!vars,
         Theorems!failures
    <3> QED BY <3>1, <3>2
  <2>3. Theorems!IInv'
    BY <2>2, Theorems!NextIInv, EnrolmentAssumption, BoundsAssumption DEF SystemInv
  <2>4. DeliveryInv' /\ DueInv'
    BY <2>1, NextDeliveryInv, NextDueInv DEF SystemInv
  <2> QED BY <2>1, <2>3, <2>4, NextLinkInv DEF SystemInv
<1> QED BY <1>1, <1>2, PTL DEF SystemSpec

-----------------------------------------------------------------------------
(* The theorems                                                            *)

\* From the request to the mail: whoever is mailed has proven that he owns the
\* address, and is subscribed by a user who may use the channel.
THEOREM MailedAreEntitledAlways == SystemSpec => []MailedAreEntitled
<1>1. SystemInv => MailedAreEntitled
  <2> SUFFICES ASSUME SystemInv, NEW c \in Channel, NEW e \in Email,
                      mails[<<c, e>>] # <<>>
               PROVE  /\ code[e] \in mailbox[e]
                      /\ subscriptions[<<c, e>>] # None
                      /\ c \in Contexts[subscriptions[<<c, e>>]]
    BY DEF MailedAreEntitled, SystemInv, LinkInv, WorkEntitled
  <2>1. e \in verified
    BY DEF SystemInv, DeliveryInv, OnlyVerifiedAreMailed
  <2>2. code[e] \in mailbox[e]
    BY <2>1 DEF SystemInv, Theorems!IInv, Theorems!OwnershipProven
  <2>3. subscriptions[<<c, e>>] # None
    BY DEF SystemInv, LinkInv, MailsSubscribed
  <2> QED BY <2>2, <2>3 DEF SystemInv, Theorems!IInv, Theorems!AuthorisedSubscriptions
<1> QED BY <1>1, SystemInvariance, PTL

\* Who was told that an address is notified finds it subscribed and verified.
LEMMA ToldIsEnrolled ==
    ASSUME SystemInv, NEW c \in Channel, NEW e \in Email, Told(c, e)
    PROVE  e \in verified /\ subscriptions[<<c, e>>] \in Identity
<1>1. PICK r \in Request :
        /\ api[r].pc = "done" /\ api[r].channel = c /\ api[r].email = e
        /\ \/ api[r].emailVerified
           \/ \E a \in Attempt : attempts[a].pc = "done" /\ attempts[a].email = e
  BY DEF Told
<1>2. subscriptions[<<c, e>>] # None
  BY <1>1 DEF SystemInv, Theorems!IInv, Theorems!CallsInOrder
<1>3. e \in verified
  BY <1>1 DEF SystemInv, Theorems!IInv, Theorems!CallsInOrder, Theorems!AttemptsInOrder
<1> QED BY <1>2, <1>3 DEF SystemInv, DeliveryInv, TypeOK

\* Who relies on a mail about a message is due for it.
OwedAreDue == \A m \in Message : owed[m] \subseteq due[m]

\* A verified address stays verified.
LEMMA VerifiedGrows ==
    ASSUME SystemInv, [Next]_vars
    PROVE  verified \subseteq verified'
  BY MailStep DEF SystemInv, LinkInv

LEMMA NextOwedAreDue ==
    ASSUME SystemInv, OwedAreDue, SystemNext
    PROVE  OwedAreDue'
<1> SUFFICES ASSUME NEW m \in Message, NEW e \in owed'[m]
             PROVE  e \in due'[m]
  BY DEF OwedAreDue
<1>1. /\ DeliveryInv /\ [Next]_vars /\ due \in [Message -> SUBSET Email]
      /\ m[1] \in Channel /\ m[2] \in 1 .. MaxMessages /\ m = <<m[1], m[2]>>
      /\ enqueued[m[1]] \in 0 .. MaxMessages
  BY SenderTakesStep DEF SystemInv, DeliveryInv, TypeOK, Message
<1>2. \/ /\ enqueued[m[1]] < m[2] /\ m[2] <= enqueued'[m[1]]
         /\ e \in Email /\ Told(m[1], e) /\ Reachable(m[1], e)
      \/ /\ e \in owed[m] /\ Reachable(m[1], e)' /\ m[2] > deleted'[m[1]]
         /\ subscriptions'[<<m[1], e>>] = subscriptions[<<m[1], e>>]
  BY DEF SystemNext, Owe
\* The message is queued.
<1>3. CASE /\ enqueued[m[1]] < m[2] /\ m[2] <= enqueued'[m[1]]
           /\ e \in Email /\ Told(m[1], e) /\ Reachable(m[1], e)
  <2>1. enqueued'[m[1]] # enqueued[m[1]]
    BY <1>1, <1>3, BoundsAssumption
  <2>2. Enqueue(m[1])
    BY <1>1, <2>1, OnlyEnqueueCounts
  <2>3. m[2] = enqueued[m[1]] + 1
    <3>1. enqueued'[m[1]] = enqueued[m[1]] + 1
      BY <1>1, <2>2 DEF Enqueue, DeliveryInv, TypeOK
    <3> QED BY <1>1, <1>3, <3>1, BoundsAssumption
  <2>4. due'[m] = Eligible(m[1])
    BY <1>1, <2>2, <2>3 DEF Enqueue
  <2>5. e \in Eligible(m[1])
    BY <1>1, <1>3, ToldIsEnrolled DEF Reachable, Eligible, CaughtUp
  <2> QED BY <2>4, <2>5
\* The message waits.
<1>4. CASE /\ e \in owed[m] /\ Reachable(m[1], e)' /\ m[2] > deleted'[m[1]]
           /\ subscriptions'[<<m[1], e>>] = subscriptions[<<m[1], e>>]
  <2>1. e \in due[m]
    BY <1>4 DEF OwedAreDue
  <2>2. e \in Email /\ e \in verified
    BY <1>1, <2>1 DEF SystemInv, DueInv, DueAreEligible, Eligible, CaughtUp
  <2>3. e \in Eligible(m[1])'
    BY <1>1, <1>4, <2>2, VerifiedGrows DEF Reachable, Eligible, CaughtUp
  <2> QED BY <1>1, <1>4, <2>1, <2>3, DueKept
<1> QED BY <1>2, <1>3, <1>4

\* The sender keeps the promise of the mutations: from the reply to the mail, no
\* read of the sender loses who was told that he is notified and whose rows have
\* caught up.
THEOREM ToldAreMailedAlways == SystemSpec => ToldAreMailed
<1>1. SystemInit => OwedAreDue
  BY DEF SystemInit, OwedAreDue
<1>2. SystemInv /\ OwedAreDue /\ [SystemNext]_systemVars => OwedAreDue'
  <2>1. UNCHANGED systemVars => UNCHANGED <<owed, due>>
    BY DEF systemVars, vars
  <2> QED BY <2>1, NextOwedAreDue DEF OwedAreDue
<1>3. SystemInv /\ OwedAreDue /\ [SystemNext]_systemVars =>
        [ \A c \in Channel : deleted'[c] > deleted[c] =>
            \A e \in owed[<<c, deleted[c] + 1>>] :
              \/ <<c, deleted[c] + 1>> \in harmed'
              \/ Mailed(c, e, deleted[c] + 1) ]_systemVars
  <2> SUFFICES ASSUME SystemInv, OwedAreDue, SystemNext, NEW c \in Channel,
                      deleted'[c] > deleted[c], NEW e \in owed[<<c, deleted[c] + 1>>]
               PROVE  \/ <<c, deleted[c] + 1>> \in harmed'
                      \/ Mailed(c, e, deleted[c] + 1)
    OBVIOUS
  <2>1. DeliveryInv /\ DueInv /\ [Next]_vars /\ DeliveryInv'
    BY SenderTakesStep, NextDeliveryInv DEF SystemInv
  <2>2. deleted[c] \in 0 .. MaxMessages /\ deleted'[c] \in 0 .. MaxMessages
    BY <2>1 DEF DeliveryInv, TypeOK
  <2>3. <<c, deleted[c] + 1>> \in Message /\ deleted'[c] # deleted[c]
    BY <2>2, BoundsAssumption DEF Message
  <2>4. e \in due[<<c, deleted[c] + 1>>]
    BY <2>3 DEF OwedAreDue
  <2> QED BY <2>1, <2>3, <2>4, HeadDeletedIsMailed
<1> QED BY <1>1, <1>2, <1>3, SystemInvariance, PTL DEF SystemSpec, ToldAreMailed
=============================================================================
