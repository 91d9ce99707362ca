---------------------- MODULE ChannelSubscriptionProofs ---------------------
(***************************************************************************)
(* Theorems about ChannelSubscription, for every set of users, channels,   *)
(* addresses, codes, requests and attempts and every bound.  The           *)
(* invariants follow from IInv, which is proved one handler at a time: a   *)
(* handler disturbs few of its conjuncts, and the others only read         *)
(* variables the handler leaves alone.                                     *)
(***************************************************************************)
EXTENDS ChannelSubscription, TLAPS

USE DEF failures, Fault

LEMMA InitIInv == Init => IInv
<1> SUFFICES ASSUME Init PROVE IInv
  OBVIOUS
<1>0. blind \in BOOLEAN
  BY Zenon DEF Init
<1>1. TypeOK
  BY <1>0, BoundsAssumption DEF Init, TypeOK, ApiState, ConfirmState, AttemptState
<1>2. CodesDistinct /\ OneCodePerAddress /\ OwnershipProven
  BY DEF Init, CodesDistinct, OneCodePerAddress, OwnershipProven
<1>3. CallsInOrder /\ ConfirmationsInOrder /\ AttemptsInOrder
  BY DEF Init, CallsInOrder, ConfirmationsInOrder, AttemptsInOrder
<1>4. AuthorisedSubscriptions
  BY DEF Init, AuthorisedSubscriptions
<1> QED BY <1>1, <1>2, <1>3, <1>4 DEF IInv

-----------------------------------------------------------------------------
(* What the steps of a handler cannot disturb.                             *)

\* The verification of addresses only reads the verification table, the
\* mailboxes and the attempts.
LEMMA VerificationFrame ==
    ASSUME IInv, UNCHANGED <<code, verified, mailbox, attempts>>
    PROVE  CodesDistinct' /\ OneCodePerAddress' /\ OwnershipProven'
           /\ AttemptsInOrder'
  BY DEF IInv, CodesDistinct, OneCodePerAddress, OwnershipProven,
         AttemptsInOrder, MailedCode

\* The order of the calls only reads the subscriptions, the topic, the calls
\* and which addresses are verified, of which there are ever more.
LEMMA CallsFrame ==
    ASSUME IInv, UNCHANGED <<subscriptions, topic, api>>,
           verified \subseteq verified'
    PROVE  CallsInOrder' /\ AuthorisedSubscriptions'
  BY DEF IInv, CallsInOrder, AuthorisedSubscriptions

\* The order of the confirmations only reads them, the topic, the code table
\* and the address of each call.
LEMMA ConfirmationsFrame ==
    ASSUME IInv, UNCHANGED <<confirm, code>>, topic \subseteq topic',
           \A r \in topic : api'[r].email = api[r].email
    PROVE  ConfirmationsInOrder'
  BY DEF IInv, ConfirmationsInOrder, EmailOf

-----------------------------------------------------------------------------
(* enableChannelNotifications                                              *)

\* A row written by a call of the mutation is authorised, and no call that
\* relies on a row finds it gone.
LEMMA PutSubscriptionKeeps ==
    ASSUME IInv, NEW r \in Request, api[r].pc = "subscribe", PutSubscription(r)
    PROVE  /\ subscriptions' \in [Channel \X Email -> Identity \cup {None}]
           /\ subscriptions'[<<api[r].channel, api[r].email>>] # None
           /\ \A s \in Channel \X Email :
                subscriptions[s] # None => subscriptions'[s] # None
           /\ AuthorisedSubscriptions'
<1>1. /\ api[r].identity \in Identity /\ api[r].channel \in Channel
      /\ api[r].email \in Email /\ api[r].channel \in Contexts[api[r].identity]
  BY DEF IInv, CallsInOrder
<1>2. subscriptions \in [Channel \X Email -> Identity \cup {None}]
  BY DEF IInv, TypeOK
<1>3. AuthorisedSubscriptions'
  BY <1>1, <1>2 DEF PutSubscription, IInv, AuthorisedSubscriptions
<1> QED BY <1>1, <1>2, <1>3, NoneAssumption DEF PutSubscription

LEMMA EnableNotificationsIInv ==
    ASSUME IInv, NEW r \in Request, NEW i \in Identity, NEW c \in Channel,
           NEW e \in Email, NEW valid \in BOOLEAN,
           EnableNotifications(r, i, c, e, valid)
    PROVE  IInv'
<1>1. TypeOK'
  BY DEF EnableNotifications, IInv, TypeOK, ApiState
<1>2. CallsInOrder'
  BY DEF EnableNotifications, IInv, TypeOK, CallsInOrder
<1>3. r \notin topic /\ \A q \in Request \ {r} : api'[q] = api[q]
  BY DEF EnableNotifications, IInv, TypeOK, CallsInOrder
<1>4. ConfirmationsInOrder'
  BY <1>3, ConfirmationsFrame DEF EnableNotifications, IInv, TypeOK
<1>5. AuthorisedSubscriptions'
  BY DEF EnableNotifications, IInv, AuthorisedSubscriptions
<1> QED BY <1>1, <1>2, <1>4, <1>5, VerificationFrame
        DEF EnableNotifications, IInv

LEMMA SubscribeIInv ==
    ASSUME IInv, NEW r \in Request, Subscribe(r)
    PROVE  IInv'
<1>1. api' \in [Request -> ApiState] /\ api' = [api EXCEPT ![r].pc = "publish"]
  BY DEF Subscribe, IInv, TypeOK, ApiState
<1>2. TypeOK'
  BY <1>1, PutSubscriptionKeeps DEF Subscribe, IInv, TypeOK
<1>3. CallsInOrder'
  BY <1>1, PutSubscriptionKeeps DEF Subscribe, IInv, TypeOK, CallsInOrder
<1>4. ConfirmationsInOrder'
  BY <1>1, ConfirmationsFrame DEF Subscribe, IInv, TypeOK, ApiState
<1> QED BY <1>2, <1>3, <1>4, PutSubscriptionKeeps, VerificationFrame
        DEF Subscribe, IInv

LEMMA PublishIInv ==
    ASSUME IInv, NEW r \in Request, Publish(r)
    PROVE  IInv'
<1>1. TypeOK'
  BY DEF Publish, PublishEvent, IInv, TypeOK, ApiState
<1>2. CallsInOrder'
  BY DEF Publish, PublishEvent, IInv, TypeOK, ApiState, CallsInOrder
<1>3. ConfirmationsInOrder'
  BY ConfirmationsFrame DEF Publish, PublishEvent, IInv, TypeOK, ApiState
<1>4. AuthorisedSubscriptions'
  BY DEF Publish, IInv, AuthorisedSubscriptions
<1> QED BY <1>1, <1>2, <1>3, <1>4, VerificationFrame DEF Publish, IInv

LEMMA FindEmailIInv ==
    ASSUME IInv, NEW r \in Request, FindEmail(r)
    PROVE  IInv'
<1> PICK seen \in BOOLEAN :
      /\ seen => api[r].email \in verified
      /\ api' = [api EXCEPT ![r].pc = "done", ![r].emailVerified = seen]
  BY DEF FindEmail
<1>1. TypeOK'
  <2>1. api[r] \in ApiState
    BY DEF IInv, TypeOK
  <2>2. [api[r] EXCEPT !.pc = "done", !.emailVerified = seen] \in ApiState
    BY <2>1 DEF ApiState
  <2>3. api' \in [Request -> ApiState]
    BY <2>2 DEF IInv, TypeOK
  <2> QED BY <2>3 DEF FindEmail, IInv, TypeOK
<1>2. CallsInOrder'
  BY DEF FindEmail, IInv, TypeOK, ApiState, CallsInOrder
<1>3. ConfirmationsInOrder'
  BY ConfirmationsFrame DEF FindEmail, IInv, TypeOK, ApiState
<1>4. AuthorisedSubscriptions'
  BY DEF FindEmail, IInv, AuthorisedSubscriptions
<1> QED BY <1>1, <1>2, <1>3, <1>4, VerificationFrame DEF FindEmail, IInv

LEMMA ApiFaultIInv ==
    ASSUME IInv, NEW r \in Request, ApiFault(r)
    PROVE  IInv'
<1>1. /\ api' \in [Request -> ApiState]
      /\ api' = [api EXCEPT ![r].pc = "failed"]
      /\ topic' \subseteq Request /\ topic \subseteq topic'
      /\ topic' \subseteq topic \cup {r}
      /\ faults' \in 0 .. MaxFaults
  <2>1. api' \in [Request -> ApiState] /\ api' = [api EXCEPT ![r].pc = "failed"]
    BY DEF ApiFault, IInv, TypeOK, ApiState
  <2>2. topic' = topic \/ topic' = topic \cup {r}
    BY DEF ApiFault, PublishEvent
  <2>3. faults' \in 0 .. MaxFaults
    BY BoundsAssumption DEF ApiFault, IInv, TypeOK
  <2> QED BY <2>1, <2>2, <2>3 DEF IInv, TypeOK
<1>2. /\ subscriptions' \in [Channel \X Email -> Identity \cup {None}]
      /\ \A s \in Channel \X Email :
           subscriptions[s] # None => subscriptions'[s] # None
      /\ AuthorisedSubscriptions'
  <2>1. CASE UNCHANGED subscriptions
    BY <2>1 DEF IInv, TypeOK, AuthorisedSubscriptions
  <2>2. CASE api[r].pc = "subscribe" /\ PutSubscription(r)
    BY <2>2, PutSubscriptionKeeps
  <2> QED BY <2>1, <2>2 DEF ApiFault
<1>3. TypeOK'
  BY <1>1, <1>2 DEF ApiFault, IInv, TypeOK
<1>4. CallsInOrder'
  BY <1>1, <1>2 DEF ApiFault, IInv, TypeOK, ApiState, CallsInOrder
<1>5. ConfirmationsInOrder'
  BY <1>1, ConfirmationsFrame DEF ApiFault, IInv, TypeOK, ApiState
<1> QED BY <1>2, <1>3, <1>4, <1>5, VerificationFrame DEF ApiFault, IInv

-----------------------------------------------------------------------------
(* sendEmailConfirmationCode                                               *)

\* A code that is put into an empty row is new: no mail and no verification
\* depends on the row.
LEMMA PutCodeKeeps ==
    ASSUME IInv, NEW e \in Email, NEW c \in FreshCode, PutCode(e, c)
    PROVE  /\ code' \in [Email -> Code \cup {None}] /\ code'[e] = c
           /\ \A f \in Email : code[f] # None => code'[f] = code[f]
           /\ CodesDistinct'
           /\ UNCHANGED mailbox => OneCodePerAddress' /\ OwnershipProven'
<1>1. /\ code \in [Email -> Code \cup {None}]
      /\ mailbox \in [Email -> SUBSET Code] /\ verified \subseteq Email
      /\ None \notin Code
  BY NoneAssumption DEF IInv, TypeOK
<1>2. /\ code[e] = None /\ code' = [code EXCEPT ![e] = c]
      /\ verified' = verified /\ c \in Code
      /\ \A f \in Email : code[f] # c
  BY DEF PutCode, RowExists, FreshCode
<1>3. CodesDistinct'
  BY <1>1, <1>2 DEF IInv, CodesDistinct
<1>4. mailbox[e] = {} /\ e \notin verified
  BY <1>1, <1>2 DEF IInv, OneCodePerAddress, OwnershipProven
<1>5. ASSUME UNCHANGED mailbox PROVE OneCodePerAddress' /\ OwnershipProven'
  BY <1>1, <1>2, <1>4, <1>5 DEF IInv, OneCodePerAddress, OwnershipProven
<1> QED BY <1>1, <1>2, <1>3, <1>5

\* Mailing the code on record keeps one code per address.
LEMMA MailCodeKeeps ==
    ASSUME IInv, NEW e \in Email, code[e] # None, MailCode(e, code[e]),
           UNCHANGED <<code, verified, attempts>>
    PROVE  /\ mailbox' \in [Email -> SUBSET Code]
           /\ OneCodePerAddress' /\ OwnershipProven' /\ AttemptsInOrder'
<1>1. /\ code \in [Email -> Code \cup {None}]
      /\ mailbox \in [Email -> SUBSET Code] /\ verified \subseteq Email
  BY DEF IInv, TypeOK
<1>2. mailbox' \in [Email -> SUBSET Code]
      /\ \A f \in Email : mailbox[f] \subseteq mailbox'[f]
  BY <1>1 DEF MailCode
<1>3. OneCodePerAddress'
  BY <1>1 DEF MailCode, IInv, OneCodePerAddress
<1>4. OwnershipProven'
  BY <1>1, <1>2 DEF IInv, OwnershipProven
<1>5. AttemptsInOrder'
  BY <1>2 DEF IInv, AttemptsInOrder, MailedCode
<1> QED BY <1>2, <1>3, <1>4, <1>5

\* The address a delivered event asks to confirm.
LEMMA DeliveredEmail ==
    ASSUME IInv, NEW d \in Delivery, confirm[d].pc # "idle"
    PROVE  d[1] \in topic /\ EmailOf(d) \in Email
<1>1. d[1] \in topic /\ d[1] \in Request
  BY DEF IInv, ConfirmationsInOrder, Delivery
<1> QED BY <1>1 DEF IInv, CallsInOrder, EmailOf

LEMMA DeliverIInv ==
    ASSUME IInv, NEW d \in Delivery, Deliver(d)
    PROVE  IInv'
<1>1. TypeOK'
  BY DEF Deliver, IInv, TypeOK, ConfirmState
<1>2. ConfirmationsInOrder'
  BY DEF Deliver, IInv, TypeOK, ConfirmState, ConfirmationsInOrder, EmailOf
<1> QED BY <1>1, <1>2, VerificationFrame, CallsFrame DEF Deliver, IInv

LEMMA StoreCodeIInv ==
    ASSUME IInv, NEW d \in Delivery, StoreCode(d)
    PROVE  IInv'
<1> PICK c \in FreshCode :
      /\ PutCode(EmailOf(d), c)
      /\ confirm' = [confirm EXCEPT ![d] = [pc |-> "send", code |-> c]]
  BY DEF StoreCode
<1>1. EmailOf(d) \in Email /\ d[1] \in topic /\ c \in Code
  BY DeliveredEmail DEF StoreCode, FreshCode
<1>2. /\ code' \in [Email -> Code \cup {None}] /\ code'[EmailOf(d)] = c
      /\ \A f \in Email : code[f] # None => code'[f] = code[f]
      /\ CodesDistinct' /\ OneCodePerAddress' /\ OwnershipProven'
  BY <1>1, PutCodeKeeps DEF StoreCode
<1>3. verified' = verified
  BY DEF PutCode
<1>4. confirm' \in [Delivery -> ConfirmState]
  BY <1>1 DEF IInv, TypeOK, ConfirmState
<1>5. TypeOK'
  BY <1>2, <1>3, <1>4 DEF StoreCode, IInv, TypeOK
<1>6. ConfirmationsInOrder'
  <2> SUFFICES ASSUME NEW q \in Delivery
               PROVE  /\ confirm'[q].pc # "idle" => q[1] \in topic
                      /\ confirm'[q].pc = "send" =>
                           /\ confirm'[q].code # None
                           /\ confirm'[q].code = code'[EmailOf(q)]
    BY DEF ConfirmationsInOrder, EmailOf, StoreCode
  <2>1. CASE q = d
    BY <1>1, <1>2, <2>1, NoneAssumption DEF IInv, TypeOK
  <2>2. CASE q # d
    <3>1. confirm'[q] = confirm[q]
      BY <2>2 DEF IInv, TypeOK
    <3>2. confirm[q].pc # "idle" => EmailOf(q) \in Email
      BY DeliveredEmail
    <3> QED BY <1>2, <3>1, <3>2 DEF IInv, ConfirmationsInOrder
  <2> QED BY <2>1, <2>2
<1>7. AttemptsInOrder'
  BY <1>3 DEF StoreCode, IInv, AttemptsInOrder, MailedCode
<1> QED BY <1>2, <1>3, <1>5, <1>6, <1>7, CallsFrame DEF StoreCode, IInv

LEMMA ConflictIInv ==
    ASSUME IInv, NEW d \in Delivery, Conflict(d)
    PROVE  IInv'
<1>1. TypeOK'
  BY DEF Conflict, IInv, TypeOK, ConfirmState
<1>2. ConfirmationsInOrder'
  BY DEF Conflict, IInv, TypeOK, ConfirmState, ConfirmationsInOrder, EmailOf
<1> QED BY <1>1, <1>2, VerificationFrame, CallsFrame DEF Conflict, IInv

LEMMA SendCodeIInv ==
    ASSUME IInv, NEW d \in Delivery, SendCode(d)
    PROVE  IInv'
<1>1. /\ EmailOf(d) \in Email /\ code[EmailOf(d)] # None
      /\ MailCode(EmailOf(d), code[EmailOf(d)])
  BY DeliveredEmail DEF SendCode, IInv, ConfirmationsInOrder
<1>2. /\ mailbox' \in [Email -> SUBSET Code]
      /\ OneCodePerAddress' /\ OwnershipProven' /\ AttemptsInOrder'
  BY <1>1, MailCodeKeeps DEF SendCode
<1>3. TypeOK'
  BY <1>2 DEF SendCode, IInv, TypeOK, ConfirmState
<1>4. CodesDistinct'
  BY DEF SendCode, IInv, CodesDistinct
<1>5. ConfirmationsInOrder'
  BY DEF SendCode, IInv, TypeOK, ConfirmState, ConfirmationsInOrder, EmailOf
<1> QED BY <1>2, <1>3, <1>4, <1>5, CallsFrame DEF SendCode, IInv

\* An invocation without settings ends before it makes a call.
LEMMA WithoutSettingsIInv ==
    ASSUME IInv, NEW d \in Delivery, SettingsFault(d) \/ ReturnBlind(d)
    PROVE  IInv'
<1> USE DEF SettingsFault, ReturnBlind, ConfirmationFails
<1>1. EmailOf(d) \in Email
  BY DeliveredEmail
<1>2. confirm' \in [Delivery -> ConfirmState]
  BY DEF IInv, TypeOK, ConfirmState
<1>3. faults' \in 0 .. MaxFaults
  BY BoundsAssumption DEF IInv, TypeOK
<1>4. TypeOK'
  BY <1>1, <1>2, <1>3 DEF IInv, TypeOK
<1>5. ConfirmationsInOrder'
  BY DEF IInv, TypeOK, ConfirmState, ConfirmationsInOrder, EmailOf
<1> QED BY <1>4, <1>5, VerificationFrame, CallsFrame DEF IInv

LEMMA ConfirmationFaultIInv ==
    ASSUME IInv, NEW d \in Delivery, ConfirmationFault(d)
    PROVE  IInv'
<1>1. EmailOf(d) \in Email
  BY DeliveredEmail DEF ConfirmationFault
<1>2. /\ confirm' \in [Delivery -> ConfirmState]
      /\ confirm' = [confirm EXCEPT ![d].pc = "done"]
  BY DEF ConfirmationFault, ConfirmationFails, IInv, TypeOK, ConfirmState
<1>3. faults' \in 0 .. MaxFaults /\ harmed' \subseteq Email
  BY <1>1, BoundsAssumption DEF ConfirmationFault, ConfirmationFails, IInv, TypeOK
<1>4. /\ code' \in [Email -> Code \cup {None}]
      /\ mailbox' \in [Email -> SUBSET Code] /\ verified' = verified
      /\ \A f \in Email : code[f] # None => code'[f] = code[f]
      /\ CodesDistinct' /\ OneCodePerAddress' /\ OwnershipProven'
      /\ AttemptsInOrder'
  <2>1. CASE UNCHANGED <<code, verified, mailbox>>
    BY <2>1, VerificationFrame DEF ConfirmationFault, IInv, TypeOK
  <2>2. CASE /\ confirm[d].pc = "put"
             /\ \E c \in FreshCode : PutCode(EmailOf(d), c)
             /\ UNCHANGED mailbox
    <3>1. /\ code' \in [Email -> Code \cup {None}]
          /\ \A f \in Email : code[f] # None => code'[f] = code[f]
          /\ CodesDistinct' /\ OneCodePerAddress' /\ OwnershipProven'
      BY <1>1, <2>2, PutCodeKeeps
    <3>2. verified' = verified
      BY <2>2 DEF PutCode
    <3>3. AttemptsInOrder'
      BY <2>2, <3>2 DEF ConfirmationFault, IInv, AttemptsInOrder, MailedCode
    <3> QED BY <2>2, <3>1, <3>2, <3>3 DEF IInv, TypeOK
  <2>3. CASE /\ confirm[d].pc = "send"
             /\ MailCode(EmailOf(d), confirm[d].code)
             /\ UNCHANGED <<code, verified>>
    <3>1. confirm[d].code = code[EmailOf(d)] /\ code[EmailOf(d)] # None
      BY <2>3 DEF IInv, ConfirmationsInOrder
    <3>2. /\ mailbox' \in [Email -> SUBSET Code]
          /\ OneCodePerAddress' /\ OwnershipProven' /\ AttemptsInOrder'
      BY <1>1, <2>3, <3>1, MailCodeKeeps DEF ConfirmationFault
    <3>3. CodesDistinct'
      BY <2>3 DEF IInv, CodesDistinct
    <3> QED BY <2>3, <3>2, <3>3 DEF IInv, TypeOK
  <2> QED BY <2>1, <2>2, <2>3 DEF ConfirmationFault
<1>5. TypeOK'
  BY <1>2, <1>3, <1>4 DEF ConfirmationFault, IInv, TypeOK
<1>6. ConfirmationsInOrder'
  <2> SUFFICES ASSUME NEW q \in Delivery
               PROVE  /\ confirm'[q].pc # "idle" => q[1] \in topic
                      /\ confirm'[q].pc = "send" =>
                           /\ confirm'[q].code # None
                           /\ confirm'[q].code = code'[EmailOf(q)]
    BY DEF ConfirmationsInOrder, EmailOf, ConfirmationFault
  <2>1. CASE q = d
    BY <1>2, <2>1, DeliveredEmail DEF ConfirmationFault, IInv, TypeOK, ConfirmState
  <2>2. CASE q # d
    <3>1. confirm'[q] = confirm[q]
      BY <1>2, <2>2 DEF IInv, TypeOK
    <3>2. confirm[q].pc # "idle" => EmailOf(q) \in Email
      BY DeliveredEmail
    <3> QED BY <1>4, <3>1, <3>2 DEF IInv, ConfirmationsInOrder
  <2> QED BY <2>1, <2>2
<1> QED BY <1>4, <1>5, <1>6, CallsFrame DEF ConfirmationFault, IInv

-----------------------------------------------------------------------------
(* verifyEmail                                                             *)

LEMMA VerifyEmailIInv ==
    ASSUME IInv, NEW a \in Attempt, NEW e \in Email, NEW c \in MailedCode,
           VerifyEmail(a, e, c)
    PROVE  IInv'
<1>1. c \in Code
  BY DEF MailedCode, IInv, TypeOK
<1>2. TypeOK'
  BY <1>1 DEF VerifyEmail, IInv, TypeOK, AttemptState
<1>3. AttemptsInOrder'
  BY DEF VerifyEmail, IInv, TypeOK, AttemptState, AttemptsInOrder, MailedCode
<1>4. CodesDistinct' /\ OneCodePerAddress' /\ OwnershipProven'
  BY DEF VerifyEmail, IInv, CodesDistinct, OneCodePerAddress, OwnershipProven
<1> QED BY <1>2, <1>3, <1>4, CallsFrame, ConfirmationsFrame
        DEF VerifyEmail, IInv

\* A quoted code that matches the one on record was mailed to the address it
\* is quoted for: no other address has the code.
LEMMA MatchingCodeWasMailed ==
    ASSUME IInv, NEW a \in Attempt, attempts[a].pc = "update", CodeMatches(a)
    PROVE  /\ attempts[a].email \in Email
           /\ code[attempts[a].email] \in mailbox[attempts[a].email]
<1>1. attempts[a].email \in Email /\ attempts[a].code \in MailedCode
  BY DEF IInv, AttemptsInOrder
<1>2. PICK e \in Email : attempts[a].code \in mailbox[e]
  BY <1>1 DEF MailedCode
<1>3. attempts[a].code = code[e] /\ attempts[a].code # None
  BY <1>2, NoneAssumption DEF IInv, TypeOK, OneCodePerAddress
<1>4. attempts[a].email = e
  BY <1>1, <1>3 DEF CodeMatches, IInv, CodesDistinct
<1> QED BY <1>1, <1>2, <1>4 DEF CodeMatches

LEMMA AcceptCodeIInv ==
    ASSUME IInv, NEW a \in Attempt, AcceptCode(a)
    PROVE  IInv'
<1>1. /\ attempts[a].email \in Email
      /\ code[attempts[a].email] \in mailbox[attempts[a].email]
  BY MatchingCodeWasMailed DEF AcceptCode
<1>2. TypeOK'
  BY <1>1 DEF AcceptCode, SetVerified, IInv, TypeOK, AttemptState
<1>3. AttemptsInOrder'
  BY DEF AcceptCode, SetVerified, IInv, TypeOK, AttemptState, AttemptsInOrder,
         MailedCode
<1>4. CodesDistinct' /\ OneCodePerAddress' /\ OwnershipProven'
  BY <1>1 DEF AcceptCode, SetVerified, IInv, CodesDistinct, OneCodePerAddress,
              OwnershipProven
<1>5. verified \subseteq verified'
  BY DEF AcceptCode, SetVerified
<1> QED BY <1>2, <1>3, <1>4, <1>5, CallsFrame, ConfirmationsFrame
        DEF AcceptCode, IInv

\* Rejecting a code and publishing EmailVerified only end an attempt.
LEMMA EndAttemptIInv ==
    ASSUME IInv, NEW a \in Attempt, RejectCode(a) \/ PublishVerified(a)
    PROVE  IInv'
<1>1. TypeOK'
  BY DEF RejectCode, PublishVerified, IInv, TypeOK, AttemptState
<1>2. AttemptsInOrder'
  BY DEF RejectCode, PublishVerified, IInv, TypeOK, AttemptState,
         AttemptsInOrder, MailedCode
<1>3. CodesDistinct' /\ OneCodePerAddress' /\ OwnershipProven'
  BY DEF RejectCode, PublishVerified, IInv, CodesDistinct, OneCodePerAddress,
         OwnershipProven
<1> QED BY <1>1, <1>2, <1>3, CallsFrame, ConfirmationsFrame
        DEF RejectCode, PublishVerified, IInv

LEMMA VerifyFaultIInv ==
    ASSUME IInv, NEW a \in Attempt, VerifyFault(a)
    PROVE  IInv'
<1>1. /\ verified' \subseteq Email /\ verified \subseteq verified'
      /\ OwnershipProven'
  <2>1. CASE UNCHANGED verified
    BY <2>1 DEF VerifyFault, IInv, TypeOK, OwnershipProven
  <2>2. CASE attempts[a].pc = "update" /\ CodeMatches(a) /\ SetVerified(a)
    BY <2>2, MatchingCodeWasMailed
       DEF VerifyFault, SetVerified, IInv, TypeOK, OwnershipProven
  <2> QED BY <2>1, <2>2 DEF VerifyFault
<1>2. attempts' \in [Attempt -> AttemptState] /\ faults' \in 0 .. MaxFaults
  <2>1. attempts' \in [Attempt -> AttemptState]
    BY DEF VerifyFault, IInv, TypeOK, AttemptState
  <2>2. faults' \in 0 .. MaxFaults
    BY BoundsAssumption DEF VerifyFault, IInv, TypeOK
  <2> QED BY <2>1, <2>2
<1>3. TypeOK'
  BY <1>1, <1>2 DEF VerifyFault, IInv, TypeOK
<1>4. AttemptsInOrder'
  BY <1>1 DEF VerifyFault, IInv, TypeOK, AttemptState, AttemptsInOrder, MailedCode
<1>5. CodesDistinct' /\ OneCodePerAddress'
  BY DEF VerifyFault, IInv, CodesDistinct, OneCodePerAddress
<1> QED BY <1>1, <1>3, <1>4, <1>5, CallsFrame, ConfirmationsFrame
        DEF VerifyFault, IInv

-----------------------------------------------------------------------------
(* The theorems                                                            *)

LEMMA NextIInv == IInv /\ [Next]_vars => IInv'
<1> SUFFICES ASSUME IInv, [Next]_vars PROVE IInv'
  OBVIOUS
<1>1. ASSUME NEW r \in Request, NEW i \in Identity, NEW c \in Channel,
             NEW e \in Email, NEW valid \in BOOLEAN,
             EnableNotifications(r, i, c, e, valid)
      PROVE  IInv'
  BY <1>1, EnableNotificationsIInv
<1>2. ASSUME NEW r \in Request, ApiStep(r) \/ ApiFault(r) PROVE IInv'
  BY <1>2, SubscribeIInv, PublishIInv, FindEmailIInv, ApiFaultIInv DEF ApiStep
<1>3. ASSUME NEW d \in Delivery, Deliver(d) \/ ConfirmStep(d) \/ ConfirmStepFault(d)
      PROVE  IInv'
  BY <1>3, DeliverIInv, StoreCodeIInv, ConflictIInv, SendCodeIInv,
     WithoutSettingsIInv, ConfirmationFaultIInv DEF ConfirmStep, ConfirmStepFault
<1>4. ASSUME NEW a \in Attempt, NEW e \in Email, NEW c \in MailedCode,
             VerifyEmail(a, e, c)
      PROVE  IInv'
  BY <1>4, VerifyEmailIInv
<1>5. ASSUME NEW a \in Attempt, AttemptStep(a) \/ VerifyFault(a) PROVE IInv'
  BY <1>5, AcceptCodeIInv, EndAttemptIInv, VerifyFaultIInv DEF AttemptStep
<1>6. CASE UNCHANGED vars
  <2>1. TypeOK'
    BY <1>6 DEF vars, IInv, TypeOK
  <2> QED BY <1>6, <2>1, VerificationFrame, CallsFrame, ConfirmationsFrame
          DEF vars, IInv
<1> QED BY <1>1, <1>2, <1>3, <1>4, <1>5, <1>6 DEF Next

\* The inductive invariant holds in every reachable state.
THEOREM Invariance == Spec => []IInv
  BY InitIInv, NextIInv, PTL DEF Spec

\* The tables, the topic and the invocations are well typed.
THEOREM TypeCorrectness == Spec => []TypeOK
<1>1. IInv => TypeOK
  BY DEF IInv
<1> QED BY <1>1, Invariance, PTL

\* Every code mailed to an address is the one verifyEmail accepts.
THEOREM OneCodePerAddressHolds == Spec => []OneCodePerAddress
<1>1. IInv => OneCodePerAddress
  BY DEF IInv
<1> QED BY <1>1, Invariance, PTL

\* An address is verified only if its code was mailed to it.
THEOREM OwnershipProvenHolds == Spec => []OwnershipProven
<1>1. IInv => OwnershipProven
  BY DEF IInv
<1> QED BY <1>1, Invariance, PTL

\* What the mutations reported as done is, and stays, in the tables.
THEOREM RepliesHoldAlways == Spec => []RepliesHold
<1>1. IInv => RepliesHold
  BY DEF IInv, CallsInOrder, AttemptsInOrder, RepliesHold
<1> QED BY <1>1, Invariance, PTL

\* Every stored subscription is one its user's token allows.
THEOREM AuthorisedSubscriptionsHold == Spec => []AuthorisedSubscriptions
<1>1. IInv => AuthorisedSubscriptions
  BY DEF IInv
<1> QED BY <1>1, Invariance, PTL

-----------------------------------------------------------------------------
(* No confirmation ends without the mail: who has stored the code of an     *)
(* address is responsible for it, and whoever ends before him leaves it to  *)
(* him.                                                                     *)

\* The calls of the mutations and the attempts to verify change neither the
\* confirmations nor what they are about.
LEMMA MailFrame ==
    ASSUME MailInv, UNCHANGED <<code, mailbox, confirm, harmed>>,
           \A d \in Delivery : confirm[d].pc # "idle" => EmailOf(d)' = EmailOf(d)
    PROVE  MailInv'
<1>1. \A e : BeingMailed(e) => BeingMailed(e)'
  BY DEF BeingMailed
<1>2. RowsMailed'
  BY <1>1 DEF MailInv, RowsMailed, RowExists
<1>3. EndedHaveRow'
  BY DEF MailInv, EndedHaveRow, RowExists
<1> QED BY <1>2, <1>3 DEF MailInv

\* A confirmation that takes a step has its address mailed in the end, or has
\* failed, and does not disturb those of other addresses.
LEMMA ConfirmationStepMail ==
    ASSUME IInv, MailInv, NEW d \in Delivery,
           Deliver(d) \/ ConfirmStep(d) \/ ConfirmStepFault(d)
    PROVE  MailInv'
<1> PICK e : e = EmailOf(d)
  OBVIOUS
<1>1. /\ \A q \in Delivery : EmailOf(q)' = EmailOf(q)
      /\ \A q \in Delivery \ {d} : confirm'[q] = confirm[q]
      /\ harmed \subseteq harmed'
  BY DEF Deliver, ConfirmStep, ConfirmStepFault, StoreCode, Conflict, SendCode,
         SettingsFault, ReturnBlind, ConfirmationFault, ConfirmationFails, EmailOf,
         IInv, TypeOK
<1>2. /\ \A f \in Email : mailbox[f] # {} => mailbox'[f] # {}
      /\ \A f \in Email \ {e} : code'[f] = code[f]
      /\ \A f \in Email : code[f] # None => code'[f] # None
  <2>1. CASE UNCHANGED <<code, mailbox>>
    BY <2>1
  <2>2. CASE confirm[d].pc = "put" /\ UNCHANGED mailbox
             /\ \E c \in FreshCode : PutCode(EmailOf(d), c)
    BY <2>2, NoneAssumption DEF PutCode, FreshCode, IInv, TypeOK
  <2>3. CASE MailCode(EmailOf(d), confirm[d].code) /\ UNCHANGED code
    BY <2>3 DEF MailCode, IInv, TypeOK
  <2> QED BY <2>1, <2>2, <2>3
          DEF Deliver, ConfirmStep, ConfirmStepFault, StoreCode, Conflict, SendCode,
              SettingsFault, ReturnBlind, ConfirmationFault
<1>3. ASSUME NEW f \in Email, f # e, BeingMailed(f) PROVE BeingMailed(f)'
  BY <1>1, <1>3 DEF BeingMailed
<1>4. \A f \in Email \ {e} : RowExists(f)' => \/ mailbox'[f] # {} \/ BeingMailed(f)'
                                             \/ f \in harmed'
  BY <1>1, <1>2, <1>3 DEF MailInv, RowsMailed, RowExists
<1>5. /\ e \in Email /\ RowExists(e)' =>
            mailbox'[e] # {} \/ BeingMailed(e)' \/ e \in harmed'
      /\ confirm'[d].pc = "done" => RowExists(e)' \/ e \in harmed'
  <2>1. CASE Deliver(d) \/ Conflict(d)
    <3>1. /\ UNCHANGED <<code, mailbox>>
          /\ BeingMailed(e) => BeingMailed(e)'
          /\ confirm'[d].pc = "done" => RowExists(e)
      BY <1>1, <2>1 DEF Deliver, Conflict, BeingMailed, IInv, TypeOK, ConfirmState
    <3> QED BY <1>1, <3>1 DEF MailInv, RowsMailed, RowExists
  <2>2. CASE StoreCode(d)
    <3>1. confirm'[d].pc = "send"
      BY <2>2 DEF StoreCode, IInv, TypeOK
    <3> QED BY <1>1, <3>1 DEF BeingMailed
  <2>3. CASE SendCode(d)
    <3>1. e \in Email /\ code[e] # None
      BY <2>3, DeliveredEmail DEF SendCode, IInv, ConfirmationsInOrder
    <3>2. mailbox'[e] # {} /\ code' = code
      BY <2>3, <3>1 DEF SendCode, MailCode, IInv, TypeOK
    <3> QED BY <3>1, <3>2 DEF RowExists
  <2>4. CASE ReturnBlind(d) \/ ConfirmStepFault(d)
    BY <2>4 DEF ReturnBlind, ConfirmStepFault, SettingsFault, ConfirmationFault,
                ConfirmationFails
  <2> QED BY <2>1, <2>2, <2>3, <2>4 DEF ConfirmStep
<1>6. RowsMailed'
  BY <1>4, <1>5 DEF RowsMailed
<1>7. EndedHaveRow'
  <2> SUFFICES ASSUME NEW q \in Delivery, confirm'[q].pc = "done"
               PROVE  RowExists(EmailOf(q))' \/ EmailOf(q)' \in harmed'
    BY DEF EndedHaveRow
  <2>1. CASE q = d
    BY <1>1, <1>5, <2>1
  <2>2. CASE q # d
    <3>1. confirm[q].pc = "done" /\ EmailOf(q) \in Email
      BY <1>1, <2>2, DeliveredEmail
    <3>2. RowExists(EmailOf(q)) \/ EmailOf(q) \in harmed
      BY <3>1 DEF MailInv, EndedHaveRow
    <3> QED BY <1>1, <1>2, <3>1, <3>2 DEF RowExists
  <2> QED BY <2>1, <2>2
<1> QED BY <1>6, <1>7 DEF MailInv

LEMMA NextMailInv == IInv /\ MailInv /\ [Next]_vars => MailInv'
<1> SUFFICES ASSUME IInv, MailInv, [Next]_vars PROVE MailInv'
  OBVIOUS
<1>1. \A d \in Delivery : confirm[d].pc # "idle" => d[1] \in topic /\ d[1] \in Request
  BY DeliveredEmail DEF Delivery
<1>2. ASSUME NEW r \in Request, NEW i \in Identity, NEW c \in Channel,
             NEW e \in Email, NEW valid \in BOOLEAN,
             EnableNotifications(r, i, c, e, valid)
      PROVE  MailInv'
  <2>1. r \notin topic /\ \A q \in Request \ {r} : api'[q] = api[q]
    BY <1>2 DEF EnableNotifications, IInv, TypeOK, CallsInOrder
  <2> QED BY <1>1, <1>2, <2>1, MailFrame DEF EnableNotifications, EmailOf
<1>3. ASSUME NEW r \in Request, ApiStep(r) \/ ApiFault(r) PROVE MailInv'
  <2>1. \A q \in Request : api'[q].email = api[q].email
    BY <1>3 DEF ApiStep, Subscribe, Publish, FindEmail, ApiFault, IInv, TypeOK, ApiState
  <2>2. UNCHANGED <<code, mailbox, confirm, harmed>>
    BY <1>3 DEF ApiStep, Subscribe, Publish, FindEmail, ApiFault
  <2> QED BY <1>1, <2>1, <2>2, MailFrame DEF EmailOf
<1>4. ASSUME NEW a \in Attempt,
             \/ AttemptStep(a) \/ VerifyFault(a)
             \/ \E e \in Email, c \in MailedCode : VerifyEmail(a, e, c)
      PROVE  MailInv'
  BY <1>4, MailFrame
     DEF AttemptStep, AcceptCode, RejectCode, PublishVerified, VerifyFault, VerifyEmail,
         EmailOf
<1>5. CASE UNCHANGED vars
  BY <1>5, MailFrame DEF vars, EmailOf
<1> QED BY <1>2, <1>3, <1>4, <1>5, ConfirmationStepMail DEF Next

\* However the confirmations of an address overlap, none ends and leaves the
\* address without its mail, unless one of them failed.
THEOREM EndedAreMailedAlways == Spec => []EndedAreMailed
<1>1. Init => MailInv
  BY DEF Init, MailInv, RowsMailed, EndedHaveRow, RowExists
<1>2. IInv /\ MailInv => EndedAreMailed
  <2> SUFFICES ASSUME IInv, MailInv, NEW d \in Delivery, confirm[d].pc = "done"
               PROVE  \/ mailbox[EmailOf(d)] # {} \/ BeingMailed(EmailOf(d))
                      \/ EmailOf(d) \in harmed
    BY DEF EndedAreMailed
  <2> QED BY DeliveredEmail DEF MailInv, RowsMailed, EndedHaveRow
<1> QED BY <1>1, <1>2, Invariance, NextMailInv, PTL DEF Spec

-----------------------------------------------------------------------------
(* The pipeline implements the promise of the email verification.          *)

\* Every step issues a code, mails the code on record, verifies an address
\* whose code was mailed, or changes nothing of the three.
LEMMA StepRefines ==
    ASSUME IInv, [Next]_vars
    PROVE  [Ownership!Next]_Ownership!vars
<1> USE DEF Ownership!vars
<1>1. ASSUME NEW r \in Request, NEW i \in Identity, NEW c \in Channel,
             NEW e \in Email, NEW valid \in BOOLEAN,
             EnableNotifications(r, i, c, e, valid)
      PROVE  UNCHANGED Ownership!vars
  BY <1>1 DEF EnableNotifications
<1>2. ASSUME NEW r \in Request, ApiStep(r) \/ ApiFault(r)
      PROVE  UNCHANGED Ownership!vars
  BY <1>2 DEF ApiStep, Subscribe, Publish, FindEmail, ApiFault
<1>3. ASSUME NEW e \in Email, NEW c \in FreshCode, PutCode(e, c),
             UNCHANGED mailbox
      PROVE  Ownership!Next
  BY <1>3 DEF PutCode, RowExists, FreshCode, Ownership!Next, Ownership!Issue
<1>4. ASSUME NEW d \in Delivery, confirm[d].pc = "send",
             MailCode(EmailOf(d), confirm[d].code), UNCHANGED <<code, verified>>
      PROVE  Ownership!Next
  <2>1. /\ EmailOf(d) \in Email /\ confirm[d].code = code[EmailOf(d)]
        /\ code[EmailOf(d)] # None
    BY <1>4, DeliveredEmail DEF IInv, ConfirmationsInOrder
  <2>2. mailbox[EmailOf(d)] \cup {code[EmailOf(d)]} = {code[EmailOf(d)]}
    BY <2>1 DEF IInv, OneCodePerAddress
  <2>3. Ownership!Mail(EmailOf(d))
    BY <1>4, <2>1, <2>2 DEF MailCode, Ownership!Mail
  <2> QED BY <2>1, <2>3 DEF Ownership!Next
<1>5. ASSUME NEW d \in Delivery, Deliver(d) \/ ConfirmStep(d) \/ ConfirmStepFault(d)
      PROVE  [Ownership!Next]_Ownership!vars
  <2>1. CASE Deliver(d) \/ Conflict(d)
    BY <2>1 DEF Deliver, Conflict
  <2>2. CASE StoreCode(d)
    BY <1>3, <2>2, DeliveredEmail DEF StoreCode
  <2>3. CASE SendCode(d)
    BY <1>4, <2>3 DEF SendCode
  <2>4. CASE ConfirmationFault(d)
    BY <1>3, <1>4, <2>4, DeliveredEmail DEF ConfirmationFault
  <2>5. CASE SettingsFault(d) \/ ReturnBlind(d)
    BY <2>5 DEF SettingsFault, ReturnBlind
  <2> QED BY <1>5, <2>1, <2>2, <2>3, <2>4, <2>5 DEF ConfirmStep, ConfirmStepFault
<1>6. ASSUME NEW a \in Attempt, attempts[a].pc = "update", CodeMatches(a),
             SetVerified(a), UNCHANGED <<code, mailbox>>
      PROVE  Ownership!Next
  BY <1>6, MatchingCodeWasMailed
     DEF SetVerified, Ownership!Next, Ownership!Verify
<1>7. ASSUME NEW a \in Attempt, AttemptStep(a) \/ VerifyFault(a)
      PROVE  [Ownership!Next]_Ownership!vars
  BY <1>6, <1>7
     DEF AttemptStep, AcceptCode, RejectCode, PublishVerified, VerifyFault
<1>8. ASSUME NEW a \in Attempt, NEW e \in Email, NEW c \in MailedCode,
             VerifyEmail(a, e, c)
      PROVE  UNCHANGED Ownership!vars
  BY <1>8 DEF VerifyEmail
<1>9. CASE UNCHANGED vars
  BY <1>9 DEF vars
<1> QED BY <1>1, <1>2, <1>5, <1>7, <1>8, <1>9 DEF Next

\* The lambdas, the topic and the table implement EmailOwnership: whatever is
\* retried, duplicated or lost, an address gets one code, only that code is
\* mailed to it, and only its mail verifies it.
THEOREM Refinement == Spec => ImplementsOwnership
<1>1. Init => Ownership!Init
  BY DEF Init, Ownership!Init
<1>2. IInv /\ [Next]_vars => [Ownership!Next]_Ownership!vars
  BY StepRefines
<1> QED BY <1>1, <1>2, Invariance, PTL
        DEF Spec, ImplementsOwnership, Ownership!Spec
=============================================================================
