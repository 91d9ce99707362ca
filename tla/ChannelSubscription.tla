------------------------ MODULE ChannelSubscription -------------------------
(***************************************************************************)
(* Subscribing an email address to a chat channel and proving that the     *)
(* subscriber owns the address.  Three lambdas share two DynamoDB tables   *)
(* and one SNS topic:                                                      *)
(*                                                                         *)
(*   - the GraphQL mutation enableChannelNotifications stores the          *)
(*     subscription, publishes ChannelSubscriptionCreated and reports      *)
(*     whether the address is verified already;                            *)
(*   - the topic invokes sendEmailConfirmationCode, at least once, which   *)
(*     stores a new code for the address unless it has one and mails it;   *)
(*   - the GraphQL mutation verifyEmail marks the address as verified if   *)
(*     the caller quotes its code.                                         *)
(*                                                                         *)
(* Every call to a service is one step.  It may fail: it was not executed, *)
(* or it was and the reply was lost, or the lambda was killed after it.    *)
(***************************************************************************)
EXTENDS Naturals

CONSTANTS
    Identity,       \* the chat users
    Channel,        \* the chat channels
    Email,          \* the email addresses
    Code,           \* the confirmation codes randomWords may draw
    Contexts,       \* Contexts[i]: the channels named in the JWT of user i
    Request,        \* calls of enableChannelNotifications
    Attempt,        \* calls of verifyEmail
    MaxDeliveries,  \* bound: how often the topic invokes the lambda per event
    MaxFaults,      \* bound: how many calls to a service fail
    None            \* no value

ASSUME ContextsAssumption == Contexts \in [Identity -> SUBSET Channel]
ASSUME BoundsAssumption == MaxDeliveries \in Nat \ {0} /\ MaxFaults \in Nat
ASSUME NoneAssumption == None \notin Identity \cup Channel \cup Email \cup Code

VARIABLES
    subscriptions,  \* subscription table: who subscribed <<channel, email>>
    code,           \* verification table, attribute code of the row of email e
    verified,       \* verification table, the rows whose verified is true
    topic,          \* the requests whose event the topic has accepted
    api,            \* the enableChannelNotifications invocations
    confirm,        \* the sendEmailConfirmationCode invocations
    attempts,       \* the verifyEmail invocations
    mailbox,        \* mailbox[e]: the codes SendGrid has mailed to e
    faults,         \* how many calls have failed so far
    blind,          \* whether a container of sendEmailConfirmationCode keeps a
                    \* rejected promise of the settings
    harmed          \* the addresses a confirmation of which failed

failures == <<faults, blind, harmed>>
vars == <<subscriptions, code, verified, topic, api, confirm, attempts,
          mailbox, failures>>

Delivery == Request \X (1 .. MaxDeliveries)

ApiState ==
    [pc : {"idle", "subscribe", "publish", "find", "done", "failed"},
     identity : Identity \cup {None}, channel : Channel \cup {None},
     email : Email \cup {None}, emailVerified : BOOLEAN]

ConfirmState ==
    [pc : {"idle", "put", "send", "done"}, code : Code \cup {None}]

AttemptState ==
    [pc : {"idle", "update", "publish", "done", "failed"},
     email : Email \cup {None}, code : Code \cup {None}]

Init ==
    /\ subscriptions = [s \in Channel \X Email |-> None]
    /\ code = [e \in Email |-> None]
    /\ verified = {}
    /\ topic = {}
    /\ api = [r \in Request |->
                [pc |-> "idle", identity |-> None, channel |-> None,
                 email |-> None, emailVerified |-> FALSE]]
    /\ confirm = [d \in Delivery |-> [pc |-> "idle", code |-> None]]
    /\ attempts = [a \in Attempt |->
                    [pc |-> "idle", email |-> None, code |-> None]]
    /\ mailbox = [e \in Email |-> {}]
    /\ faults = 0
    /\ blind = FALSE
    /\ harmed = {}

Fault == faults < MaxFaults /\ faults' = faults + 1

-----------------------------------------------------------------------------
(* The effects of the calls to the services.                               *)

\* PutItem into the subscription table, whoever is subscribed there already.
PutSubscription(r) ==
    subscriptions' =
        [subscriptions EXCEPT ![<<api[r].channel, api[r].email>>] = api[r].identity]

\* The topic accepts the event ChannelSubscriptionCreated of r.
PublishEvent(r) == topic' = topic \cup {r}

\* The address the event of delivery d asks to confirm.
EmailOf(d) == api[d[1]].email

\* attribute_not_exists(email): no row has the key, verified or not.
RowExists(e) == code[e] # None

\* Three random words: drawn so that no two addresses get the same ones.
FreshCode == {c \in Code : \A e \in Email : code[e] # c}

\* Mutant of PutCode: the put has no condition and replaces the row.
PutCodeUnconditional(e, c) ==
    /\ code' = [code EXCEPT ![e] = c]
    /\ verified' = verified \ {e}

\* PutItem of the row {email, code} under attribute_not_exists(email).
PutCode(e, c) ==
    /\ ~RowExists(e)
    /\ code' = [code EXCEPT ![e] = c]
    /\ UNCHANGED verified

\* SendGrid takes the mail with code c to address e.
MailCode(e, c) == mailbox' = [mailbox EXCEPT ![e] = @ \cup {c}]

\* Mutant of CodeMatches: the condition is attribute_exists(#code).
CodeExists(a) == code[attempts[a].email] # None

\* The condition of the UpdateItem of verifyEmail: #code = :code.
CodeMatches(a) == code[attempts[a].email] = attempts[a].code

\* UpdateItem: SET verified = true.
SetVerified(a) == verified' = verified \cup {attempts[a].email}

-----------------------------------------------------------------------------
(* enableChannelNotifications                                              *)

\* Mutant of EnableNotifications: the channel is not looked up in the token.
EnableAnyChannel(r, i, c, e, valid) ==
    /\ api[r].pc = "idle"
    /\ api' = [api EXCEPT ![r] =
                [pc |-> IF valid THEN "subscribe" ELSE "failed",
                 identity |-> i, channel |-> c, email |-> e,
                 emailVerified |-> FALSE]]
    /\ UNCHANGED <<subscriptions, code, verified, topic, confirm, attempts,
                   mailbox, failures>>

\* User i calls the mutation; "valid" is the verdict of verifyToken.
EnableNotifications(r, i, c, e, valid) ==
    /\ api[r].pc = "idle"
    /\ api' = [api EXCEPT ![r] =
                [pc |-> IF valid /\ c \in Contexts[i] THEN "subscribe" ELSE "failed",
                 identity |-> i, channel |-> c, email |-> e,
                 emailVerified |-> FALSE]]
    /\ UNCHANGED <<subscriptions, code, verified, topic, confirm, attempts,
                   mailbox, failures>>

Subscribe(r) ==
    /\ api[r].pc = "subscribe"
    /\ PutSubscription(r)
    /\ api' = [api EXCEPT ![r].pc = "publish"]
    /\ UNCHANGED <<code, verified, topic, confirm, attempts, mailbox, failures>>

Publish(r) ==
    /\ api[r].pc = "publish"
    /\ PublishEvent(r)
    /\ api' = [api EXCEPT ![r].pc = "find"]
    /\ UNCHANGED <<subscriptions, code, verified, confirm, attempts, mailbox,
                   failures>>

\* Mutant of FindEmail: an address that has a row counts as verified.
FindEmailByRow(r) ==
    /\ api[r].pc = "find"
    /\ api' = [api EXCEPT ![r].pc = "done",
                          ![r].emailVerified = RowExists(api[r].email)]
    /\ UNCHANGED <<subscriptions, code, verified, topic, confirm, attempts,
                   mailbox, failures>>

\* GetItem is eventually consistent: it may miss a recent verification.
FindEmail(r) ==
    /\ api[r].pc = "find"
    /\ \E seen \in BOOLEAN :
         /\ seen => api[r].email \in verified
         /\ api' = [api EXCEPT ![r].pc = "done", ![r].emailVerified = seen]
    /\ UNCHANGED <<subscriptions, code, verified, topic, confirm, attempts,
                   mailbox, failures>>

\* The call under way fails, executed or not, and the mutation reports it.
ApiFault(r) ==
    /\ api[r].pc \in {"subscribe", "publish", "find"}
    /\ Fault
    /\ \/ UNCHANGED <<subscriptions, topic>>
       \/ api[r].pc = "subscribe" /\ PutSubscription(r) /\ UNCHANGED topic
       \/ api[r].pc = "publish" /\ PublishEvent(r) /\ UNCHANGED subscriptions
    /\ api' = [api EXCEPT ![r].pc = "failed"]
    /\ UNCHANGED <<code, verified, confirm, attempts, mailbox, blind, harmed>>

-----------------------------------------------------------------------------
(* sendEmailConfirmationCode                                               *)

\* The topic invokes the lambda.  The deliveries of an event that follow the
\* first are duplicates, or retries of an invocation that was killed.
Deliver(d) ==
    /\ d[1] \in topic
    /\ confirm[d].pc = "idle"
    /\ d[2] > 1 => confirm[<<d[1], d[2] - 1>>].pc # "idle"
    /\ confirm' = [confirm EXCEPT ![d].pc = "put"]
    /\ UNCHANGED <<subscriptions, code, verified, topic, api, attempts,
                   mailbox, failures>>

\* Mutant of StoreCode: the put does not hand the code on to the send.
StoreCodeNotReturned(d) ==
    /\ confirm[d].pc = "put"
    /\ \E c \in FreshCode : PutCode(EmailOf(d), c)
    /\ confirm' = [confirm EXCEPT ![d].pc = "send"]
    /\ UNCHANGED <<subscriptions, topic, api, attempts, mailbox, failures>>

\* Mutant of StoreCode: the lambda ends without sending the mail.
StoreCodeWithoutSend(d) ==
    /\ confirm[d].pc = "put"
    /\ \E c \in FreshCode : PutCode(EmailOf(d), c)
    /\ confirm' = [confirm EXCEPT ![d].pc = "done"]
    /\ UNCHANGED <<subscriptions, topic, api, attempts, mailbox, failures>>

StoreCode(d) ==
    /\ confirm[d].pc = "put"
    /\ \E c \in FreshCode :
         /\ PutCode(EmailOf(d), c)
         /\ confirm' = [confirm EXCEPT ![d] = [pc |-> "send", code |-> c]]
    /\ UNCHANGED <<subscriptions, topic, api, attempts, mailbox, failures>>

\* Mutant of Conflict: the lambda mails the code it drew all the same.
ConflictSends(d) ==
    /\ confirm[d].pc = "put"
    /\ RowExists(EmailOf(d))
    /\ \E c \in FreshCode :
         confirm' = [confirm EXCEPT ![d] = [pc |-> "send", code |-> c]]
    /\ UNCHANGED <<subscriptions, code, verified, topic, api, attempts,
                   mailbox, failures>>

\* ConditionalCheckFailedException: the pipe ends before the send.
Conflict(d) ==
    /\ confirm[d].pc = "put"
    /\ RowExists(EmailOf(d))
    /\ confirm' = [confirm EXCEPT ![d].pc = "done"]
    /\ UNCHANGED <<subscriptions, code, verified, topic, api, attempts,
                   mailbox, failures>>

SendCode(d) ==
    /\ confirm[d].pc = "send"
    /\ MailCode(EmailOf(d), confirm[d].code)
    /\ confirm' = [confirm EXCEPT ![d].pc = "done"]
    /\ UNCHANGED <<subscriptions, code, verified, topic, api, attempts, failures>>

\* The confirmation d ends before its call has succeeded.
ConfirmationFails(d) ==
    /\ confirm' = [confirm EXCEPT ![d].pc = "done"]
    /\ harmed' = harmed \cup {EmailOf(d)}

\* The settings cannot be read, the handler returns, and the container keeps the
\* rejected promise.
SettingsFault(d) ==
    /\ confirm[d].pc = "put"
    /\ Fault
    /\ blind' = TRUE
    /\ ConfirmationFails(d)
    /\ UNCHANGED <<subscriptions, code, verified, topic, api, attempts, mailbox>>

\* A container that keeps a rejected promise serves the invocation, and returns.
ReturnBlind(d) ==
    /\ confirm[d].pc = "put" /\ blind
    /\ ConfirmationFails(d)
    /\ UNCHANGED <<subscriptions, code, verified, topic, api, attempts, mailbox,
                   faults, blind>>

\* The call under way fails, executed or not, or the lambda is killed.
ConfirmationFault(d) ==
    /\ confirm[d].pc \in {"put", "send"}
    /\ Fault
    /\ \/ UNCHANGED <<code, verified, mailbox>>
       \/ /\ confirm[d].pc = "put"
          /\ \E c \in FreshCode : PutCode(EmailOf(d), c)
          /\ UNCHANGED mailbox
       \/ /\ confirm[d].pc = "send"
          /\ MailCode(EmailOf(d), confirm[d].code)
          /\ UNCHANGED <<code, verified>>
    /\ ConfirmationFails(d)
    /\ UNCHANGED <<subscriptions, topic, api, attempts, blind>>

-----------------------------------------------------------------------------
(* verifyEmail                                                             *)

\* The caller quotes, for any address, a code found in some mailbox.
VerifyEmail(a, e, c) ==
    /\ attempts[a].pc = "idle"
    /\ attempts' = [attempts EXCEPT ![a] =
                      [pc |-> "update", email |-> e, code |-> c]]
    /\ UNCHANGED <<subscriptions, code, verified, topic, api, confirm, mailbox,
                   failures>>

AcceptCode(a) ==
    /\ attempts[a].pc = "update"
    /\ CodeMatches(a)
    /\ SetVerified(a)
    /\ attempts' = [attempts EXCEPT ![a].pc = "publish"]
    /\ UNCHANGED <<subscriptions, code, topic, api, confirm, mailbox, failures>>

RejectCode(a) ==
    /\ attempts[a].pc = "update"
    /\ ~CodeMatches(a)
    /\ attempts' = [attempts EXCEPT ![a].pc = "failed"]
    /\ UNCHANGED <<subscriptions, code, verified, topic, api, confirm, mailbox,
                   failures>>

\* EmailVerified is published; nothing in the system subscribes to it.
PublishVerified(a) ==
    /\ attempts[a].pc = "publish"
    /\ attempts' = [attempts EXCEPT ![a].pc = "done"]
    /\ UNCHANGED <<subscriptions, code, verified, topic, api, confirm, mailbox,
                   failures>>

VerifyFault(a) ==
    /\ attempts[a].pc \in {"update", "publish"}
    /\ Fault
    /\ \/ UNCHANGED verified
       \/ attempts[a].pc = "update" /\ CodeMatches(a) /\ SetVerified(a)
    /\ attempts' = [attempts EXCEPT ![a].pc = "failed"]
    /\ UNCHANGED <<subscriptions, code, topic, api, confirm, mailbox, blind, harmed>>

-----------------------------------------------------------------------------
ApiStep(r) == Subscribe(r) \/ Publish(r) \/ FindEmail(r)
ConfirmStep(d) == ReturnBlind(d) \/ StoreCode(d) \/ Conflict(d) \/ SendCode(d)
ConfirmStepFault(d) == SettingsFault(d) \/ ConfirmationFault(d)
AttemptStep(a) == AcceptCode(a) \/ RejectCode(a) \/ PublishVerified(a)

MailedCode == UNION {mailbox[e] : e \in Email}

Next ==
    \/ \E r \in Request, i \in Identity, c \in Channel, e \in Email :
         \E valid \in BOOLEAN : EnableNotifications(r, i, c, e, valid)
    \/ \E r \in Request : ApiStep(r) \/ ApiFault(r)
    \/ \E d \in Delivery : Deliver(d) \/ ConfirmStep(d) \/ ConfirmStepFault(d)
    \/ \E a \in Attempt, e \in Email, c \in MailedCode : VerifyEmail(a, e, c)
    \/ \E a \in Attempt : AttemptStep(a) \/ VerifyFault(a)

Spec == Init /\ [][Next]_vars

\* A lambda that was invoked goes on until it ends, and the topic invokes
\* the confirmation lambda at least once per event it accepted.
Fairness ==
    /\ \A r \in Request : WF_vars(ApiStep(r)) /\ WF_vars(Deliver(<<r, 1>>))
    /\ \A d \in Delivery : WF_vars(ConfirmStep(d))
    /\ \A a \in Attempt : WF_vars(AttemptStep(a))

FairSpec == Spec /\ Fairness

\* The topic repeats every delivery as often as the bound allows.
RetrySpec == FairSpec /\ \A d \in Delivery : WF_vars(Deliver(d))

-----------------------------------------------------------------------------
(* Properties                                                              *)

\* The tables, the topic and the invocations hold what their code writes.
TypeOK ==
    /\ subscriptions \in [Channel \X Email -> Identity \cup {None}]
    /\ code \in [Email -> Code \cup {None}]
    /\ verified \subseteq Email
    /\ topic \subseteq Request
    /\ api \in [Request -> ApiState]
    /\ confirm \in [Delivery -> ConfirmState]
    /\ attempts \in [Attempt -> AttemptState]
    /\ mailbox \in [Email -> SUBSET Code]
    /\ faults \in 0 .. MaxFaults /\ harmed \subseteq Email
    /\ blind \in BOOLEAN

\* However often the confirmation lambda is invoked for an address, and for
\* how many subscriptions at once, every code that was mailed to the address
\* is the one verifyEmail accepts (addEmailToBeVerified's condition).
OneCodePerAddress ==
    \A e \in Email : mailbox[e] \subseteq {code[e]}

\* An address is verified only if the code on record was mailed to it: no
\* code that was mailed to another address, or stored but never mailed,
\* verifies it (verifyEmailByCode's condition).
OwnershipProven ==
    \A e \in verified : code[e] \in mailbox[e]

\* What the mutations report as done is in the tables, and stays there: an
\* acknowledged subscription is stored and announced, an address reported as
\* verified is verified.
RepliesHold ==
    /\ \A r \in Request : api[r].pc = "done" =>
         /\ subscriptions[<<api[r].channel, api[r].email>>] # None
         /\ r \in topic
         /\ api[r].emailVerified => api[r].email \in verified
    /\ \A a \in Attempt :
         attempts[a].pc \in {"publish", "done"} => attempts[a].email \in verified

\* Every stored subscription belongs to a user whose token names the channel.
AuthorisedSubscriptions ==
    \A c \in Channel, e \in Email :
        LET i == subscriptions[<<c, e>>] IN i # None => c \in Contexts[i]

\* The lambdas, the topic and the table implement the promise of the email
\* verification: one code per address, mailed to it before it can prove it.
Ownership == INSTANCE EmailOwnership WITH
    Email <- Email, Code <- Code, None <- None,
    code <- code, mailbox <- mailbox, verified <- verified
ImplementsOwnership == Ownership!Spec

\* The address of request r was mailed a code.
CodeMailed(r) == \E e \in Email : api[r].email = e /\ mailbox[e] # {}

\* An address somebody subscribed is mailed its code, unless a confirmation of
\* this very address failed or had no settings: neither the conflict of the
\* conditional put, when another invocation holds the address already, nor what
\* fails for other addresses or in the mutations ever loses the mail.
ConfirmationMailedOrFault ==
    \A r \in Request : (r \in topic) ~> (CodeMailed(r) \/ api[r].email \in harmed)

\* A confirmation of the address e is about to mail its code.
BeingMailed(e) == \E d \in Delivery : confirm[d].pc = "send" /\ EmailOf(d) = e

\* No confirmation ends without the mail: when it has ended, in a conflict, too,
\* the address was mailed its code, or another confirmation of the address is
\* about to mail it, or one of them failed.
EndedAreMailed ==
    \A d \in Delivery : confirm[d].pc = "done" =>
        mailbox[EmailOf(d)] # {} \/ BeingMailed(EmailOf(d)) \/ EmailOf(d) \in harmed

\* "Sends an email to the user to confirm their subscription"
\* (aws/features/twilio-notifications.ts:87): an address somebody subscribed
\* is mailed its code.
ConfirmationMailed == \A r \in Request : (r \in topic) ~> CodeMailed(r)

-----------------------------------------------------------------------------
(* The inductive invariant: the type invariant, what the calls under way    *)
(* know, and the properties above.                                         *)

\* No two addresses share a code.
CodesDistinct ==
    \A e, f \in Email : code[e] = code[f] /\ code[e] # None => e = f

\* A call of enableChannelNotifications has done what its position says, for
\* a channel its caller may use.
CallsInOrder ==
    \A r \in Request :
      /\ r \in topic => api[r].pc # "idle"
      /\ api[r].pc # "idle" =>
           api[r].identity \in Identity /\ api[r].channel \in Channel
           /\ api[r].email \in Email
      /\ api[r].pc \in {"subscribe", "publish", "find", "done"} =>
           api[r].channel \in Contexts[api[r].identity]
      /\ api[r].pc \in {"publish", "find", "done"} =>
           subscriptions[<<api[r].channel, api[r].email>>] # None
      /\ api[r].pc \in {"find", "done"} => r \in topic
      /\ api[r].pc = "done" /\ api[r].emailVerified => api[r].email \in verified

\* A confirmation is about an event of the topic, and the code it is about
\* to mail is the one on record.
ConfirmationsInOrder ==
    \A d \in Delivery :
      /\ confirm[d].pc # "idle" => d[1] \in topic
      /\ confirm[d].pc = "send" => /\ confirm[d].code # None
                                   /\ confirm[d].code = code[EmailOf(d)]

\* An attempt quotes a code that was mailed to somebody.
AttemptsInOrder ==
    \A a \in Attempt :
      /\ attempts[a].pc # "idle" => attempts[a].email \in Email
      /\ attempts[a].pc = "update" => attempts[a].code \in MailedCode
      /\ attempts[a].pc \in {"publish", "done"} => attempts[a].email \in verified

\* Whoever stored the code of an address mails it, has mailed it, or failed.
RowsMailed ==
    \A e \in Email : RowExists(e) => mailbox[e] # {} \/ BeingMailed(e) \/ e \in harmed

\* A confirmation ends only after some confirmation of its address has stored a
\* code, or failed.
EndedHaveRow ==
    \A d \in Delivery : confirm[d].pc = "done" =>
        RowExists(EmailOf(d)) \/ EmailOf(d) \in harmed

IInv ==
    /\ TypeOK
    /\ CodesDistinct
    /\ CallsInOrder
    /\ ConfirmationsInOrder
    /\ AttemptsInOrder
    /\ OneCodePerAddress
    /\ OwnershipProven
    /\ AuthorisedSubscriptions

MailInv == RowsMailed /\ EndedHaveRow
=============================================================================
