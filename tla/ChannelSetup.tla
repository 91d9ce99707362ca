---------------------------- MODULE ChannelSetup -----------------------------
(***************************************************************************)
(* Getting a chat token and becoming a member of one's channels.  The      *)
(* GraphQL mutation createChatToken publishes ChatTokenCreated and returns *)
(* the token; the topic invokes setUpUserChannels, at least once, which    *)
(* creates in Twilio what does not exist yet: the user, then, for all the  *)
(* channels of the token at the same time, the channel and the membership. *)
(* Invocations for several users and devices run concurrently, and each    *)
(* first fetches and then creates, so that they race for the creation.     *)
(***************************************************************************)
EXTENDS Naturals

CONSTANTS
    Identity,       \* the chat users
    Channel,        \* the chat channels
    Contexts,       \* Contexts[i]: the channels named in the JWT of user i
    Request,        \* calls of createChatToken
    MaxDeliveries,  \* bound: how often the topic invokes the lambda per event
    MaxFaults,      \* bound: how many calls or invocations fail
    None            \* nobody

ASSUME ContextsAssumption == Contexts \in [Identity -> SUBSET Channel]
ASSUME BoundsAssumption == MaxDeliveries \in Nat \ {0} /\ MaxFaults \in Nat
ASSUME NoneAssumption == None \notin Identity

VARIABLES
    api,        \* the createChatToken invocations: position and caller
    topic,      \* the requests whose event the topic has accepted
    setup,      \* setup[d]: the position of setUpUserChannels invocation d
    chain,      \* chain[d][c]: its position in the chain of calls for c
    lost,       \* the invocations that had no settings, were killed, or a call
                \* of which failed that creates
    users,      \* Twilio: the users
    channels,   \* Twilio: the channels
    members,    \* Twilio: the memberships <<channel, user>>
    faults,     \* how many calls or invocations have failed so far
    blind       \* whether a container of setUpUserChannels keeps a rejected
                \* promise of the settings

twilio == <<users, channels, members>>
vars == <<api, topic, setup, chain, lost, twilio, faults, blind>>

Delivery == Request \X (1 .. MaxDeliveries)

\* The user and the channels in the attributes of the event of delivery d.
UserOf(d) == api[d[1]].identity
ContextsOf(d) == Contexts[UserOf(d)]

Init ==
    /\ api = [r \in Request |-> [pc |-> "idle", identity |-> None]]
    /\ topic = {}
    /\ setup = [d \in Delivery |-> "idle"]
    /\ chain = [d \in Delivery |-> [c \in Channel |-> "idle"]]
    /\ lost = {}
    /\ users = {}
    /\ channels = {}
    /\ members = {}
    /\ faults = 0
    /\ blind = FALSE

Fault == faults < MaxFaults /\ faults' = faults + 1

-----------------------------------------------------------------------------
(* createChatToken                                                         *)

\* User i asks for a token; "valid" is the verdict of verifyToken, and whether
\* the container that serves him has not kept a rejected promise of the settings.
CreateChatToken(r, i, valid) ==
    /\ api[r].pc = "idle"
    /\ api' = [api EXCEPT ![r] =
                [pc |-> IF valid THEN "publish" ELSE "failed", identity |-> i]]
    /\ UNCHANGED <<topic, setup, chain, lost, twilio, faults, blind>>

\* ChatTokenCreated is published, then the token is returned.
Publish(r) ==
    /\ api[r].pc = "publish"
    /\ topic' = topic \cup {r}
    /\ api' = [api EXCEPT ![r].pc = "token"]
    /\ UNCHANGED <<setup, chain, lost, twilio, faults, blind>>

\* Publishing fails, executed or not, which is logged and the token returned
\* unannounced; or the settings cannot be read or the invocation is killed, and
\* there is no token.
ApiFault(r) ==
    /\ api[r].pc = "publish"
    /\ Fault
    /\ topic' \in {topic, topic \cup {r}}
    /\ \E pc \in {"unannounced", "failed"} : api' = [api EXCEPT ![r].pc = pc]
    /\ UNCHANGED <<setup, chain, lost, twilio, blind>>

-----------------------------------------------------------------------------
(* setUpUserChannels: the user                                             *)

\* The topic invokes the lambda, more than once if it retries or duplicates.
Deliver(d) ==
    /\ d[1] \in topic
    /\ setup[d] = "idle"
    /\ d[2] > 1 => setup[<<d[1], d[2] - 1>>] # "idle"
    /\ setup' = [setup EXCEPT ![d] = "fetchUser"]
    /\ UNCHANGED <<api, topic, chain, lost, twilio, faults, blind>>

\* The settings cannot be read, the handler returns, and the container keeps the
\* rejected promise.
SettingsFault(d) ==
    /\ setup[d] = "fetchUser"
    /\ Fault
    /\ blind' = TRUE
    /\ setup' = [setup EXCEPT ![d] = "done"]
    /\ lost' = lost \cup {d}
    /\ UNCHANGED <<api, topic, chain, twilio>>

\* A container that keeps a rejected promise serves the invocation, and returns.
ReturnBlind(d) ==
    /\ setup[d] = "fetchUser" /\ blind
    /\ setup' = [setup EXCEPT ![d] = "done"]
    /\ lost' = lost \cup {d}
    /\ UNCHANGED <<api, topic, chain, twilio, faults, blind>>

\* Mutant of StartChains: the chains run over every channel, not over those of the token.
StartAllChains(d) ==
    /\ setup' = [setup EXCEPT ![d] = "channels"]
    /\ chain' = [chain EXCEPT ![d] = [c \in Channel |-> "fetchChannel"]]

\* The chains for the channels of the token start all at once.
StartChains(d) ==
    /\ setup' = [setup EXCEPT ![d] = "channels"]
    /\ chain' = [chain EXCEPT ![d] =
                   [c \in Channel |-> IF c \in ContextsOf(d) THEN "fetchChannel" ELSE "done"]]

\* Mutant of FetchUser: findUser in place of fetchUser, whose Right(none) creates nobody.
FetchUserFound(d) ==
    /\ setup[d] = "fetchUser"
    /\ IF UserOf(d) \in users
       THEN StartChains(d)
       ELSE setup' = [setup EXCEPT ![d] = "done"] /\ UNCHANGED chain
    /\ UNCHANGED <<api, topic, lost, twilio, faults, blind>>

FetchUser(d) ==
    /\ setup[d] = "fetchUser"
    /\ IF UserOf(d) \in users
       THEN StartChains(d)
       ELSE setup' = [setup EXCEPT ![d] = "createUser"] /\ UNCHANGED chain
    /\ UNCHANGED <<api, topic, lost, twilio, faults, blind>>

\* If the user was created meanwhile Twilio refuses, and the user is fetched.
CreateUser(d) ==
    /\ setup[d] = "createUser"
    /\ users' = users \cup {UserOf(d)}
    /\ StartChains(d)
    /\ UNCHANGED <<api, topic, lost, channels, members, faults, blind>>

\* A fetch that fails counts as a user who does not exist.
FetchUserFault(d) ==
    /\ setup[d] = "fetchUser"
    /\ Fault
    /\ setup' = [setup EXCEPT ![d] = "createUser"]
    /\ UNCHANGED <<api, topic, chain, lost, twilio, blind>>

\* Mutant of CreateUserFault: a user without an identity is created.
CreateUserFaultUnnamed(d) ==
    /\ setup[d] = "createUser"
    /\ Fault
    /\ users' = users \cup {None}
    /\ setup' = [setup EXCEPT ![d] = "done"]
    /\ lost' = lost \cup {d}
    /\ UNCHANGED <<api, topic, chain, channels, members, blind>>

\* The creation, or the fetch after a refusal, fails: the handler returns.
CreateUserFault(d) ==
    /\ setup[d] = "createUser"
    /\ Fault
    /\ users' \in {users, users \cup {UserOf(d)}}
    /\ setup' = [setup EXCEPT ![d] = "done"]
    /\ lost' = lost \cup {d}
    /\ UNCHANGED <<api, topic, chain, channels, members, blind>>

-----------------------------------------------------------------------------
(* setUpUserChannels: the chain of calls for one channel                   *)

\* The chain of delivery d for channel c goes on to its next call.
Goto(d, c, step) == chain' = [chain EXCEPT ![d][c] = step]

FetchChannel(d, c) ==
    /\ chain[d][c] = "fetchChannel"
    /\ Goto(d, c, IF c \in channels THEN "fetchMember" ELSE "createChannel")
    /\ UNCHANGED <<api, topic, setup, lost, twilio, faults, blind>>

\* Mutant of CreateChannel: a refusal ends the chain, as with chain for then.
CreateChannelOrStop(d, c) ==
    /\ chain[d][c] = "createChannel"
    /\ channels' = channels \cup {c}
    /\ Goto(d, c, IF c \in channels THEN "done" ELSE "fetchMember")
    /\ UNCHANGED <<api, topic, setup, lost, users, members, faults, blind>>

\* If the channel was created meanwhile Twilio refuses; the chain goes on.
CreateChannel(d, c) ==
    /\ chain[d][c] = "createChannel"
    /\ channels' = channels \cup {c}
    /\ Goto(d, c, "fetchMember")
    /\ UNCHANGED <<api, topic, setup, lost, users, members, faults, blind>>

FetchMember(d, c) ==
    /\ chain[d][c] = "fetchMember"
    /\ Goto(d, c, IF <<c, UserOf(d)>> \in members THEN "done" ELSE "joinChannel")
    /\ UNCHANGED <<api, topic, setup, lost, twilio, faults, blind>>

\* The memberships after members.create, which Twilio refuses if the channel
\* does not exist or the user is a member already.
Joined(d, c) ==
    IF c \in channels THEN members \cup {<<c, UserOf(d)>>} ELSE members

JoinChannel(d, c) ==
    /\ chain[d][c] = "joinChannel"
    /\ members' = Joined(d, c)
    /\ Goto(d, c, "done")
    /\ UNCHANGED <<api, topic, setup, lost, users, channels, faults, blind>>

\* A fetch that fails counts as nothing found.
FetchFault(d, c) ==
    /\ Fault
    /\ \/ chain[d][c] = "fetchChannel" /\ Goto(d, c, "createChannel")
       \/ chain[d][c] = "fetchMember" /\ Goto(d, c, "joinChannel")
    /\ UNCHANGED <<api, topic, setup, lost, twilio, blind>>

\* A creation fails, executed or not; nobody looks at the result.
CreateFault(d, c) ==
    /\ Fault
    /\ \/ /\ chain[d][c] = "createChannel" /\ Goto(d, c, "fetchMember")
          /\ channels' \in {channels, channels \cup {c}}
          /\ UNCHANGED members
       \/ /\ chain[d][c] = "joinChannel" /\ Goto(d, c, "done")
          /\ members' \in {members, Joined(d, c)}
          /\ UNCHANGED channels
    /\ lost' = lost \cup {d}
    /\ UNCHANGED <<api, topic, setup, users, blind>>

\* All the chains have ended.
Finish(d) ==
    /\ setup[d] = "channels"
    /\ \A c \in Channel : chain[d][c] = "done"
    /\ setup' = [setup EXCEPT ![d] = "done"]
    /\ UNCHANGED <<api, topic, chain, lost, twilio, faults, blind>>

\* The invocation crashes or times out.
Kill(d) ==
    /\ setup[d] \in {"fetchUser", "createUser", "channels"}
    /\ Fault
    /\ setup' = [setup EXCEPT ![d] = "done"]
    /\ chain' = [chain EXCEPT ![d] = [c \in Channel |-> "idle"]]
    /\ lost' = lost \cup {d}
    /\ UNCHANGED <<api, topic, twilio, blind>>

-----------------------------------------------------------------------------
ChainStep(d, c) ==
    FetchChannel(d, c) \/ CreateChannel(d, c) \/ FetchMember(d, c) \/ JoinChannel(d, c)

SetupStep(d) ==
    \/ FetchUser(d) \/ ReturnBlind(d) \/ CreateUser(d) \/ Finish(d)
    \/ \E c \in Channel : ChainStep(d, c)

SetupFault(d) ==
    \/ SettingsFault(d) \/ FetchUserFault(d) \/ CreateUserFault(d) \/ Kill(d)
    \/ \E c \in Channel : FetchFault(d, c) \/ CreateFault(d, c)

Next ==
    \/ \E r \in Request, i \in Identity, valid \in BOOLEAN : CreateChatToken(r, i, valid)
    \/ \E r \in Request : Publish(r) \/ ApiFault(r)
    \/ \E d \in Delivery : Deliver(d) \/ SetupStep(d) \/ SetupFault(d)

Spec == Init /\ [][Next]_vars

\* An invocation goes on until it ends, and the topic invokes the lambda at
\* least once per event it accepted.
Fairness ==
    /\ \A r \in Request : WF_vars(Publish(r)) /\ WF_vars(Deliver(<<r, 1>>))
    /\ \A d \in Delivery : WF_vars(SetupStep(d))

FairSpec == Spec /\ Fairness

-----------------------------------------------------------------------------
(* Properties                                                              *)

\* The invocations and Twilio hold what the code writes.
TypeOK ==
    /\ api \in [Request -> [pc : {"idle", "publish", "token", "unannounced", "failed"},
                            identity : Identity \cup {None}]]
    /\ topic \subseteq Request
    /\ setup \in [Delivery -> {"idle", "fetchUser", "createUser", "channels", "done"}]
    /\ chain \in [Delivery -> [Channel -> {"idle", "fetchChannel", "createChannel",
                                           "fetchMember", "joinChannel", "done"}]]
    /\ lost \subseteq Delivery
    /\ users \subseteq Identity
    /\ channels \subseteq Channel
    /\ members \subseteq Channel \X Identity
    /\ faults \in 0 .. MaxFaults
    /\ blind \in BOOLEAN

\* Nobody is a member of a channel his token does not name, and what he is a
\* member of exists in Twilio.
MembersAuthorised ==
    \A m \in members : m[1] \in Contexts[m[2]] /\ m[1] \in channels /\ m[2] \in users

\* An invocation that ends has made its user a member of all of his channels,
\* whoever else created the user, a channel or a membership at the same time,
\* and whichever fetch failed: only an invocation that had no settings, was
\* killed, or a creation of which failed loses a membership.
SetupComplete ==
    \A d \in Delivery :
        setup[d] = "done" /\ d \notin lost =>
            \A c \in ContextsOf(d) : <<c, UserOf(d)>> \in members

\* The user of request r is a member of all of his channels.
IsMember(r) ==
    \E i \in Identity :
        api[r].identity = i /\ \A c \in Contexts[i] : <<c, i>> \in members

\* Whoever got a token whose event was published becomes a member of all of
\* his channels, whatever fails elsewhere, unless the invocation for him is
\* killed, a creation in it fails, or its container keeps a rejected promise of
\* the settings, which is how one failure may harm many users.
TokenLeadsToMembership ==
    \A r \in Request :
        (api[r].pc = "token") ~> (IsMember(r) \/ <<r, 1>> \in lost)

\* "an API call to the backend which takes care of [...] adding the user to
\* the channel (if not previously added) [...] returning the access token"
\* (adr/002-architecture.md:19-31): who has a token is a member.
TokenImpliesMembership ==
    \A r \in Request : api[r].pc = "token" => IsMember(r)

-----------------------------------------------------------------------------
(* The inductive invariant behind the theorems of ChannelSetupProofs        *)

\* An event is that of a call made by a user, and an invocation that of an
\* event; an invocation that calls for its channels has a user in Twilio.
CallsIdentified ==
    /\ \A r \in Request : api[r].pc # "idle" => api[r].identity \in Identity
    /\ \A r \in topic : api[r].pc # "idle"
    /\ \A d \in Delivery :
          /\ setup[d] # "idle" => d[1] \in topic
          /\ setup[d] = "channels" => UserOf(d) \in users

\* Only an invocation in its second part makes calls for a channel, and only
\* for one its token names.
ChainsAuthorised ==
    \A d \in Delivery, c \in Channel :
        chain[d][c] \notin {"idle", "done"} => setup[d] = "channels" /\ c \in ContextsOf(d)

\* Unless a creation of its own failed, the chain for a channel has ensured
\* that it exists when it looks at its members, and the membership at its end.
ChainsProgress ==
    \A d \in Delivery : setup[d] = "channels" /\ d \notin lost =>
        \A c \in ContextsOf(d) :
            /\ chain[d][c] # "idle"
            /\ chain[d][c] \in {"fetchMember", "joinChannel"} => c \in channels
            /\ chain[d][c] = "done" => <<c, UserOf(d)>> \in members

IInv ==
    /\ TypeOK
    /\ CallsIdentified
    /\ ChainsAuthorised
    /\ ChainsProgress
    /\ MembersAuthorised
    /\ SetupComplete
=============================================================================
