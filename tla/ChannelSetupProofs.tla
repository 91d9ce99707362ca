-------------------------- MODULE ChannelSetupProofs --------------------------
(***************************************************************************)
(* Theorems about ChannelSetup, for every set of users, channels and calls *)
(* and every number of deliveries and faults.  Twilio only ever gains      *)
(* users, channels and memberships, so that what a chain of calls has      *)
(* found or created is still there when the chain relies on it, whatever   *)
(* the concurrent invocations do in between.                               *)
(***************************************************************************)
EXTENDS ChannelSetup, TLAPS

USE DEF twilio

LEMMA InitIInv == Init => IInv
<1> SUFFICES ASSUME Init PROVE IInv
  OBVIOUS
<1>0. blind \in BOOLEAN
  BY Zenon DEF Init
<1>1. TypeOK
  BY <1>0, BoundsAssumption DEF Init, TypeOK
<1>2. CallsIdentified
  BY DEF Init, CallsIdentified, Delivery
<1>3. ChainsAuthorised /\ ChainsProgress
  BY DEF Init, ChainsAuthorised, ChainsProgress, Delivery
<1>4. MembersAuthorised /\ SetupComplete
  BY DEF Init, MembersAuthorised, SetupComplete, Delivery
<1> QED BY <1>1, <1>2, <1>3, <1>4 DEF IInv

\* A fault keeps the count of the faults in its bound.
LEMMA FaultCounted ==
    ASSUME IInv, Fault
    PROVE  faults' \in 0 .. MaxFaults
  BY BoundsAssumption DEF IInv, TypeOK, Fault

\* The user of an invocation is a chat user, and his channels are channels.
LEMMA DeliveryIdentified ==
    ASSUME IInv, NEW d \in Delivery, setup[d] # "idle"
    PROVE  UserOf(d) \in Identity /\ ContextsOf(d) \subseteq Channel
  BY ContextsAssumption DEF IInv, TypeOK, CallsIdentified, UserOf, ContextsOf, Delivery

-----------------------------------------------------------------------------
(* createChatToken                                                         *)

\* A call that publishes or fails leaves the invocations and Twilio alone.
LEMMA ApiIInv ==
    ASSUME IInv, NEW r \in Request, api[r].pc = "publish",
           NEW pc \in {"token", "unannounced", "failed"},
           api' = [api EXCEPT ![r].pc = pc],
           topic' \in {topic, topic \cup {r}},
           UNCHANGED <<setup, chain, lost, users, channels, members>>,
           faults' \in 0 .. MaxFaults, blind' \in BOOLEAN
    PROVE  IInv'
<1> USE DEF IInv
<1>1. \A q \in Request : api'[q].identity = api[q].identity
  BY DEF TypeOK
<1>2. \A d \in Delivery : UserOf(d)' = UserOf(d) /\ ContextsOf(d)' = ContextsOf(d)
  BY <1>1 DEF UserOf, ContextsOf, Delivery
<1>3. TypeOK'
  BY DEF TypeOK
<1>4. CallsIdentified'
  BY <1>1, <1>2 DEF TypeOK, CallsIdentified
<1>5. ChainsAuthorised' /\ ChainsProgress' /\ SetupComplete'
  BY <1>2 DEF ChainsAuthorised, ChainsProgress, SetupComplete
<1>6. MembersAuthorised'
  BY DEF MembersAuthorised
<1> QED BY <1>3, <1>4, <1>5, <1>6

\* A call that has not been made has no event and no invocation.
LEMMA CreateChatTokenIInv ==
    ASSUME IInv, NEW r \in Request, NEW i \in Identity, NEW valid \in BOOLEAN,
           CreateChatToken(r, i, valid)
    PROVE  IInv'
<1> USE DEF IInv, CreateChatToken
<1>1. TypeOK'
  BY DEF TypeOK
<1>2. \A q \in Request : q # r => api'[q] = api[q]
  BY DEF TypeOK
<1>3. r \notin topic
  BY DEF CallsIdentified
<1>4. ASSUME NEW d \in Delivery, setup[d] # "idle"
      PROVE  UserOf(d)' = UserOf(d) /\ ContextsOf(d)' = ContextsOf(d)
  BY <1>2, <1>3, <1>4 DEF UserOf, ContextsOf, Delivery, CallsIdentified
<1>5. CallsIdentified'
  BY <1>2, <1>3, <1>4 DEF TypeOK, CallsIdentified
<1>6. ChainsAuthorised' /\ ChainsProgress' /\ SetupComplete'
  BY <1>4 DEF ChainsAuthorised, ChainsProgress, SetupComplete
<1>7. MembersAuthorised'
  BY DEF MembersAuthorised
<1> QED BY <1>1, <1>5, <1>6, <1>7

-----------------------------------------------------------------------------
(* setUpUserChannels                                                       *)

\* Invocation d goes on in its first part, ends there, or is killed: it makes
\* no call for a channel, and if it ends it counts as one of which a call failed.
LEMMA SetupIInv ==
    ASSUME IInv, NEW d \in Delivery, d[1] \in topic,
           NEW pc \in {"fetchUser", "createUser", "done"},
           setup' = [setup EXCEPT ![d] = pc],
           \/ setup[d] # "channels" /\ chain' = chain
           \/ chain' = [chain EXCEPT ![d] = [c \in Channel |-> "idle"]],
           lost' \in {lost, lost \cup {d}}, pc = "done" => d \in lost',
           users' \in {users, users \cup {UserOf(d)}}, UserOf(d) \in Identity,
           UNCHANGED <<api, topic, channels, members>>,
           faults' \in 0 .. MaxFaults, blind' \in BOOLEAN
    PROVE  IInv'
<1> USE DEF IInv
<1>1. TypeOK'
  BY DEF TypeOK
<1>2. CallsIdentified'
  BY DEF TypeOK, CallsIdentified, UserOf
<1>3. ChainsAuthorised'
  BY DEF TypeOK, ChainsAuthorised, UserOf, ContextsOf
<1>4. ChainsProgress' /\ SetupComplete'
  BY DEF TypeOK, ChainsProgress, SetupComplete, UserOf, ContextsOf
<1>5. MembersAuthorised'
  BY DEF MembersAuthorised
<1> QED BY <1>1, <1>2, <1>3, <1>4, <1>5

\* The user exists in Twilio when the chains start.
LEMMA StartChainsIInv ==
    ASSUME IInv, NEW d \in Delivery, setup[d] # "idle", StartChains(d),
           users' = users \cup {UserOf(d)},
           UNCHANGED <<api, topic, lost, channels, members, faults, blind>>
    PROVE  IInv'
<1> USE DEF IInv, StartChains
<1>1. UserOf(d) \in Identity
  BY DeliveryIdentified
<1>2. TypeOK'
  BY <1>1 DEF TypeOK
<1>3. CallsIdentified'
  BY DEF TypeOK, CallsIdentified, UserOf
<1>4. ChainsAuthorised'
  BY DEF TypeOK, ChainsAuthorised, UserOf, ContextsOf
<1>5. ChainsProgress' /\ SetupComplete'
  BY DeliveryIdentified DEF TypeOK, ChainsProgress, SetupComplete, UserOf, ContextsOf
<1>6. MembersAuthorised'
  BY DEF MembersAuthorised
<1> QED BY <1>2, <1>3, <1>4, <1>5, <1>6

\* The chain of invocation d for channel c goes on to its next call: unless a
\* creation has failed, the channel exists before its members are looked at,
\* and the user is a member when the chain ends.
LEMMA ChainIInv ==
    ASSUME IInv, NEW d \in Delivery, NEW c \in Channel,
           chain[d][c] \notin {"idle", "done"},
           NEW step \in {"createChannel", "fetchMember", "joinChannel", "done"},
           Goto(d, c, step),
           channels' \in {channels, channels \cup {c}},
           \/ members' = members
           \/ members' = members \cup {<<c, UserOf(d)>>} /\ c \in channels,
           lost' \in {lost, lost \cup {d}},
           d \notin lost' /\ step \in {"fetchMember", "joinChannel"} => c \in channels',
           d \notin lost' /\ step = "done" => <<c, UserOf(d)>> \in members',
           UNCHANGED <<api, topic, setup, users>>,
           faults' \in 0 .. MaxFaults, blind' \in BOOLEAN
    PROVE  IInv'
<1> USE DEF IInv, Goto
<1>1. setup[d] = "channels" /\ c \in ContextsOf(d)
  BY DEF ChainsAuthorised
<1>2. UserOf(d) \in Identity /\ UserOf(d) \in users
  BY <1>1, DeliveryIdentified DEF CallsIdentified
<1>3. TypeOK'
  BY <1>2 DEF TypeOK
<1>4. CallsIdentified'
  BY DEF CallsIdentified, UserOf
<1>5. ChainsAuthorised'
  BY <1>1 DEF TypeOK, ChainsAuthorised, UserOf, ContextsOf
<1>6. ChainsProgress'
  <2>1. ASSUME NEW e \in Delivery, NEW b \in Channel
        PROVE  chain'[e][b] = IF e = d /\ b = c THEN step ELSE chain[e][b]
    BY DEF TypeOK
  <2>2. \A e \in Delivery : setup[e] = "channels" => ContextsOf(e) \subseteq Channel
    BY DeliveryIdentified
  <2> QED BY <1>1, <2>1, <2>2 DEF ChainsProgress, UserOf, ContextsOf
<1>7. SetupComplete'
  BY DEF SetupComplete, UserOf, ContextsOf
<1>8. MembersAuthorised'
  BY <1>1, <1>2 DEF MembersAuthorised, ContextsOf
<1> QED BY <1>3, <1>4, <1>5, <1>6, <1>7, <1>8

\* When all the chains have ended the user is a member of all his channels.
LEMMA FinishIInv ==
    ASSUME IInv, NEW d \in Delivery, Finish(d)
    PROVE  IInv'
<1> USE DEF IInv, Finish
<1>1. TypeOK'
  BY DEF TypeOK
<1>2. CallsIdentified'
  BY DEF TypeOK, CallsIdentified, UserOf
<1>3. ChainsAuthorised'
  BY DEF TypeOK, ChainsAuthorised, UserOf, ContextsOf
<1>4. ChainsProgress'
  BY DEF TypeOK, ChainsProgress, UserOf, ContextsOf
<1>5. SetupComplete'
  BY DeliveryIdentified DEF TypeOK, ChainsProgress, SetupComplete, UserOf, ContextsOf
<1>6. MembersAuthorised'
  BY DEF MembersAuthorised
<1> QED BY <1>1, <1>2, <1>3, <1>4, <1>5, <1>6

-----------------------------------------------------------------------------
(* The theorems                                                            *)

\* Every step of an invocation in its first part keeps the invariant.
LEMMA UserStepIInv ==
    ASSUME IInv, NEW d \in Delivery,
           \/ Deliver(d) \/ FetchUser(d) \/ CreateUser(d)
           \/ FetchUserFault(d) \/ CreateUserFault(d) \/ Kill(d)
           \/ SettingsFault(d) \/ ReturnBlind(d)
    PROVE  IInv'
<1>1. setup[d] # "idle" => d[1] \in topic /\ UserOf(d) \in Identity
  BY DeliveryIdentified DEF IInv, CallsIdentified
<1>2. faults \in 0 .. MaxFaults /\ blind \in BOOLEAN
  BY DEF IInv, TypeOK
<1>3. CASE Deliver(d)
  <2>1. UserOf(d) \in Identity
    BY <1>3 DEF Deliver, IInv, CallsIdentified, UserOf, Delivery
  <2> QED BY <1>2, <1>3, <2>1, SetupIInv DEF Deliver
<1>4. CASE FetchUser(d)
  <2>1. CASE UserOf(d) \in users
    <3>1. users' = users \cup {UserOf(d)}
      BY <1>4, <2>1 DEF FetchUser
    <3> QED BY <1>4, <2>1, <3>1, StartChainsIInv DEF FetchUser
  <2>2. CASE UserOf(d) \notin users
    BY <1>1, <1>2, <1>4, <2>2, SetupIInv DEF FetchUser
  <2> QED BY <2>1, <2>2
<1>5. CASE CreateUser(d)
  BY <1>5, StartChainsIInv DEF CreateUser
<1>6. CASE FetchUserFault(d)
  BY <1>1, <1>2, <1>6, FaultCounted, SetupIInv DEF FetchUserFault
<1>7. CASE CreateUserFault(d)
  BY <1>1, <1>2, <1>7, FaultCounted, SetupIInv DEF CreateUserFault
<1>8. CASE Kill(d)
  BY <1>1, <1>2, <1>8, FaultCounted, SetupIInv DEF Kill
<1>9. CASE SettingsFault(d)
  BY <1>1, <1>9, FaultCounted, SetupIInv DEF SettingsFault
<1>10. CASE ReturnBlind(d)
  BY <1>1, <1>2, <1>10, SetupIInv DEF ReturnBlind
<1> QED BY <1>3, <1>4, <1>5, <1>6, <1>7, <1>8, <1>9, <1>10

\* Every call for a channel keeps the invariant.
LEMMA ChainStepIInv ==
    ASSUME IInv, NEW d \in Delivery, NEW c \in Channel,
           ChainStep(d, c) \/ FetchFault(d, c) \/ CreateFault(d, c)
    PROVE  IInv'
<1>1. faults \in 0 .. MaxFaults /\ blind \in BOOLEAN
  BY DEF IInv, TypeOK
<1>2. ASSUME d \notin lost, chain[d][c] \in {"fetchMember", "joinChannel"}
      PROVE  c \in channels
  BY <1>2 DEF IInv, ChainsAuthorised, ChainsProgress
<1>3. CASE FetchChannel(d, c)
  BY <1>1, <1>3, ChainIInv DEF FetchChannel
<1>4. CASE CreateChannel(d, c)
  BY <1>1, <1>4, ChainIInv DEF CreateChannel
<1>5. CASE FetchMember(d, c)
  BY <1>1, <1>2, <1>5, ChainIInv DEF FetchMember
<1>6. CASE JoinChannel(d, c)
  BY <1>1, <1>2, <1>6, ChainIInv DEF JoinChannel, Joined
<1>7. CASE FetchFault(d, c)
  BY <1>1, <1>2, <1>7, FaultCounted, ChainIInv DEF FetchFault
<1>8. CASE CreateFault(d, c)
  BY <1>1, <1>8, FaultCounted, ChainIInv DEF CreateFault, Joined
<1> QED BY <1>3, <1>4, <1>5, <1>6, <1>7, <1>8 DEF ChainStep

LEMMA NextIInv == IInv /\ [Next]_vars => IInv'
<1> SUFFICES ASSUME IInv, [Next]_vars PROVE IInv'
  OBVIOUS
<1>1. ASSUME NEW r \in Request, Publish(r) \/ ApiFault(r) PROVE IInv'
  <2>1. faults' \in 0 .. MaxFaults /\ blind' \in BOOLEAN
    BY <1>1, FaultCounted DEF Publish, ApiFault, IInv, TypeOK
  <2> QED BY <1>1, <2>1, ApiIInv DEF Publish, ApiFault
<1>2. ASSUME NEW d \in Delivery, Deliver(d) \/ SetupStep(d) \/ SetupFault(d)
      PROVE  IInv'
  BY <1>2, UserStepIInv, ChainStepIInv, FinishIInv DEF SetupStep, SetupFault
<1>3. CASE UNCHANGED vars
  BY <1>3 DEF vars, IInv, TypeOK, CallsIdentified, ChainsAuthorised, ChainsProgress,
              MembersAuthorised, SetupComplete, UserOf, ContextsOf
<1> QED BY <1>1, <1>2, <1>3, CreateChatTokenIInv DEF Next

\* The inductive invariant holds in every reachable state.
THEOREM Invariance == Spec => []IInv
  BY InitIInv, NextIInv, PTL DEF Spec

\* The invocations and the users, channels and memberships are well typed.
THEOREM TypeCorrectness == Spec => []TypeOK
<1>1. IInv => TypeOK
  BY DEF IInv
<1> QED BY <1>1, Invariance, PTL

\* Nobody is a member of a channel his token does not name.
THEOREM MembersAuthorisedAlways == Spec => []MembersAuthorised
<1>1. IInv => MembersAuthorised
  BY DEF IInv
<1> QED BY <1>1, Invariance, PTL

\* An invocation that ends has made its user a member of all his channels
\* unless a creation of its own failed, however many others race with it.
THEOREM SetupCompleteAlways == Spec => []SetupComplete
<1>1. IInv => SetupComplete
  BY DEF IInv
<1> QED BY <1>1, Invariance, PTL
=============================================================================
