----------------------- MODULE TokenVerificationProofs -----------------------
(***************************************************************************)
(* Theorems about TokenVerification, for every set of containers, key ids  *)
(* and keys and every bound.  A container only knows of the key set what   *)
(* it has looked up; listed and unlisted record what it could have seen    *)
(* since it was first asked for a key id, so that the outcome it keeps for *)
(* a key id is always among them.                                          *)
(***************************************************************************)
EXTENDS TokenVerification, TLAPS

LEMMA InitIInv == Init => IInv
<1> SUFFICES ASSUME Init PROVE IInv
  OBVIOUS
<1>1. TypeOK
  <2>1. registered \in BOOLEAN /\ document \in KeySet
    BY DEF Init, KeySet
  <2> QED BY <2>1, BoundsAssumption DEF Init, TypeOK
<1>2. OutcomesSeen
  <2>1. None # Failed
    BY NoneAssumption
  <2> QED BY <2>1 DEF Init, OutcomesSeen, Token
<1>3. LookupsSeen /\ AcceptedWereListed /\ ListedAreAccepted
  BY DEF Init, LookupsSeen, AcceptedWereListed, ListedAreAccepted, Busy
<1> QED BY <1>1, <1>2, <1>3 DEF IInv

\* A fault keeps the count of the faults in its bound.
LEMMA FaultCounted ==
    ASSUME IInv, Fault
    PROVE  faults' \in 0 .. MaxFaults
  BY BoundsAssumption DEF IInv, TypeOK, Fault

-----------------------------------------------------------------------------
(* verifyToken                                                             *)

LEMMA CallIInv ==
    ASSUME IInv, NEW k \in Container, NEW t \in Token \cup {None}, Call(k, t)
    PROVE  IInv'
<1> USE DEF IInv
<1>1. Valid \subseteq Token /\ Valid' = Valid
  BY DEF Call, operator, Valid
<1>2. TypeOK'
  BY <1>1 DEF Call, operator, TypeOK, WithKid
<1>3. OutcomesSeen'
  BY DEF Call, operator, TypeOK, OutcomesSeen
<1>4. LookupsSeen'
  BY <1>1 DEF Call, operator, TypeOK, LookupsSeen, Busy, Slot
<1>5. AcceptedWereListed' /\ ListedAreAccepted'
  BY DEF Call, TypeOK, AcceptedWereListed, ListedAreAccepted
<1> QED BY <1>2, <1>3, <1>4, <1>5

\* A look up that ends without a key set misses every token of its key id.
LEMMA KeepFailedIInv ==
    ASSUME IInv, NEW k \in Container, pc[k] \in {"settings", "fetch"},
           pc' = [pc EXCEPT ![k] = "rejected"], Keep(k, Failed),
           WithKid(token[k][1]) \subseteq unlisted'[k],
           unlisted' = [unlisted EXCEPT ![k] = unlisted'[k]],
           unlisted[k] \subseteq unlisted'[k], unlisted'[k] \subseteq Token,
           UNCHANGED <<registered, document, token, listed, current>>,
           faults' \in 0 .. MaxFaults
    PROVE  IInv'
<1> USE DEF IInv
<1>1. token[k] \in Token /\ token[k][1] \in Kid /\ token[k] \in WithKid(token[k][1])
  BY DEF LookupsSeen, Busy, Token, WithKid
<1>2. jwks' = [jwks EXCEPT ![k][token[k][1]] = Failed]
  BY DEF Keep, Slot
<1>3. TypeOK'
  BY <1>1, <1>2 DEF TypeOK
<1>4. OutcomesSeen'
  BY <1>1, <1>2 DEF TypeOK, OutcomesSeen, WithKid, Token
<1>5. LookupsSeen'
  BY <1>1, <1>2, NoneAssumption DEF TypeOK, LookupsSeen, Busy, Valid
<1>6. AcceptedWereListed' /\ ListedAreAccepted'
  BY <1>1 DEF TypeOK, AcceptedWereListed, ListedAreAccepted
<1> QED BY <1>3, <1>4, <1>5, <1>6

LEMMA ReadSettingsIInv ==
    ASSUME IInv, NEW k \in Container, ReadSettings(k)
    PROVE  IInv'
<1> USE DEF IInv
<1>1. CASE registered
  <2>1. pc' = [pc EXCEPT ![k] = "fetch"] /\ UNCHANGED jwks
    BY <1>1 DEF ReadSettings
  <2>2. TypeOK' /\ OutcomesSeen'
    BY <2>1 DEF ReadSettings, operator, history, TypeOK, OutcomesSeen
  <2>3. LookupsSeen'
    BY <1>1, <2>1 DEF ReadSettings, operator, history, TypeOK, LookupsSeen, Busy, Valid
  <2>4. AcceptedWereListed' /\ ListedAreAccepted'
    BY <2>1 DEF ReadSettings, history, TypeOK, AcceptedWereListed, ListedAreAccepted
  <2> QED BY <2>2, <2>3, <2>4
<1>2. CASE ~registered
  <2>1. WithKid(token[k][1]) \subseteq unlisted[k]
    BY <1>2 DEF ReadSettings, LookupsSeen, Valid, WithKid
  <2>2. /\ pc[k] = "settings" /\ pc' = [pc EXCEPT ![k] = "rejected"]
        /\ Keep(k, Failed)
    BY <1>2 DEF ReadSettings
  <2>3. /\ unlisted' = [unlisted EXCEPT ![k] = unlisted'[k]]
        /\ unlisted'[k] = unlisted[k] /\ unlisted'[k] \subseteq Token
    BY DEF ReadSettings, history, TypeOK
  <2>4. /\ UNCHANGED <<registered, document, token, listed, current>>
        /\ faults' \in 0 .. MaxFaults
    BY DEF ReadSettings, operator, history, TypeOK
  <2> QED BY <2>1, <2>2, <2>3, <2>4, KeepFailedIInv
<1> QED BY <1>1, <1>2

LEMMA LookupFaultIInv ==
    ASSUME IInv, NEW k \in Container, LookupFault(k)
    PROVE  IInv'
<1>1. /\ pc[k] \in {"settings", "fetch"} /\ pc' = [pc EXCEPT ![k] = "rejected"]
      /\ Keep(k, Failed) /\ faults' \in 0 .. MaxFaults
  BY FaultCounted DEF LookupFault
<1>2. /\ unlisted'[k] = unlisted[k] \cup WithKid(token[k][1])
      /\ unlisted' = [unlisted EXCEPT ![k] = unlisted'[k]]
      /\ unlisted'[k] \subseteq Token
  BY DEF LookupFault, IInv, TypeOK, WithKid
<1>3. UNCHANGED <<registered, document, token, listed, current>>
  BY DEF LookupFault, operator
<1> QED BY <1>1, <1>2, <1>3, KeepFailedIInv

LEMMA FetchJWKSIInv ==
    ASSUME IInv, NEW k \in Container, FetchJWKS(k)
    PROVE  IInv'
<1> USE DEF IInv
<1>1. token[k] \in Token /\ token[k][1] \in Kid /\ registered
  BY DEF FetchJWKS, LookupsSeen, Busy, Token
<1>2. jwks' = [jwks EXCEPT ![k][token[k][1]] = document]
  BY DEF FetchJWKS, Keep, Slot
<1>3. document \in KeySet /\ document # None /\ document # Failed
  BY NoneAssumption, FailedAssumption DEF TypeOK
<1>4. TypeOK'
  BY <1>1, <1>2, <1>3 DEF FetchJWKS, operator, history, TypeOK
<1>5. OutcomesSeen'
  <2>1. ASSUME NEW t \in Token, t[1] = token[k][1]
        PROVE  IF document[t[1]] = t[2] THEN t \in listed[k] ELSE t \in unlisted[k]
    BY <1>1, <2>1 DEF FetchJWKS, LookupsSeen, Valid, WithKid
  <2> QED BY <1>1, <1>2, <1>3, <2>1 DEF FetchJWKS, history, TypeOK, OutcomesSeen, Token
<1>6. LookupsSeen'
  BY <1>1, <1>2, <1>3 DEF FetchJWKS, operator, history, TypeOK, LookupsSeen, Busy, Valid
<1>7. AcceptedWereListed' /\ ListedAreAccepted'
  BY DEF FetchJWKS, history, TypeOK, AcceptedWereListed, ListedAreAccepted
<1> QED BY <1>4, <1>5, <1>6, <1>7

\* The verdict is that of the outcome the container keeps.
LEMMA VerifyIInv ==
    ASSUME IInv, NEW k \in Container, Verify(k)
    PROVE  IInv'
<1> USE DEF IInv
<1>1. token[k] \in Token /\ jwks[k][token[k][1]] # None
  BY DEF Verify, LookupsSeen, Busy
<1>2. TypeOK' /\ OutcomesSeen'
  BY DEF Verify, operator, history, TypeOK, OutcomesSeen
<1>3. LookupsSeen'
  BY DEF Verify, operator, history, TypeOK, LookupsSeen, Busy, Valid
<1>4. AcceptedWereListed' /\ ListedAreAccepted'
  BY <1>1 DEF Verify, history, TypeOK, OutcomesSeen, KnownKey, Slot,
              AcceptedWereListed, ListedAreAccepted
<1> QED BY <1>2, <1>3, <1>4

-----------------------------------------------------------------------------
(* The containers and the operator                                         *)

LEMMA RestartIInv ==
    ASSUME IInv, NEW k \in Container, Restart(k), faults' \in 0 .. MaxFaults
    PROVE  IInv'
<1> USE DEF IInv, Restart
<1>1. TypeOK'
  BY DEF operator, TypeOK
<1>2. OutcomesSeen'
  BY NoneAssumption DEF TypeOK, OutcomesSeen, Token
<1>3. LookupsSeen'
  BY DEF operator, TypeOK, LookupsSeen, Busy, Valid
<1>4. AcceptedWereListed' /\ ListedAreAccepted'
  BY DEF TypeOK, AcceptedWereListed, ListedAreAccepted
<1> QED BY <1>1, <1>2, <1>3, <1>4

\* Whatever the operator changes, a look up under way sees it or what it was.
LEMMA OperatorIInv ==
    ASSUME IInv, registered' \in BOOLEAN, document' \in KeySet,
           registered => registered', Seen
    PROVE  IInv'
<1> USE DEF IInv, Seen
<1>1. Valid' \subseteq Token
  BY DEF Valid
<1>2. TypeOK'
  BY <1>1 DEF TypeOK
<1>3. OutcomesSeen'
  BY DEF OutcomesSeen
<1>4. LookupsSeen'
  <2>1. ASSUME NEW k \in Container, pc[k] \in {"settings", "fetch"}
        PROVE  /\ WithKid(token[k][1]) \cap Valid' \subseteq listed'[k]
               /\ WithKid(token[k][1]) \ Valid' \subseteq unlisted'[k]
    <3>1. token[k][1] \in Asked(k)
      BY <2>1 DEF LookupsSeen, Busy, Asked, Token
    <3> QED BY <3>1 DEF WithKid
  <2> QED BY <2>1 DEF LookupsSeen, Busy, WithKid
<1>5. AcceptedWereListed' /\ ListedAreAccepted'
  BY DEF AcceptedWereListed, ListedAreAccepted
<1> QED BY <1>2, <1>3, <1>4, <1>5

-----------------------------------------------------------------------------
(* The theorems                                                            *)

LEMMA NextIInv == IInv /\ [Next]_vars => IInv'
<1> SUFFICES ASSUME IInv, [Next]_vars PROVE IInv'
  OBVIOUS
<1>1. ASSUME NEW k \in Container, Step(k) \/ LookupFault(k) PROVE IInv'
  BY <1>1, ReadSettingsIInv, FetchJWKSIInv, VerifyIInv, LookupFaultIInv DEF Step
<1>2. ASSUME NEW k \in Container, Recycle(k) \/ Kill(k) PROVE IInv'
  <2>1. faults \in 0 .. MaxFaults
    BY DEF IInv, TypeOK
  <2> QED BY <1>2, <2>1, FaultCounted, RestartIInv DEF Recycle, Kill
<1>3. CASE Register
  BY <1>3, OperatorIInv DEF Register, IInv, TypeOK
<1>4. ASSUME NEW i \in Kid, NEW key \in Key \cup {None}, Publish(i, key) PROVE IInv'
  <2>1. document' \in KeySet
    BY <1>4 DEF Publish, IInv, TypeOK, KeySet
  <2> QED BY <1>4, <2>1, OperatorIInv DEF Publish, IInv, TypeOK
<1>5. CASE UNCHANGED vars
  BY <1>5 DEF vars, operator, history, IInv, TypeOK, OutcomesSeen, LookupsSeen, Busy,
              Valid, AcceptedWereListed, ListedAreAccepted
<1> QED BY <1>1, <1>2, <1>3, <1>4, <1>5, CallIInv DEF Next

\* The inductive invariant holds in every reachable state.
THEOREM Invariance == Spec => []IInv
  BY InitIInv, NextIInv, PTL DEF Spec

\* The containers and the key set are well typed.
THEOREM TypeCorrectness == Spec => []TypeOK
<1>1. IInv => TypeOK
  BY DEF IInv
<1> QED BY <1>1, Invariance, PTL

\* A removed key works at most as long as the containers that looked it up.
THEOREM AcceptedWereListedAlways == Spec => []AcceptedWereListed
<1>1. IInv => AcceptedWereListed
  BY DEF IInv
<1> QED BY <1>1, Invariance, PTL

\* A key that is served before it is used works with every container.
THEOREM ListedAreAcceptedAlways == Spec => []ListedAreAccepted
<1>1. IInv => ListedAreAccepted
  BY DEF IInv
<1> QED BY <1>1, Invariance, PTL
=============================================================================
