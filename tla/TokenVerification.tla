-------------------------- MODULE TokenVerification --------------------------
(***************************************************************************)
(* Every GraphQL lambda checks the JWT of its caller with verifyToken: it  *)
(* reads the URL of a JSON web key set from the settings, fetches the set  *)
(* and verifies the token with the key that has the token's key id (kid).  *)
(* Each container, the process that serves the calls of a lambda one after *)
(* the other, keeps the outcome of the look up by key id for as long as it *)
(* lives, a failed one, too.  Meanwhile the operator registers the URL and *)
(* adds, replaces and removes the keys that are served there.              *)
(***************************************************************************)
EXTENDS Naturals

CONSTANTS
    Container,  \* the containers of the lambdas
    Kid,        \* the key ids
    Key,        \* the key pairs
    MaxFaults,  \* bound: how many look ups fail and containers are killed
    None,       \* no key, no token, no outcome
    Failed      \* a look up that failed: Left in place of a key set

\* A token names a key id and is signed with a key.
Token == Kid \X Key

\* A key set: the key that is listed under each key id.
KeySet == [Kid -> Key \cup {None}]

ASSUME BoundsAssumption == MaxFaults \in Nat
ASSUME NoneAssumption == None \notin Key \cup Token \cup KeySet \cup {Failed}
ASSUME FailedAssumption == Failed \notin KeySet

VARIABLES
    registered, \* whether the settings hold the URL of the key set
    document,   \* the key set served at the URL
    pc,         \* pc[k]: what container k does next
    token,      \* token[k]: the token of its call, the last one if it is idle
    jwks,       \* jwks[k][i]: the outcome it keeps for key id i
    listed,     \* listed[k]: the tokens it could have known from a look up
    unlisted,   \* unlisted[k]: the tokens it could have missed in a look up
    current,    \* current[k]: the tokens whose keys were served during its call
    faults      \* how many look ups failed and containers were killed

operator == <<registered, document>>
history == <<listed, unlisted, current>>
vars == <<operator, pc, token, jwks, history, faults>>

Init ==
    /\ registered = FALSE
    /\ document = [i \in Kid |-> None]
    /\ pc = [k \in Container |-> "idle"]
    /\ token = [k \in Container |-> None]
    /\ jwks = [k \in Container |-> [i \in Kid |-> None]]
    /\ listed = [k \in Container |-> {}]
    /\ unlisted = [k \in Container |-> {}]
    /\ current = [k \in Container |-> {}]
    /\ faults = 0

-----------------------------------------------------------------------------
Fault == faults < MaxFaults /\ faults' = faults + 1

\* A call of container k is under way.
Busy(k) == pc[k] \in {"settings", "fetch", "verify"}

\* The tokens that are valid by the key set served now.
Valid == {t \in Token : registered /\ document[t[1]] = t[2]}

\* The tokens that name key id i.
WithKid(i) == {t \in Token : t[1] = i}

\* The key ids container k keeps an outcome for, or is looking up.
Asked(k) ==
    {i \in Kid : jwks[k][i] # None \/ (pc[k] \in {"settings", "fetch"} /\ token[k][1] = i)}

-----------------------------------------------------------------------------
(* verifyToken                                                             *)

\* Mutant of Slot: one outcome is kept for the URL, not one per key id.
SlotOfUrl(t) == CHOOSE i \in Kid : TRUE

\* The entry of jwks that token t uses.
Slot(t) == t[1]

\* Container k is called with token t, or with none that can be decoded and
\* has a key id.  The token's key id decides whether to look anything up.
Call(k, t) ==
    /\ ~Busy(k)
    /\ token' = [token EXCEPT ![k] = t]
    /\ current' = [current EXCEPT ![k] = Valid]
    /\ \/ /\ t = None
          /\ pc' = [pc EXCEPT ![k] = "rejected"]
          /\ UNCHANGED <<listed, unlisted>>
       \/ /\ t # None /\ jwks[k][Slot(t)] # None
          /\ pc' = [pc EXCEPT ![k] = "verify"]
          /\ UNCHANGED <<listed, unlisted>>
       \/ /\ t # None /\ jwks[k][Slot(t)] = None
          /\ pc' = [pc EXCEPT ![k] = "settings"]
          /\ listed' = [listed EXCEPT ![k] = @ \cup (WithKid(t[1]) \cap Valid)]
          /\ unlisted' = [unlisted EXCEPT ![k] = @ \cup (WithKid(t[1]) \ Valid)]
    /\ UNCHANGED <<operator, jwks, faults>>

\* The outcome of the look up is kept for the key id of the token.
Keep(k, outcome) == jwks' = [jwks EXCEPT ![k][Slot(token[k])] = outcome]

\* Without a URL the settings are Left, and so is the look up.
ReadSettings(k) ==
    /\ pc[k] = "settings"
    /\ \/ /\ registered
          /\ pc' = [pc EXCEPT ![k] = "fetch"]
          /\ UNCHANGED jwks
       \/ /\ ~registered
          /\ pc' = [pc EXCEPT ![k] = "rejected"]
          /\ Keep(k, Failed)
    /\ UNCHANGED <<operator, token, history, faults>>

\* Mutant of FetchJWKS: only the entry of the token's key id is kept.
FetchKey(k) ==
    /\ pc[k] = "fetch"
    /\ Keep(k, [i \in {token[k][1]} |-> document[i]])
    /\ pc' = [pc EXCEPT ![k] = "verify"]
    /\ UNCHANGED <<operator, token, history, faults>>

FetchJWKS(k) ==
    /\ pc[k] = "fetch"
    /\ Keep(k, document)
    /\ pc' = [pc EXCEPT ![k] = "verify"]
    /\ UNCHANGED <<operator, token, history, faults>>

\* The settings or the key set cannot be read.
LookupFault(k) ==
    /\ pc[k] \in {"settings", "fetch"}
    /\ Fault
    /\ Keep(k, Failed)
    /\ pc' = [pc EXCEPT ![k] = "rejected"]
    /\ unlisted' = [unlisted EXCEPT ![k] = @ \cup WithKid(token[k][1])]
    /\ UNCHANGED <<operator, token, listed, current>>

\* Mutant of KnownKey: any key of the set will do.
AnyKey(k) ==
    LET keys == jwks[k][Slot(token[k])]
    IN  keys # Failed /\ \E i \in Kid : keys[i] = token[k][2]

\* The key set lists the key of the token under the token's key id.
KnownKey(k) ==
    LET keys == jwks[k][Slot(token[k])]
    IN  keys # Failed /\ keys[token[k][1]] = token[k][2]

Verify(k) ==
    /\ pc[k] = "verify"
    /\ pc' = [pc EXCEPT ![k] = IF KnownKey(k) THEN "accepted" ELSE "rejected"]
    /\ UNCHANGED <<operator, token, jwks, history, faults>>

-----------------------------------------------------------------------------
(* The containers                                                          *)

\* Container k is replaced by a new one.
Restart(k) ==
    /\ pc' = [pc EXCEPT ![k] = "idle"]
    /\ token' = [token EXCEPT ![k] = None]
    /\ jwks' = [jwks EXCEPT ![k] = [i \in Kid |-> None]]
    /\ listed' = [listed EXCEPT ![k] = {}]
    /\ unlisted' = [unlisted EXCEPT ![k] = {}]
    /\ current' = [current EXCEPT ![k] = {}]
    /\ UNCHANGED operator

Recycle(k) == ~Busy(k) /\ Restart(k) /\ UNCHANGED faults

\* The call crashes or times out, and the container with it.
Kill(k) == Busy(k) /\ Fault /\ Restart(k)

-----------------------------------------------------------------------------
(* The operator                                                            *)

\* What the containers may see from now on.
Seen ==
    /\ listed' = [k \in Container |->
                    listed[k] \cup {t \in Valid' : t[1] \in Asked(k)}]
    /\ unlisted' = [k \in Container |->
                    unlisted[k] \cup {t \in Token \ Valid' : t[1] \in Asked(k)}]
    /\ current' = [k \in Container |->
                    IF Busy(k) THEN current[k] \cup Valid' ELSE current[k]]
    /\ UNCHANGED <<pc, token, jwks, faults>>

\* "aws ssm put-parameter --name .../chat/jwks.json" (README.md:127).
Register ==
    /\ ~registered
    /\ registered' = TRUE
    /\ UNCHANGED document
    /\ Seen

\* The key listed under key id i is added, replaced or removed.
Publish(i, key) ==
    /\ document[i] # key
    /\ document' = [document EXCEPT ![i] = key]
    /\ UNCHANGED registered
    /\ Seen

-----------------------------------------------------------------------------
Step(k) == ReadSettings(k) \/ FetchJWKS(k) \/ Verify(k)

Next ==
    \/ \E k \in Container, t \in Token \cup {None} : Call(k, t)
    \/ \E k \in Container : Step(k) \/ LookupFault(k) \/ Recycle(k) \/ Kill(k)
    \/ Register
    \/ \E i \in Kid, key \in Key \cup {None} : Publish(i, key)

Spec == Init /\ [][Next]_vars

-----------------------------------------------------------------------------
(* Properties                                                              *)

\* The containers hold what verifyToken writes.
TypeOK ==
    /\ registered \in BOOLEAN
    /\ document \in KeySet
    /\ pc \in [Container -> {"idle", "settings", "fetch", "verify", "accepted",
                             "rejected"}]
    /\ token \in [Container -> Token \cup {None}]
    /\ jwks \in [Container -> [Kid -> KeySet \cup {None, Failed}]]
    /\ listed \in [Container -> SUBSET Token]
    /\ unlisted \in [Container -> SUBSET Token]
    /\ current \in [Container -> SUBSET Token]
    /\ faults \in 0 .. MaxFaults

\* A token is accepted only if its key was served under its key id at some
\* time since the container was first asked for this key id: a removed key
\* works at most as long as the containers that have looked it up.
AcceptedWereListed ==
    \A k \in Container : pc[k] = "accepted" => token[k] \in listed[k]

\* A token whose key was served under its key id ever since the container was
\* first asked for this key id is accepted, unless the look up of this key id
\* failed in this container: a new key that is served before it is used works
\* with every container, whatever other key ids it has looked up before, and
\* whichever of these look ups failed.
ListedAreAccepted ==
    \A k \in Container :
        pc[k] = "rejected" /\ token[k] # None => token[k] \in unlisted[k]

\* "When verifying tokens, the integration will look up this URL to retrieve
\* the public key" (README.md:129-130): a token is accepted only if its key was
\* served at the URL at some time while it was verified.
AcceptedAreCurrent ==
    \A k \in Container : pc[k] = "accepted" => token[k] \in current[k]

-----------------------------------------------------------------------------
(* The inductive invariant: what a container keeps, or is looking up, is    *)
(* what it could have seen since it was first asked for the key id.         *)

OutcomesSeen ==
    \A k \in Container, t \in Token :
      /\ jwks[k][t[1]] = Failed => t \in unlisted[k]
      /\ jwks[k][t[1]] \notin {None, Failed} =>
           IF jwks[k][t[1]][t[1]] = t[2] THEN t \in listed[k] ELSE t \in unlisted[k]

LookupsSeen ==
    \A k \in Container :
      /\ Busy(k) => token[k] \in Token
      /\ pc[k] \in {"settings", "fetch"} =>
           /\ WithKid(token[k][1]) \cap Valid \subseteq listed[k]
           /\ WithKid(token[k][1]) \ Valid \subseteq unlisted[k]
      /\ pc[k] = "fetch" => registered
      /\ pc[k] = "verify" => jwks[k][token[k][1]] # None

IInv ==
    /\ TypeOK
    /\ OutcomesSeen
    /\ LookupsSeen
    /\ AcceptedWereListed
    /\ ListedAreAccepted
=============================================================================
