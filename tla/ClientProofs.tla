---------------------------- MODULE ClientProofs ----------------------------
(***************************************************************************)
(* Keys and connection pools are not mixed up, for any number of clients,  *)
(* keys and shared httpx clients.  The invariant adds to the properties    *)
(* what a client keeps from its construction on: its key and its own or    *)
(* borrowed httpx client.                                                  *)
(***************************************************************************)
EXTENDS Client, TLAPS

Owned == {Own(c) : c \in Clients}

Objects ==
  [state : {"built", "closed"}, key : SecurityKeys, http : Https \cup Owned, owns : BOOLEAN]

Shape ==
  /\ environment \in KeyValues
  /\ client \in [Clients -> {NotBuilt, Refused} \cup Objects]
  /\ openHttp \subseteq Https \cup Owned
  /\ request \in [Clients -> SecurityKeys \cup {None}]
  /\ asked \in [Clients -> [key : KeyValues, environment : KeyValues]]
  /\ disposed \subseteq Https

\* A client has its own httpx client, or one of the merchant's.
HttpInv == \A c \in Clients : Built(c) => (client[c].owns <=> client[c].http = Own(c))

\* A client's key is the one its constructor chose.
KeyInv ==
  \A c \in Clients : Built(c) =>
    client[c].key = IF asked[c].key = None THEN asked[c].environment ELSE asked[c].key

\* Only clients that were built send, and what they send is their key.
RequestInv ==
  \A c \in Clients : request[c] # None => Built(c) /\ request[c] = client[c].key

IInv ==
  Shape /\ HttpInv /\ KeyInv /\ RequestInv /\ BorrowedStaysOpen /\ NoPoolIsLeaked

-----------------------------------------------------------------------------

LEMMA StatesOfRecords ==
  /\ NotBuilt.state = "not built" /\ Refused.state = "refused"
  /\ \A x \in Objects :
       /\ x.state \in {"built", "closed"} /\ x.key \in SecurityKeys
       /\ x.http \in Https \cup Owned /\ x.owns \in BOOLEAN
  BY DEF NotBuilt, Refused, Objects

LEMMA OwnsOfKicbac ==
  ASSUME NEW object, NEW key, NEW http, NEW owns, object = Kicbac(key, http, owns)
  PROVE  object.owns = owns
  BY Zenon DEF Kicbac

LEMMA BuiltIsObject ==
  ASSUME Shape, NEW c \in Clients
  PROVE  Built(c) <=> client[c] \in Objects
<1>1. client[c] \in {NotBuilt, Refused} \cup Objects
  BY DEF Shape
<1> QED
  BY <1>1, StatesOfRecords DEF Built

LEMMA InitIInv == Init => IInv
<1> SUFFICES ASSUME Init
             PROVE  IInv
  OBVIOUS
<1>1. \A c \in Clients : client[c] = NotBuilt /\ ~Built(c)
  BY StatesOfRecords DEF Init, Built
<1> QED
  BY <1>1, ConstantsAssumption DEF Init, IInv, Shape, HttpInv, KeyInv, RequestInv, BorrowedStaysOpen, NoPoolIsLeaked,
         Built, NotBuilt, KeyValues, Owned

\* What is said of a client and its request says nothing of the others'.
LEMMA ConstructStep ==
  ASSUME IInv, NEW c \in Clients, NEW key \in KeyValues, NEW http \in Https \cup {None},
         Construct(c, key, http)
  PROVE  IInv'
<1> DEFINE resolved == ResolveSecurityKey(key)
           owns == http = None
           new == IF IsKey(resolved)
                  THEN Kicbac(resolved, IF owns THEN Own(c) ELSE http, owns)
                  ELSE Refused
<1>1. /\ client[c] = NotBuilt
      /\ client' = [client EXCEPT ![c] = new]
      /\ asked' = [asked EXCEPT ![c] = [key |-> key, environment |-> environment]]
      /\ UNCHANGED <<environment, request, disposed>>
  BY DEF Construct
<1>2. openHttp' = IF IsKey(resolved) /\ owns THEN openHttp \cup {Own(c)} ELSE openHttp
  BY DEF Construct
<1>3. IsKey(resolved) => resolved \in SecurityKeys
  BY DEF IInv, Shape, ResolveSecurityKey, IsKey, KeyValues
<1>4. new \in {Refused} \cup Objects
  BY <1>3 DEF Kicbac, Objects, Owned
<1>5. ~Built(c) /\ request[c] = None
  BY <1>1, StatesOfRecords DEF Built, IInv, RequestInv
<1>6. client'[c] = new /\ \A d \in Clients \ {c} : client'[d] = client[d]
  BY <1>1 DEF IInv, Shape
<1>7. /\ asked'[c] = [key |-> key, environment |-> environment]
      /\ \A d \in Clients \ {c} : asked'[d] = asked[d]
  BY <1>1 DEF IInv, Shape
<1>8. IsKey(resolved) <=> Built(c)'
  BY <1>6 DEF Built, Kicbac, Refused
<1>9. ASSUME IsKey(resolved)
      PROVE  /\ client'[c].state = "built" /\ client'[c].owns = owns
             /\ client'[c].http = IF owns THEN Own(c) ELSE http
  <2>1. client'[c] = Kicbac(resolved, IF owns THEN Own(c) ELSE http, owns)
    BY <1>6, <1>9
  <2> HIDE DEF owns, resolved
  <2>2. client'[c].state = "built"
    BY <2>1 DEF Kicbac
  <2>3. client'[c].http = IF owns THEN Own(c) ELSE http
    BY <2>1 DEF Kicbac
  <2>4. client'[c].owns = owns
    BY <2>1, OwnsOfKicbac, Zenon
  <2> QED
    BY <2>2, <2>3, <2>4, Zenon
<1>10. Shape'
  <2>1. client' \in [Clients -> {NotBuilt, Refused} \cup Objects]
    BY <1>1, <1>4 DEF IInv, Shape
  <2>2. asked' \in [Clients -> [key : KeyValues, environment : KeyValues]]
    BY <1>1 DEF IInv, Shape
  <2>3. openHttp' \subseteq Https \cup Owned
    BY <1>2 DEF IInv, Shape, Owned
  <2> QED
    BY <1>1, <2>1, <2>2, <2>3 DEF IInv, Shape
<1>11. HttpInv'
  <2>1. Built(c)' => (client'[c].owns <=> client'[c].http = Own(c))
    <3>1. SUFFICES ASSUME IsKey(resolved)
                   PROVE  client'[c].owns <=> client'[c].http = Own(c)
      BY <1>8
    <3>2. /\ client'[c].owns = owns
          /\ client'[c].http = IF owns THEN Own(c) ELSE http
      BY <1>9, <3>1
    <3>3. CASE owns
      BY <3>2, <3>3, Zenon
    <3>4. CASE ~owns
      <4>1. http \in Https /\ Own(c) \notin Https
        BY <3>4, ConstantsAssumption
      <4>2. http # Own(c)
        BY <4>1
      <4> QED
        BY <3>2, <3>4, <4>2, Zenon
    <3> QED
      BY <3>3, <3>4
  <2>2. \A d \in Clients \ {c} :
          Built(d)' => (client'[d].owns <=> client'[d].http = Own(d))
    BY <1>6 DEF IInv, HttpInv, Built
  <2> QED
    BY <2>1, <2>2 DEF HttpInv
<1>12. KeyInv'
  <2>1. Built(c)' => client'[c].key = resolved
    BY <1>6, <1>8 DEF Kicbac
  <2> QED
    BY <1>6, <1>7, <2>1 DEF IInv, KeyInv, Built, ResolveSecurityKey
<1>13. RequestInv'
  BY <1>1, <1>5, <1>6 DEF IInv, RequestInv, Built
<1>14. BorrowedStaysOpen'
  BY <1>1, <1>2 DEF IInv, BorrowedStaysOpen
<1>15. NoPoolIsLeaked'
  <2>1. ASSUME NEW d \in Clients, Own(d) \in openHttp', d # c
        PROVE  client'[d].state = "built" /\ client'[d].owns
    <3>1. Own(d) # Own(c)
      BY <2>1 DEF Own
    <3> QED
      BY <1>2, <1>6, <2>1, <3>1 DEF IInv, NoPoolIsLeaked
  <2>2. ASSUME Own(c) \in openHttp'
        PROVE  client'[c].state = "built" /\ client'[c].owns
    <3>1. Own(c) \notin openHttp
      BY <1>5 DEF IInv, NoPoolIsLeaked, Built
    <3>2. IsKey(resolved) /\ owns
      BY <1>2, <2>2, <3>1
    <3> QED
      BY <1>9, <3>2, Zenon
  <2> QED
    BY <2>1, <2>2 DEF NoPoolIsLeaked
<1> QED
  BY <1>10, <1>11, <1>12, <1>13, <1>14, <1>15 DEF IInv

LEMMA CallStep ==
  ASSUME IInv, NEW c \in Clients, Call(c)
  PROVE  IInv'
<1>1. Built(c) => client[c].key \in SecurityKeys
  BY BuiltIsObject, StatesOfRecords DEF IInv
<1> QED
  BY <1>1 DEF Call, IInv, Shape, HttpInv, KeyInv, RequestInv, BorrowedStaysOpen,
              NoPoolIsLeaked, Built

LEMMA CloseStep ==
  ASSUME IInv, NEW c \in Clients, Close(c)
  PROVE  IInv'
<1>1. /\ Built(c) /\ client[c] \in Objects
      /\ client' = [client EXCEPT ![c].state = "closed"]
      /\ openHttp' = IF client[c].owns THEN openHttp \ {client[c].http} ELSE openHttp
      /\ UNCHANGED <<environment, request, asked, disposed>>
  BY BuiltIsObject DEF Close, IInv
<1>2. /\ client'[c] = [client[c] EXCEPT !.state = "closed"]
      /\ \A d \in Clients \ {c} : client'[d] = client[d]
  BY <1>1 DEF IInv, Shape
<1>3. /\ client'[c] \in Objects /\ client'[c].state = "closed"
      /\ client'[c].key = client[c].key
      /\ client'[c].http = client[c].http /\ client'[c].owns = client[c].owns
  BY <1>1, <1>2 DEF Objects
<1>4. \A d \in Clients : Built(d)' <=> Built(d)
  BY <1>1, <1>2, <1>3 DEF Built
<1>5. client[c].owns => client[c].http = Own(c)
  BY <1>1 DEF IInv, HttpInv
<1>6. Shape'
  <2>1. client' \in [Clients -> {NotBuilt, Refused} \cup Objects]
    BY <1>1, <1>2, <1>3 DEF IInv, Shape
  <2> QED
    BY <1>1, <2>1 DEF IInv, Shape
<1>7. HttpInv' /\ KeyInv' /\ RequestInv'
  BY <1>1, <1>2, <1>3, <1>4 DEF IInv, HttpInv, KeyInv, RequestInv
<1>8. BorrowedStaysOpen'
  BY <1>1, <1>5, ConstantsAssumption DEF IInv, BorrowedStaysOpen
<1>9. NoPoolIsLeaked'
  <2>1. Own(c) \notin openHttp'
    BY <1>1, <1>5 DEF IInv, NoPoolIsLeaked
  <2> QED
    BY <1>1, <1>2, <2>1 DEF IInv, NoPoolIsLeaked
<1> QED
  BY <1>6, <1>7, <1>8, <1>9 DEF IInv

LEMMA DisposeStep ==
  ASSUME IInv, NEW http \in Https, Dispose(http)
  PROVE  IInv'
  BY DEF Dispose, IInv, Shape, HttpInv, KeyInv, RequestInv, BorrowedStaysOpen,
         NoPoolIsLeaked, Built

LEMMA StepIInv == IInv /\ [Next]_vars => IInv'
<1> SUFFICES ASSUME IInv, [Next]_vars
             PROVE  IInv'
  OBVIOUS
<1>1. CASE SetEnvironment \/ UNCHANGED vars
  BY <1>1 DEF SetEnvironment, vars, IInv, Shape, HttpInv, KeyInv, RequestInv,
              BorrowedStaysOpen, NoPoolIsLeaked, Built
<1>2. ASSUME NEW c \in Clients, NEW key \in KeyValues, NEW http \in Https \cup {None},
             Construct(c, key, http)
      PROVE  IInv'
  BY <1>2, ConstructStep
<1>3. ASSUME NEW c \in Clients, Call(c)
      PROVE  IInv'
  BY <1>3, CallStep
<1>4. ASSUME NEW c \in Clients, Close(c)
      PROVE  IInv'
  BY <1>4, CloseStep
<1>5. ASSUME NEW http \in Https, Dispose(http)
      PROVE  IInv'
  BY <1>5, DisposeStep
<1> QED
  BY <1>1, <1>2, <1>3, <1>4, <1>5 DEF Next

THEOREM Invariance == Spec => []IInv
  BY InitIInv, StepIInv, PTL DEF Spec

\* Types of the clients' state; a client that was built has a key.
THEOREM TypeCorrect == Spec => []TypeOK
<1>1. IInv => TypeOK
  BY BuiltIsObject, StatesOfRecords DEF IInv, Shape, HttpInv, TypeOK, Owned
<1> QED
  BY Invariance, <1>1, PTL

\* An httpx client of the merchant's is open until the merchant closes it.
THEOREM BorrowedIsNeverClosed == Spec => []BorrowedStaysOpen
<1>1. IInv => BorrowedStaysOpen
  BY DEF IInv
<1> QED
  BY Invariance, <1>1, PTL

\* Every open pool the SDK made belongs to a client that can still be closed.
THEOREM PoolsAreClosed == Spec => []NoPoolIsLeaked
<1>1. IInv => NoPoolIsLeaked
  BY DEF IInv
<1> QED
  BY Invariance, <1>1, PTL

\* Every request carries the key its client was built with.
THEOREM KeysStayApart == Spec => []KeysAreNotMixed
<1>1. IInv => KeysAreNotMixed
  BY DEF IInv, KeyInv, RequestInv, KeysAreNotMixed
<1> QED
  BY Invariance, <1>1, PTL

\* A closed client that made its httpx client sends nothing any more.
THEOREM ClosedIsSilent == Spec => SilentOnceClosed
<1> DEFINE Silent ==
      \A c \in Clients :
        client[c].state = "closed" /\ client[c].owns => request'[c] = request[c]
<1>1. IInv /\ [Next]_vars => [Silent]_vars
  <2> SUFFICES ASSUME IInv, Next, NEW c \in Clients,
                      client[c].state = "closed", client[c].owns
               PROVE  request'[c] = request[c]
    OBVIOUS
  <2>1. ~Call(c)
    <3>1. client[c].http = Own(c)
      BY DEF IInv, HttpInv, Built
    <3>2. Own(c) \notin openHttp
      BY DEF IInv, NoPoolIsLeaked
    <3> QED
      BY <3>1, <3>2 DEF Call
  <2>2. ASSUME NEW d \in Clients, Call(d)
        PROVE  request'[c] = request[c]
    BY <2>1, <2>2 DEF Call, IInv, Shape
  <2> QED
    BY <2>2 DEF Next, SetEnvironment, Construct, Close, Dispose
<1> QED
  BY Invariance, <1>1, PTL DEF Spec, SilentOnceClosed
=============================================================================
