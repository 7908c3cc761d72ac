------------------------------- MODULE Client -------------------------------
(***************************************************************************)
(* The life of Kicbac and AsyncKicbac objects (kicbac/_client.py): where   *)
(* their security key comes from, whose httpx client they use, and what    *)
(* closing them closes.  Several of them may be built in one process, from *)
(* one environment and on one httpx client, as a merchant with several     *)
(* gateway accounts would.                                                 *)
(***************************************************************************)
CONSTANTS
  Clients,        \* Kicbac objects that may be constructed
  Https,          \* httpx clients the merchant brings along
  SecurityKeys

\* Neither given nor set; and the empty string.
None == "None"
Empty == ""

KeyValues == SecurityKeys \cup {None, Empty}

VARIABLES
  environment,   \* KICBAC_SECURITY_KEY
  client,        \* client[c]: see NotBuilt, Refused and Kicbac
  openHttp,      \* httpx clients that are open
  request,       \* request[c]: the key of the last request of c
  asked,         \* history: the key c's constructor was given, and what the
                 \* environment said then
  disposed       \* history: httpx clients the merchant closed

vars == <<environment, client, openHttp, request, asked, disposed>>

\* The httpx client that c makes for itself.
Own(c) == <<c>>

ASSUME ConstantsAssumption ==
  /\ None \notin Https
  /\ \A c \in Clients : Own(c) \notin Https
  /\ None \notin SecurityKeys /\ Empty \notin SecurityKeys

NotBuilt == [state |-> "not built"]
Refused == [state |-> "refused"]
Kicbac(key, http, owns) ==
  [state |-> "built", key |-> key, http |-> http, owns |-> owns]

Init ==
  /\ environment \in KeyValues
  /\ client = [c \in Clients |-> NotBuilt]
  /\ openHttp = Https
  /\ request = [c \in Clients |-> None]
  /\ asked = [c \in Clients |-> [key |-> None, environment |-> None]]
  /\ disposed = {}

-----------------------------------------------------------------------------

\* An empty argument falls back to the environment.
ResolveSecurityKey_mut(argument) ==
  IF argument \notin {None, Empty} THEN argument ELSE environment

\* _resolve_security_key, up to its check.
ResolveSecurityKey(argument) == IF argument # None THEN argument ELSE environment

\* `if key is None` instead of `if not key`.
IsKey_mut(key) == key # None

IsKey(key) == key \notin {None, Empty}

SetEnvironment ==
  /\ environment' \in KeyValues
  /\ UNCHANGED <<client, openHttp, request, asked, disposed>>

\* The httpx client is made before the key is looked at.
Construct_mut(c, key, http) ==
  LET resolved == ResolveSecurityKey(key)
      owns == http = None
  IN
  /\ client[c] = NotBuilt
  /\ client' = [client EXCEPT ![c] =
       IF IsKey(resolved) THEN Kicbac(resolved, IF owns THEN Own(c) ELSE http, owns)
       ELSE Refused]
  /\ openHttp' = IF owns THEN openHttp \cup {Own(c)} ELSE openHttp
  /\ asked' = [asked EXCEPT ![c] = [key |-> key, environment |-> environment]]
  /\ UNCHANGED <<environment, request, disposed>>

\* __init__: AuthenticationError, or a client with a key and an httpx client.
Construct(c, key, http) ==
  LET resolved == ResolveSecurityKey(key)
      owns == http = None
  IN
  /\ client[c] = NotBuilt
  /\ \/ /\ ~IsKey(resolved)
        /\ client' = [client EXCEPT ![c] = Refused]
        /\ UNCHANGED openHttp
     \/ /\ IsKey(resolved)
        /\ client' = [client EXCEPT ![c] =
             Kicbac(resolved, IF owns THEN Own(c) ELSE http, owns)]
        /\ openHttp' = IF owns THEN openHttp \cup {Own(c)} ELSE openHttp
  /\ asked' = [asked EXCEPT ![c] = [key |-> key, environment |-> environment]]
  /\ UNCHANGED <<environment, request, disposed>>

Built(c) == client[c].state \in {"built", "closed"}

\* A method, or a page of a report.  On a closed httpx client it raises
\* httpx's RuntimeError instead and nothing changes.
Call(c) ==
  /\ Built(c)
  /\ client[c].http \in openHttp
  /\ request' = [request EXCEPT ![c] = client[c].key]
  /\ UNCHANGED <<environment, client, openHttp, asked, disposed>>

\* Every httpx client is closed, whoever brought it.
Close_mut(c) ==
  /\ Built(c)
  /\ client' = [client EXCEPT ![c].state = "closed"]
  /\ openHttp' = openHttp \ {client[c].http}
  /\ UNCHANGED <<environment, request, asked, disposed>>

\* The httpx client is left to the garbage collector.
Close_never_mut(c) ==
  /\ Built(c)
  /\ client' = [client EXCEPT ![c].state = "closed"]
  /\ UNCHANGED <<environment, openHttp, request, asked, disposed>>

\* close, aclose, and the end of a with block, exception or not.
Close(c) ==
  /\ Built(c)
  /\ client' = [client EXCEPT ![c].state = "closed"]
  /\ openHttp' = IF client[c].owns THEN openHttp \ {client[c].http} ELSE openHttp
  /\ UNCHANGED <<environment, request, asked, disposed>>

\* The merchant closes an httpx client of theirs.
Dispose(http) ==
  /\ http \in openHttp
  /\ openHttp' = openHttp \ {http}
  /\ disposed' = disposed \cup {http}
  /\ UNCHANGED <<environment, client, request, asked>>

Next ==
  \/ SetEnvironment
  \/ \E c \in Clients :
       \/ \E key \in KeyValues, http \in Https \cup {None} : Construct(c, key, http)
       \/ Call(c)
       \/ Close(c)
  \/ \E http \in Https : Dispose(http)

Spec == Init /\ [][Next]_vars

-----------------------------------------------------------------------------
(***************************************************************************)
(* Properties                                                              *)
(***************************************************************************)

\* Types; a client that was built has a key.
TypeOK ==
  /\ environment \in KeyValues
  /\ openHttp \subseteq Https \cup {Own(c) : c \in Clients}
  /\ disposed \subseteq Https
  /\ \A c \in Clients : Built(c) =>
       /\ client[c].key \in SecurityKeys
       /\ client[c].owns <=> client[c].http = Own(c)

\* A merchant's httpx client is closed by the merchant only ("never closed by
\* the SDK"), so that closing one of the clients that share it does not stop
\* the others.
BorrowedStaysOpen == \A http \in Https : http \in openHttp \/ http \in disposed

\* Every open connection pool that the SDK made belongs to a client that can
\* still be closed: none is left behind by a refused key or a closed client.
NoPoolIsLeaked ==
  \A c \in Clients : Own(c) \in openHttp => client[c].state = "built" /\ client[c].owns

\* A request carries the key its client was built with, whatever happens to
\* the environment and whoever else uses the httpx client; a key that was
\* given, be it empty, is never replaced by the environment's.
KeysAreNotMixed ==
  \A c \in Clients : request[c] # None =>
    request[c] = IF asked[c].key = None THEN asked[c].environment ELSE asked[c].key

\* A client that made its httpx client sends nothing any more once closed.
SilentOnceClosed ==
  [][\A c \in Clients :
       client[c].state = "closed" /\ client[c].owns => request'[c] = request[c]]_vars
=============================================================================
