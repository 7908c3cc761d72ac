----------------------------- MODULE HttpErrors -----------------------------
(***************************************************************************)
(* The httpx exception classes the SDK's transports tell apart, which of   *)
(* them are retried on which endpoint, and what the caller is told when    *)
(* they are not (kicbac/_transport.py).  An exception is represented by    *)
(* the name of its class.                                                  *)
(*                                                                         *)
(* Here and in the other modules an operator whose name ends in _mut is a  *)
(* plausible bug: a mutated form of the definition that follows it, which  *)
(* PROJECT.json substitutes to show that a property depends on the code.   *)
(***************************************************************************)

Paths == {"transact", "query"}

(***************************************************************************)
(* httpx, modelled from how it is used: the TransportError subclasses a    *)
(* request can raise in each of its phases.  A request first waits for a   *)
(* connection of the pool, opens one unless it was handed a kept-alive     *)
(* one, writes its bytes and reads the reply.                              *)
(***************************************************************************)
PoolErrors    == {"PoolTimeout", "UnsupportedProtocol"}
ConnectErrors == {"ConnectError", "ConnectTimeout", "ProxyError"}
WriteErrors   == {"LocalProtocolError", "WriteError", "WriteTimeout"}
ReadErrors    == {"ReadError", "ReadTimeout", "RemoteProtocolError"}

TransportErrors == PoolErrors \cup ConnectErrors \cup WriteErrors \cup ReadErrors

TimeoutExceptions == {"PoolTimeout", "ConnectTimeout", "WriteTimeout", "ReadTimeout"}

\* Raised while the request is being encoded, before its first byte is written.
UnsentWriteErrors == {"LocalProtocolError"}

-----------------------------------------------------------------------------

\* WriteTimeout taken for a failure to connect.
PreSendErrors_mut == {"ConnectError", "ConnectTimeout", "PoolTimeout", "WriteTimeout"}

PreSendErrors == {"ConnectError", "ConnectTimeout", "PoolTimeout"}

QueryRetryableErrors ==
  PreSendErrors \cup {"WriteError", "WriteTimeout", "ReadError", "ReadTimeout",
                      "RemoteProtocolError"}

\* The query policy on every endpoint.
RetryableFor_mut(path) == QueryRetryableErrors

\* Anything that is not query.php gets the conservative policy.
RetryableFor(path) ==
  IF path = "query" THEN QueryRetryableErrors ELSE PreSendErrors

-----------------------------------------------------------------------------

ConnectionErrorClasses == {"APIConnectionError", "APITimeoutError"}

(***************************************************************************)
(* What the message of an APIConnectionError tells the caller:             *)
(*   no_bytes_sent     "no request bytes were sent, so it is safe to       *)
(*                      retry";                                            *)
(*   may_be_processed  "after the request was sent; the transaction MAY    *)
(*                      still have been processed ...";                    *)
(*   query_retry       "after retries were exhausted; the query is safe to *)
(*                      retry".                                            *)
(***************************************************************************)
Details == {"no_bytes_sent", "may_be_processed", "query_retry"}

\* Every timeout reported as a failure to connect.
DetailOf_mut(exc, path) ==
  IF exc \in PreSendErrors \cup TimeoutExceptions THEN "no_bytes_sent"
  ELSE IF path = "transact" THEN "may_be_processed" ELSE "query_retry"

\* Only the LAST exception is looked at.
DetailOf(exc, path) ==
  IF exc \in PreSendErrors THEN "no_bytes_sent"
  ELSE IF path = "transact" THEN "may_be_processed" ELSE "query_retry"

ClassOf(exc) ==
  IF exc \in TimeoutExceptions THEN "APITimeoutError" ELSE "APIConnectionError"
=============================================================================
