--------------------------- MODULE ProxyShutdown ---------------------------
(***************************************************************************)
(* The end of the proxy process (main of cmd/proxy): on a signal the HTTP  *)
(* server stops accepting requests and waits for the handlers in flight,   *)
(* then main returns and its deferred calls close the audit publisher.  If *)
(* the handlers outlast the fifteen seconds of Shutdown, main exits with   *)
(* os.Exit, which runs no deferred call.                                   *)
(*                                                                         *)
(* An event of Events stands for the request it describes: the handler     *)
(* publishes it just before it answers, or answers without publishing.     *)
(***************************************************************************)
EXTENDS AuditPublisher

VARIABLES
    server,   \* "serving", "draining", "down" (Shutdown returned) or "killed"
    handler   \* per request, its handler: "none", "running" or "returned"

svars == <<server, handler>>
pvars == <<vars, svars>>

SInit ==
    /\ Init
    /\ server = "serving"
    /\ handler = [e \in Events |-> "none"]

Running == {e \in Events : handler[e] = "running"}

Alive == server # "killed"

\* Only a server that serves starts a handler.
Accept(e) ==
    /\ server = "serving"
    /\ handler[e] = "none"
    /\ handler' = [handler EXCEPT ![e] = "running"]
    /\ UNCHANGED <<vars, server>>

\* The handler publishes its event; what Publish returns is ignored.
HandlerPublishes(e) ==
    /\ Alive
    /\ e \in Running
    /\ Publish(e)
    /\ UNCHANGED svars

\* The handler answers, having published or having failed before that.
HandlerReturns(e) ==
    /\ Alive
    /\ e \in Running
    /\ call[e] # "checked"
    /\ handler' = [handler EXCEPT ![e] = "returned"]
    /\ UNCHANGED <<vars, server>>

Signal ==
    /\ server = "serving"
    /\ server' = "draining"
    /\ UNCHANGED <<vars, handler>>

\* Mutant of ShutdownReturns: the server is closed under its handlers.
ShutdownAbandons ==
    /\ server = "draining"
    /\ server' = "down"
    /\ UNCHANGED <<vars, handler>>

\* Shutdown returns nil: every connection was idle.
ShutdownReturns ==
    /\ server = "draining"
    /\ Running = {}
    /\ server' = "down"
    /\ UNCHANGED <<vars, handler>>

\* Shutdown's context expires: os.Exit(1), and the buffer is gone.
ShutdownTimesOut ==
    /\ server = "draining"
    /\ Running # {}
    /\ server' = "killed"
    /\ UNCHANGED <<vars, handler>>

\* main returns: its deferred Close runs.
DeferredClose ==
    /\ server = "down"
    /\ CloseBegins \/ CloseReturns
    /\ UNCHANGED svars

WorkerRuns ==
    /\ Alive
    /\ Work
    /\ UNCHANGED svars

SNext ==
    \/ \E e \in Events :
          Accept(e) \/ HandlerPublishes(e) \/ HandlerReturns(e)
    \/ Signal
    \/ ShutdownReturns
    \/ ShutdownTimesOut
    \/ DeferredClose
    \/ WorkerRuns

SSpec == SInit /\ [][SNext]_pvars

\* The type invariant of the process.
STypeOK ==
    /\ TypeOK
    /\ server \in {"serving", "draining", "down", "killed"}
    /\ handler \in [Events -> {"none", "running", "returned"}]

\* main closes the publisher only after Shutdown has waited for the
\* handlers: none is refused, and the race of Publish and Close cannot
\* happen.
NoneRefused == \A e \in Events : call[e] # "refused"

\* A signalled process ends: by main's return, the publisher closed, or by
\* os.Exit.
ExitReached ==
    (server = "draining") ~> (closing = "returned" \/ server = "killed")
=============================================================================
