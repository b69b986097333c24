------------------------------- MODULE ServerLife ------------------------------
(***************************************************************************)
(* The life of the server process: what main (backend/cmd/unyport/main.go) *)
(* and New (backend/server/server.go) start from the settings, and how     *)
(* main stops it on a signal.                                              *)
(***************************************************************************)
EXTENDS Integers

CONSTANTS
  Settings,     \* of HTTP3, see Setting
  Clients,
  Grace         \* the timeout of the shutdown (5 s)

\* sound: the two files of settings can be read, the secret of the sessions is long
\* enough, the stores of users and branding open, and UNYPORT_PORT is a port; cert and
\* key: such a file is named; loads: LoadX509KeyPair succeeds; redirect: of HTTP.
Setting ==
  [sound : BOOLEAN, http3 : BOOLEAN, cert : BOOLEAN, key : BOOLEAN, loads : BOOLEAN,
   redirect : BOOLEAN]

ASSUME LifeAssumption ==
  Settings \subseteq Setting /\ Grace \in Nat

VARIABLES
  settings,
  life,        \* of main: "loading", "starting", "waiting" for a signal, "stopping", or
               \* how it ended, "refused", "gracefully", "in error" or "killed"
  tcp, quic,   \* the listeners: "none", "http" or "https", "h3", or "closed"
  redirector,  \* the one that sends clients to HTTPS: "none", "http" or "closed"
  request,     \* of each client: "none", "tcp", "stream" over TCP, "quic", "redirect",
               \* or when it was not answered "cut", and "cut aside" for the last two
  stopTime     \* how long the stop has taken

lifeVars == <<settings, life, tcp, quic, redirector, request, stopTime>>

LifeInit ==
  /\ settings \in Settings
  /\ life = "loading"
  /\ tcp = "none" /\ quic = "none" /\ redirector = "none"
  /\ request = [c \in Clients |-> "none"]
  /\ stopTime = 0

Up == life \in {"starting", "waiting", "stopping"}

\* main and New: what they need is there, and they assemble the handlers; or it is
\* not, and they exit or panic before any listener is open.
Assemble ==
  /\ life = "loading"
  /\ life' = IF settings.sound THEN "starting" ELSE "refused"
  /\ UNCHANGED <<settings, tcp, quic, redirector, request, stopTime>>

\* New: HTTP/3 comes with a certificate that loads.
WithHTTP3 == settings.http3 /\ settings.cert /\ settings.key /\ settings.loads

\* main's goroutine: over TLS if HTTP/3 is enabled and a certificate is named, and
\* then nothing is served if there is no such certificate; over HTTP otherwise. It
\* only logs an error, and where the port is taken this step is never taken.
Listen ==
  /\ life \in {"starting", "waiting"} /\ tcp = "none"
  /\ IF settings.http3 /\ settings.cert
       THEN WithHTTP3 /\ tcp' = "https" /\ quic' = "h3"
       ELSE tcp' = "http" /\ UNCHANGED quic
  /\ UNCHANGED <<settings, life, redirector, request, stopTime>>

\* New's goroutine, whether HTTP/3 was configured or fell back to HTTP. The server is
\* its own: no shutdown reaches it.
ListenToRedirect ==
  /\ Up /\ redirector = "none"
  /\ settings.http3 /\ settings.redirect
  /\ redirector' = "http"
  /\ UNCHANGED <<settings, life, tcp, quic, request, stopTime>>

\* signal.Notify
AwaitSignal ==
  /\ life = "starting"
  /\ life' = "waiting"
  /\ UNCHANGED <<settings, tcp, quic, redirector, request, stopTime>>

-------------------------------------------------------------------------------

\* An SSE stream of the broker ends only with its client.
Request(c, kind) ==
  /\ Up /\ request[c] = "none"
  /\ \/ kind \in {"tcp", "stream"} /\ tcp \in {"http", "https"}
     \/ kind = "quic" /\ quic = "h3"
     \/ kind = "redirect" /\ redirector = "http"
  /\ request' = [request EXCEPT ![c] = kind]
  /\ UNCHANGED <<settings, life, tcp, quic, redirector, stopTime>>

\* Answered; a redirection by the address at which its client may ask again.
Served(c) ==
  /\ Up /\ request[c] \in {"tcp", "quic", "redirect"}
  /\ request' = [request EXCEPT ![c] = "none"]
  /\ UNCHANGED <<settings, life, tcp, quic, redirector, stopTime>>

\* The client leaves, or its request has been cut and it is done with it.
LeavesServer(c) ==
  /\ request[c] \in {"stream", "cut", "cut aside"}
  /\ request' = [request EXCEPT ![c] = "none"]
  /\ UNCHANGED <<settings, life, tcp, quic, redirector, stopTime>>

-------------------------------------------------------------------------------

Without(kinds) ==
  [c \in Clients |-> CASE request[c] \notin kinds -> request[c]
                       [] request[c] \in kinds \cap {"tcp", "stream"} -> "cut"
                       [] request[c] \in kinds \ {"tcp", "stream"} -> "cut aside"]

Close(how, kinds) ==
  /\ life' = how
  /\ tcp' = "closed" /\ quic' = "closed"
  /\ request' = Without(kinds)
  /\ UNCHANGED <<settings, stopTime>>

\* The process is gone, and with it the redirections it had not answered.
End(how, kinds) ==
  Close(how, kinds \union {"redirect"}) /\ redirector' = "closed"

\* A signal before main waits for one.
KillEarly ==
  /\ life \in {"loading", "starting"}
  /\ End("killed", {"tcp", "stream", "quic"})

\* Mistake: HTTP is closed as HTTP/3 is.
SignalClosesAll ==
  /\ life = "waiting"
  /\ Close("stopping", {"tcp", "stream", "quic"}) /\ UNCHANGED redirector

\* Shutdown: HTTP/3 is closed, with its requests; HTTP takes no more.
SignalStop ==
  /\ life = "waiting"
  /\ Close("stopping", {"quic"}) /\ UNCHANGED redirector

\* Every request over TCP has come to its end.
StopGracefully ==
  /\ life = "stopping"
  /\ \A c \in Clients : request[c] \notin {"tcp", "stream"}
  /\ End("gracefully", {})

\* The context of the shutdown is done: exit status 1.
StopInError ==
  /\ life = "stopping" /\ stopTime = Grace
  /\ End("in error", {"tcp", "stream"})

StopTakesTime ==
  /\ life = "stopping" /\ stopTime < Grace
  /\ stopTime' = stopTime + 1
  /\ UNCHANGED <<settings, life, tcp, quic, redirector, request>>

\* The process is started again, perhaps with other settings, and clients turn to
\* it.
Restart ==
  /\ life \in {"refused", "gracefully", "in error", "killed"}
  /\ settings' \in Settings
  /\ life' = "loading"
  /\ tcp' = "none" /\ quic' = "none" /\ redirector' = "none" /\ stopTime' = 0
  /\ request' = [c \in Clients |-> "none"]

LifeNext ==
  \/ Assemble \/ Listen \/ ListenToRedirect \/ AwaitSignal \/ KillEarly \/ SignalStop
  \/ StopGracefully \/ StopInError \/ StopTakesTime \/ Restart
  \/ \E c \in Clients :
       \/ \E kind \in {"tcp", "stream", "quic", "redirect"} : Request(c, kind)
       \/ Served(c) \/ LeavesServer(c)

LifeSpec == LifeInit /\ [][LifeNext]_lifeVars

-------------------------------------------------------------------------------
(* Correctness.                                                            *)

\* "stopped gracefully", and exit status 0, are the truth for HTTP: the stop has
\* not cut a request over TCP short, not even a dashboard's stream; and while one
\* is open the process does not claim so. (A request over QUIC, or to the listener
\* that redirects, may have been cut.)
GracefulCutsNoRequest ==
  life \in {"stopping", "gracefully"} =>
    \A c \in Clients :
      request[c] # "cut" /\ (life = "gracefully" => request[c] \notin {"tcp", "stream"})
===============================================================================
