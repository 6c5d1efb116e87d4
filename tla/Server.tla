------------------------------- MODULE Server -------------------------------
(***************************************************************************)
(* The life of the server process: runServer of cmd/lazarus/main.go and    *)
(* the requests that are under way when it is asked to stop.               *)
(*                                                                         *)
(* Three goroutines meet: main, which drains, waits and closes the store;  *)
(* the signal, which cancels the context of every request; and a handler   *)
(* per request.  Handlers need not make progress: a request may hang.      *)
(***************************************************************************)
EXTENDS Naturals, FiniteSets

CONSTANTS
  Writes,   \* requests that change something
  Reads     \* requests that do not

ASSUME ServerAssumption == Writes \cap Reads = {} /\ IsFiniteSet(Writes \cup Reads)

Requests == Writes \cup Reads

VARIABLES
  main,         \* where runServer stands
  signalled,    \* SIGTERM has arrived and signalCtx is cancelled
  ready,        \* Server.ready
  store,        \* "none", "open" or "closed"
  shutdownErr,  \* Shutdown gave up at its deadline
  exit,         \* "" while the process runs, then how it ended
  active,       \* the counter of the WaitGroup activeHandlers
  handler       \* request -> where its handler stands

svars == <<main, signalled, ready, store, shutdownErr, exit, active, handler>>

SInit ==
  /\ main = "opening"
  /\ signalled = FALSE /\ ready = FALSE /\ shutdownErr = FALSE
  /\ store = "none" /\ exit = ""
  /\ active = 0
  /\ handler = [r \in Requests |-> "none"]

Running == exit = ""

-----------------------------------------------------------------------------
(* main                                                                    *)

Signal ==
  /\ Running /\ ~signalled
  /\ signalled' = TRUE
  /\ UNCHANGED <<main, ready, store, shutdownErr, exit, active, handler>>

(* Bad settings or a database that Open refuses; Open also fails when the  *)
(* signal came first.                                                      *)
OpenFails ==
  /\ main = "opening"
  /\ main' = "exited" /\ exit' = "error"
  /\ UNCHANGED <<signalled, ready, store, shutdownErr, active, handler>>

OpenStore ==
  /\ main = "opening" /\ ~signalled
  /\ main' = "loading" /\ store' = "open"
  /\ UNCHANGED <<signalled, ready, shutdownErr, exit, active, handler>>

(* A token file or TLS setting that is refused.                            *)
LoadFails ==
  /\ main = "loading"
  /\ main' = "exited" /\ exit' = "error" /\ store' = "closed"
  /\ UNCHANGED <<signalled, ready, shutdownErr, active, handler>>

Listen ==
  /\ main = "loading"
  /\ main' = "serving" /\ ready' = TRUE
  /\ UNCHANGED <<signalled, store, shutdownErr, exit, active, handler>>

(* The deferred Close runs although handlers may be active.                *)
ListenerFails ==
  /\ main = "serving"
  /\ main' = "exited" /\ exit' = "listener" /\ store' = "closed"
  /\ UNCHANGED <<signalled, ready, shutdownErr, active, handler>>

DrainBug ==
  /\ main = "serving" /\ signalled
  /\ main' = "shutdown"
  /\ UNCHANGED <<signalled, ready, store, shutdownErr, exit, active, handler>>

Drain ==
  /\ main = "serving" /\ signalled
  /\ main' = "shutdown" /\ ready' = FALSE
  /\ UNCHANGED <<signalled, store, shutdownErr, exit, active, handler>>

(* http.Server.Shutdown returns when no connection has a request, or with  *)
(* an error at the deadline; then Close closes the connections.            *)
ShutdownDone ==
  /\ main = "shutdown"
  /\ \A r \in Requests : handler[r] \in {"none", "done"}
  /\ main' = "waiting"
  /\ UNCHANGED <<signalled, ready, store, shutdownErr, exit, active, handler>>

ShutdownDeadline ==
  /\ main = "shutdown"
  /\ main' = "waiting" /\ shutdownErr' = TRUE
  /\ UNCHANGED <<signalled, ready, store, exit, active, handler>>

HandlersDoneBug ==
  /\ main = "waiting" /\ active = 0
  /\ main' = "closing" /\ exit' = exit /\ store' = store
  /\ shutdownErr' = FALSE
  /\ UNCHANGED <<signalled, ready, active, handler>>

(* activeHandlers.Wait has returned.  Until the store is closed another    *)
(* handler may still begin.                                                *)
HandlersDone ==
  /\ main = "waiting" /\ active = 0
  /\ main' = "closing"
  /\ UNCHANGED <<signalled, ready, store, shutdownErr, exit, active, handler>>

CloseStore ==
  /\ main = "closing"
  /\ main' = "closed" /\ store' = "closed"
  /\ UNCHANGED <<signalled, ready, shutdownErr, exit, active, handler>>

Exit ==
  /\ main = "closed"
  /\ main' = "exited" /\ exit' = IF shutdownErr THEN "error" ELSE "clean"
  /\ UNCHANGED <<signalled, ready, store, shutdownErr, active, handler>>

FallbackDeadlineBug == FALSE /\ UNCHANGED svars

(* Five seconds later the process ends without closing the store.          *)
FallbackDeadline ==
  /\ main = "waiting"
  /\ main' = "exited" /\ exit' = "error"
  /\ UNCHANGED <<signalled, ready, store, shutdownErr, active, handler>>

-----------------------------------------------------------------------------
(* Handlers.  net/http reads a request from a connection, then calls       *)
(* trackedHandler in the connection's goroutine.                           *)

Step(r, from, to) ==
  /\ Running
  /\ handler[r] = from
  /\ handler' = [handler EXCEPT ![r] = to]
  /\ UNCHANGED <<main, signalled, ready, store, shutdownErr, exit>>

(* Connections that are open when Shutdown begins may still bring one.     *)
Arrive(r) ==
  /\ main \in {"serving", "shutdown"}
  /\ Step(r, "none", "reading")
  /\ UNCHANGED active

Enter(r) == Step(r, "reading", "entered") /\ active' = active + 1

RefuseBug(r) ==
  /\ r \in Writes /\ ~ready
  /\ Step(r, "entered", "done")
  /\ UNCHANGED active

(* serve: a write is refused while the server drains.                      *)
Refuse(r) ==
  /\ r \in Writes /\ ~ready
  /\ Step(r, "entered", "done")
  /\ active' = active - 1

Admit(r) ==
  /\ r \in Reads \/ ready
  /\ Step(r, "entered", "admitted")
  /\ UNCHANGED active

(* BeginTx, or a query: it fails when the context is cancelled, or when    *)
(* the store is closed.                                                    *)
BeginTx(r) ==
  /\ ~signalled /\ store = "open"
  /\ Step(r, "admitted", "tx")
  /\ UNCHANGED active

(* The handler answers: with an error instead of a transaction, after its  *)
(* commit, or after a rollback.  A cancelled one may end either way.       *)
Finish(r) ==
  /\ handler[r] \in {"admitted", "tx"}
  /\ Step(r, handler[r], "done")
  /\ active' = active - 1

MainStep ==
  \/ OpenFails \/ OpenStore \/ LoadFails \/ Listen \/ ListenerFails \/ Drain
  \/ ShutdownDone \/ ShutdownDeadline \/ HandlersDone \/ CloseStore \/ Exit \/ FallbackDeadline

HandlerStep(r) == Arrive(r) \/ Enter(r) \/ Refuse(r) \/ Admit(r) \/ BeginTx(r) \/ Finish(r)

SNext == Signal \/ MainStep \/ \E r \in Requests : HandlerStep(r)

SSpec == SInit /\ [][SNext]_svars

(* main runs, and the two deadlines pass.  Nothing is assumed of handlers  *)
(* or of the listener.                                                     *)
SFairSpec ==
  /\ SSpec
  /\ WF_svars(OpenFails \/ OpenStore) /\ WF_svars(LoadFails \/ Listen) /\ WF_svars(Drain)
  /\ WF_svars(ShutdownDeadline) /\ WF_svars(HandlersDone) /\ WF_svars(FallbackDeadline)
  /\ WF_svars(CloseStore) /\ WF_svars(Exit)

-----------------------------------------------------------------------------
(* The counter that main waits for is the number of handlers under way, on *)
(* every path out of a handler.                                            *)
ServerTypeOK ==
  /\ store \in {"none", "open", "closed"}
  /\ exit \in {"", "error", "listener", "clean"} /\ (exit # "" <=> main = "exited")
  /\ active = Cardinality({r \in Requests : handler[r] \in {"entered", "admitted", "tx"}})

(* After a signal the store is closed under no transaction and under no    *)
(* write that was admitted: readiness is withdrawn before main waits, and  *)
(* a handler is counted before it looks.  A read that comes in last may    *)
(* find the store closed.  (When the listener fails, nothing is waited     *)
(* for.)                                                                   *)
StoreOutlivesWrites ==
  store = "closed" /\ exit # "listener" => \A r \in Requests :
    handler[r] # "tx" /\ (r \in Writes => handler[r] # "admitted")

(* An exit without an error means that no request was cut off.             *)
CleanExitAnswersAll ==
  exit = "clean" => \A r \in Requests : handler[r] \in {"none", "done"}

(* A signal ends the process, whatever the handlers do.                    *)
SignalEndsProcess == signalled ~> exit # ""
=============================================================================
