---------------------------- MODULE ServerProofs -----------------------------
(***************************************************************************)
(* Theorems about Server, for any finite sets of writes and reads.         *)
(***************************************************************************)
EXTENDS Server, FiniteSetTheorems, TLAPS

Places == {"none", "reading", "entered", "admitted", "tx", "done"}

(* The handlers that the WaitGroup counts.                                 *)
Underway == {r \in Requests : handler[r] \in {"entered", "admitted", "tx"}}

(* No transaction, and no write on its way to one.                         *)
Quiet == \A r \in Requests : handler[r] # "tx" /\ (r \in Writes => handler[r] # "admitted")

(* No request is between its arrival and its answer.                       *)
Idle == \A r \in Requests : handler[r] \in {"none", "done"}

-----------------------------------------------------------------------------
(* The inductive invariant.  The first part types the variables and says   *)
(* what the counter counts; the second says what main knows at each place, *)
(* which is what the order drain, shut down, wait, close is for.           *)

ServerTypes ==
  /\ main \in {"opening", "loading", "serving", "shutdown", "waiting", "closing", "closed",
               "exited"}
  /\ signalled \in BOOLEAN /\ ready \in BOOLEAN /\ shutdownErr \in BOOLEAN
  /\ store \in {"none", "open", "closed"}
  /\ exit \in {"", "error", "listener", "clean"} /\ (exit # "" <=> main = "exited")
  /\ handler \in [Requests -> Places]

CounterIsExact == active = Cardinality(Underway)

MainKnows ==
  /\ main \in {"opening", "loading"} => Idle
  /\ main \in {"shutdown", "waiting", "closing", "closed"} => signalled /\ ~ready
  /\ main \in {"closing", "closed"} => Quiet
  /\ main \in {"waiting", "closing", "closed"} /\ ~shutdownErr => Idle
  /\ store = "closed" => main \in {"closed", "exited"}
  /\ store = "closed" /\ exit # "listener" => Quiet
  /\ exit = "clean" => Idle

ServerInductive == ServerTypes /\ CounterIsExact /\ MainKnows

-----------------------------------------------------------------------------
LEMMA UnderwayFinite == IsFiniteSet(Requests) /\ IsFiniteSet(Underway)
<1>1. IsFiniteSet(Requests)
  BY ServerAssumption DEF Requests
<1>2. Underway \subseteq Requests
  BY DEF Underway
<1> QED
  BY <1>1, <1>2, FS_Subset

(* Any handler step moves one handler and nothing else.                    *)
Moves(r, from, to) ==
  /\ handler' \in [Requests -> Places]
  /\ handler[r] = from /\ handler'[r] = to
  /\ \A q \in Requests \ {r} : handler'[q] = handler[q]
  /\ exit = ""
  /\ UNCHANGED <<main, signalled, ready, store, shutdownErr, exit>>

LEMMA StepMoves ==
  ASSUME ServerTypes, NEW r \in Requests, NEW from, NEW to \in Places, Step(r, from, to)
  PROVE  Moves(r, from, to)
BY DEF Step, ServerTypes, Running, Moves

(* The counter follows the set it counts: it grows by one when a handler   *)
(* enters, shrinks by one when one leaves, and otherwise stays.            *)
LEMMA UnderwayGrows ==
  ASSUME CounterIsExact, NEW r \in Requests, r \notin Underway,
         Underway' = Underway \cup {r}, active' = active + 1
  PROVE  CounterIsExact'
BY UnderwayFinite, FS_AddElement DEF CounterIsExact

LEMMA UnderwayShrinks ==
  ASSUME CounterIsExact, NEW r \in Requests, r \in Underway,
         Underway' = Underway \ {r}, active' = active - 1
  PROVE  CounterIsExact'
BY UnderwayFinite, FS_RemoveElement DEF CounterIsExact

LEMMA UnderwayStays ==
  ASSUME CounterIsExact, Underway' = Underway, active' = active
  PROVE  CounterIsExact'
BY DEF CounterIsExact

-----------------------------------------------------------------------------
LEMMA ServerInit ==
  ASSUME SInit
  PROVE  ServerInductive
<1>1. ServerTypes
  BY DEF SInit, ServerTypes, Places
<1>2. Underway = {}
  BY DEF SInit, Underway
<1>3. CounterIsExact
  BY <1>2, FS_EmptySet DEF CounterIsExact, SInit
<1>4. MainKnows
  BY DEF SInit, MainKnows, Idle, Quiet
<1> QED
  BY <1>1, <1>3, <1>4 DEF ServerInductive

(* Steps of main and the signal leave the handlers and the counter alone.  *)
LEMMA MainPreserves ==
  ASSUME ServerInductive, Signal \/ MainStep
  PROVE  ServerInductive'
<1> USE DEF ServerInductive
<1>1. UNCHANGED <<handler, active>>
  BY DEF Signal, MainStep, OpenFails, OpenStore, LoadFails, Listen, ListenerFails, Drain,
         ShutdownDone, ShutdownDeadline, HandlersDone, CloseStore, Exit, FallbackDeadline
<1>2. Underway' = Underway /\ Quiet' = Quiet /\ Idle' = Idle
  BY <1>1 DEF Underway, Quiet, Idle
<1>3. CounterIsExact'
  BY <1>1, <1>2, UnderwayStays
<1>4. Idle => Quiet
  BY DEF Idle, Quiet
<1>5. active = 0 => Quiet
  <2>1. active = 0 => Underway = {}
    BY UnderwayFinite, FS_EmptySet DEF CounterIsExact
  <2> QED
    BY <2>1 DEF Underway, Quiet
<1>6. CASE Signal
  BY <1>1, <1>2, <1>3, <1>6 DEF Signal, ServerTypes, MainKnows, Running
<1>7. CASE OpenFails
  BY <1>1, <1>2, <1>3, <1>4, <1>7 DEF OpenFails, ServerTypes, MainKnows
<1>8. CASE OpenStore
  BY <1>1, <1>2, <1>3, <1>8 DEF OpenStore, ServerTypes, MainKnows
<1>9. CASE LoadFails
  BY <1>1, <1>2, <1>3, <1>4, <1>9 DEF LoadFails, ServerTypes, MainKnows
<1>10. CASE Listen
  BY <1>1, <1>2, <1>3, <1>10 DEF Listen, ServerTypes, MainKnows
<1>11. CASE ListenerFails
  BY <1>1, <1>2, <1>3, <1>11 DEF ListenerFails, ServerTypes, MainKnows
<1>12. CASE Drain
  BY <1>1, <1>2, <1>3, <1>12 DEF Drain, ServerTypes, MainKnows
<1>13. CASE ShutdownDone
  <2>1. Idle
    BY <1>13 DEF ShutdownDone, Idle
  <2> QED
    BY <1>1, <1>2, <1>3, <1>13, <2>1 DEF ShutdownDone, ServerTypes, MainKnows
<1>14. CASE ShutdownDeadline
  BY <1>1, <1>2, <1>3, <1>14 DEF ShutdownDeadline, ServerTypes, MainKnows
<1>15. CASE HandlersDone
  BY <1>1, <1>2, <1>3, <1>5, <1>15 DEF HandlersDone, ServerTypes, MainKnows
<1>16. CASE CloseStore
  BY <1>1, <1>2, <1>3, <1>16 DEF CloseStore, ServerTypes, MainKnows
<1>17. CASE Exit
  BY <1>1, <1>2, <1>3, <1>17 DEF Exit, ServerTypes, MainKnows
<1>18. CASE FallbackDeadline
  BY <1>1, <1>2, <1>3, <1>18 DEF FallbackDeadline, ServerTypes, MainKnows
<1> QED
  BY <1>6, <1>7, <1>8, <1>9, <1>10, <1>11, <1>12, <1>13, <1>14, <1>15, <1>16, <1>17, <1>18
     DEF MainStep

(* Steps of a handler leave main alone.  What main knows survives because  *)
(* nothing arrives once Shutdown has returned, no write is admitted after  *)
(* the drain and no transaction begins after the signal.                   *)
LEMMA HandlerPreserves ==
  ASSUME ServerInductive, NEW r \in Requests, HandlerStep(r)
  PROVE  ServerInductive'
<1> USE DEF ServerInductive
<1>1. CASE Arrive(r)
  <2>1. Step(r, "none", "reading") /\ main \in {"serving", "shutdown"} /\ active' = active
    BY <1>1 DEF Arrive
  <2>2. Moves(r, "none", "reading")
    BY <2>1, StepMoves DEF Places
  <2>3. ServerTypes'
    BY <2>1, <2>2 DEF Moves, ServerTypes
  <2>4. Underway' = Underway
    BY <2>1, <2>2 DEF Moves, Underway
  <2>5. MainKnows'
    BY <2>1, <2>2 DEF Moves, MainKnows
  <2> QED
    BY <2>1, <2>3, <2>4, <2>5, UnderwayStays
<1>2. CASE Enter(r)
  <2>1. Step(r, "reading", "entered") /\ active' = active + 1
    BY <1>2 DEF Enter
  <2>2. Moves(r, "reading", "entered")
    BY <2>1, StepMoves DEF Places
  <2>3. ServerTypes'
    BY <2>1, <2>2 DEF Moves, ServerTypes
  <2>4. r \notin Underway /\ Underway' = Underway \cup {r}
    BY <2>1, <2>2 DEF Moves, Underway
  <2>5. ~Idle
    BY <2>1, <2>2 DEF Moves, Idle
  <2>6. Quiet => Quiet'
    BY <2>1, <2>2 DEF Moves, Quiet
  <2>7. MainKnows'
    BY <2>1, <2>2, <2>5, <2>6 DEF Moves, MainKnows, ServerTypes
  <2> QED
    BY <2>1, <2>3, <2>4, <2>7, UnderwayGrows
<1>3. CASE Refuse(r)
  <2>1. Step(r, "entered", "done") /\ active' = active - 1
    BY <1>3 DEF Refuse
  <2>2. Moves(r, "entered", "done")
    BY <2>1, StepMoves DEF Places
  <2>3. ServerTypes'
    BY <2>1, <2>2 DEF Moves, ServerTypes
  <2>4. r \in Underway /\ Underway' = Underway \ {r}
    BY <2>1, <2>2 DEF Moves, Underway
  <2>5. ~Idle
    BY <2>1, <2>2 DEF Moves, Idle
  <2>6. Quiet => Quiet'
    BY <2>1, <2>2 DEF Moves, Quiet
  <2>7. MainKnows'
    BY <2>1, <2>2, <2>5, <2>6 DEF Moves, MainKnows, ServerTypes
  <2> QED
    BY <2>1, <2>3, <2>4, <2>7, UnderwayShrinks
<1>4. CASE Admit(r)
  <2>1. Step(r, "entered", "admitted") /\ active' = active /\ (r \in Reads \/ ready)
    BY <1>4 DEF Admit
  <2>2. Moves(r, "entered", "admitted")
    BY <2>1, StepMoves DEF Places
  <2>3. ServerTypes'
    BY <2>1, <2>2 DEF Moves, ServerTypes
  <2>4. Underway' = Underway
    BY <2>1, <2>2 DEF Moves, Underway
  <2>5. ~Idle
    BY <2>1, <2>2 DEF Moves, Idle
  <2>6. ~ready /\ Quiet => Quiet'
    BY <2>1, <2>2, ServerAssumption DEF Moves, Quiet
  <2>7. MainKnows'
    BY <2>1, <2>2, <2>5, <2>6 DEF Moves, MainKnows, ServerTypes
  <2> QED
    BY <2>1, <2>3, <2>4, <2>7, UnderwayStays
<1>5. CASE BeginTx(r)
  <2>1. /\ Step(r, "admitted", "tx") /\ active' = active
        /\ ~signalled /\ store = "open"
    BY <1>5 DEF BeginTx
  <2>2. Moves(r, "admitted", "tx")
    BY <2>1, StepMoves DEF Places
  <2>3. ServerTypes'
    BY <2>1, <2>2 DEF Moves, ServerTypes
  <2>4. Underway' = Underway
    BY <2>1, <2>2 DEF Moves, Underway
  <2>5. ~Idle
    BY <2>1, <2>2 DEF Moves, Idle
  <2>6. MainKnows'
    BY <2>1, <2>2, <2>5 DEF Moves, MainKnows, ServerTypes
  <2> QED
    BY <2>1, <2>3, <2>4, <2>6, UnderwayStays
<1>6. CASE Finish(r)
  <2>1. /\ Step(r, handler[r], "done") /\ active' = active - 1
        /\ handler[r] \in {"admitted", "tx"}
    BY <1>6 DEF Finish
  <2>2. Moves(r, handler[r], "done")
    BY <2>1, StepMoves DEF Places
  <2>3. ServerTypes'
    BY <2>1, <2>2 DEF Moves, ServerTypes
  <2>4. r \in Underway /\ Underway' = Underway \ {r}
    BY <2>1, <2>2 DEF Moves, Underway
  <2>5. ~Idle
    BY <2>1, <2>2 DEF Moves, Idle
  <2>6. Quiet => Quiet'
    BY <2>1, <2>2 DEF Moves, Quiet
  <2>7. MainKnows'
    BY <2>1, <2>2, <2>5, <2>6 DEF Moves, MainKnows, ServerTypes
  <2> QED
    BY <2>1, <2>3, <2>4, <2>7, UnderwayShrinks
<1> QED
  BY <1>1, <1>2, <1>3, <1>4, <1>5, <1>6 DEF HandlerStep

(* The invariant holds in every state the process can be in.               *)
THEOREM ServerInvariant == SSpec => []ServerInductive
<1>1. ServerInductive /\ [SNext]_svars => ServerInductive'
  <2> SUFFICES ASSUME ServerInductive, [SNext]_svars
               PROVE  ServerInductive'
    OBVIOUS
  <2>1. CASE UNCHANGED svars
    BY <2>1 DEF svars, ServerInductive, ServerTypes, CounterIsExact, MainKnows, Underway, Quiet,
                Idle
  <2>2. CASE Signal \/ MainStep
    BY <2>2, MainPreserves
  <2>3. CASE \E r \in Requests : HandlerStep(r)
    BY <2>3, HandlerPreserves
  <2> QED
    BY <2>1, <2>2, <2>3 DEF SNext
<1> QED
  BY <1>1, ServerInit, PTL DEF SSpec

-----------------------------------------------------------------------------
(* The count main waits for is the number of handlers between Add and Done *)
(* of trackedHandler, whichever way each of them leaves.                   *)
THEOREM ServerTyped == SSpec => []ServerTypeOK
<1>1. ServerInductive => ServerTypeOK
  BY DEF ServerInductive, ServerTypes, CounterIsExact, Underway, ServerTypeOK
<1> QED
  BY <1>1, ServerInvariant, PTL

(* runServer closes the store under no transaction and under no admitted   *)
(* write, except when the listener fails.                                  *)
THEOREM StoreClosedLast == SSpec => []StoreOutlivesWrites
<1>1. ServerInductive => StoreOutlivesWrites
  BY DEF ServerInductive, MainKnows, Quiet, StoreOutlivesWrites
<1> QED
  BY <1>1, ServerInvariant, PTL

(* When runServer returns without an error, no request was cut off.        *)
THEOREM CleanExit == SSpec => []CleanExitAnswersAll
<1>1. ServerInductive => CleanExitAnswersAll
  BY DEF ServerInductive, MainKnows, Idle, CleanExitAnswersAll
<1> QED
  BY <1>1, ServerInvariant, PTL
=============================================================================
