---------------------------- MODULE LiveSockets ----------------------------
(***************************************************************************)
(* The live connections of one web process: WebSocketManager of            *)
(* app/realtime/websocket_manager.py, and the endpoint and the sweeper of  *)
(* app/main.py that use it.                                                *)
(*                                                                         *)
(* All of it runs on one event loop, which goes from one coroutine to      *)
(* another at an await: while a client is accepted, while a socket is      *)
(* closed or sent to, and while a thread reads the database.  A session    *)
(* that has ended stays so, hence an answer that it has ended is as good   *)
(* when it arrives as when it was read.                                    *)
(*                                                                         *)
(* Connections have fresh ids: one that is gone does not come back.        *)
(* Events have no content here: a send only matters when it fails.         *)
(***************************************************************************)
CONSTANTS
  Sockets,      \* clients that may connect
  Owners,       \* sessions
  OwnerOf       \* the session each client connects with

ASSUME SocketsAssumption == OwnerOf \in [Sockets -> Owners]

VARIABLES
  ended,        \* the sessions that have ended
  client,       \* how far the endpoint of each client has come
  conns,        \* the manager's register
  drop,         \* drop_session for each session, and the victims it has left
  sweep         \* the sweeper, and the connections it has left to look at

socketVars == <<ended, client, conns, drop, sweep>>

Asleep == [pc |-> "asleep"]
Called == [pc |-> "called"]
Going(left) == [pc |-> "going", left |-> left]

SocketTypeOK ==
  /\ ended \subseteq Owners
  /\ client \in [Sockets -> {"away", "joining", "open", "gone"}]
  /\ conns \subseteq {k \in Sockets : client[k] = "open"}
  /\ drop \in [Owners -> {Asleep, Called} \cup {Going(left) : left \in SUBSET Sockets}]
  /\ sweep \in {Asleep} \cup {Going(left) : left \in SUBSET Sockets}

SocketInit ==
  /\ ended = {}
  /\ client = [k \in Sockets |-> "away"]
  /\ conns = {}
  /\ drop = [s \in Owners |-> Asleep]
  /\ sweep = Asleep

-----------------------------------------------------------------------------
(* The endpoint. *)

\* The session is read, and the client accepted if it is active.
Arrives(k) ==
  /\ client[k] = "away"
  /\ OwnerOf[k] \notin ended
  /\ client' = [client EXCEPT ![k] = "joining"]
  /\ UNCHANGED <<ended, conns, drop, sweep>>

\* The session is not read again before the client is registered.
Joins(k) ==
  /\ client[k] = "joining"
  /\ client' = [client EXCEPT ![k] = "open"]
  /\ conns' = conns \cup {k}
  /\ UNCHANGED <<ended, drop, sweep>>

\* The client disconnects, or its ping finds that the session has ended.
Leaves(k) ==
  /\ client[k] \in {"joining", "open"}
  /\ client' = [client EXCEPT ![k] = "gone"]
  /\ conns' = conns \ {k}
  /\ UNCHANGED <<ended, drop, sweep>>

\* deliver could not send to it: it leaves the register, and is not closed.
SendFails(k) ==
  /\ k \in conns
  /\ conns' = conns \ {k}
  /\ UNCHANGED <<ended, client, drop, sweep>>

\* What _close does.  The close itself may time out.
Closes(k) ==
  /\ conns' = conns \ {k}
  /\ client' \in {client, [client EXCEPT ![k] = "gone"]}

-----------------------------------------------------------------------------
(* The end of a session. *)

\* In another process, by a revocation, or in the course of time.
Expires(s) ==
  /\ s \notin ended
  /\ ended' = ended \cup {s}
  /\ UNCHANGED <<client, conns, drop, sweep>>

\* A logout in this process calls drop_session, which the loop runs later.
LogsOut(s) ==
  /\ s \notin ended
  /\ ended' = ended \cup {s}
  /\ drop' = [drop EXCEPT ![s] = Called]
  /\ UNCHANGED <<client, conns, sweep>>

DropBegins(s) ==
  /\ drop[s] = Called
  /\ drop' = [drop EXCEPT ![s] = Going({k \in conns : OwnerOf[k] = s})]
  /\ UNCHANGED <<ended, client, conns, sweep>>

DropCloses(s, k) ==
  /\ drop[s].pc = "going"
  /\ k \in drop[s].left
  /\ Closes(k)
  /\ drop' = [drop EXCEPT ![s].left = @ \ {k}]
  /\ UNCHANGED <<ended, sweep>>

-----------------------------------------------------------------------------
(* The sweeper. *)

\* A sweep of an empty register does nothing, and is left out.
SweepBegins ==
  /\ sweep = Asleep
  /\ conns # {}
  /\ sweep' = Going(conns)
  /\ UNCHANGED <<ended, client, conns, drop>>

SweepAsks(k) ==
  /\ sweep.pc = "going"
  /\ k \in sweep.left
  /\ sweep' = [sweep EXCEPT !.left = @ \ {k}]
  /\ IF OwnerOf[k] \in ended THEN Closes(k) ELSE UNCHANGED <<client, conns>>
  /\ UNCHANGED <<ended, drop>>

SweepEnds ==
  /\ sweep = Going({})
  /\ sweep' = Asleep
  /\ UNCHANGED <<ended, client, conns, drop>>

\* Fault seeded to test EndedSocketsFall: a sweep that fails ends the sweeper.
SweepFailsForGood ==
  /\ sweep.pc = "going"
  /\ sweep' = [pc |-> "failed"]
  /\ UNCHANGED <<ended, client, conns, drop>>

\* The database does not answer: the rest of the list waits for the next sweep.
SweepFails ==
  /\ sweep.pc = "going"
  /\ sweep' = Asleep
  /\ UNCHANGED <<ended, client, conns, drop>>

SocketNext ==
  \/ SweepBegins \/ SweepEnds \/ SweepFails
  \/ \E k \in Sockets :
       \/ Arrives(k) \/ Joins(k) \/ Leaves(k) \/ SendFails(k) \/ SweepAsks(k)
       \/ \E s \in Owners : DropCloses(s, k)
  \/ \E s \in Owners : Expires(s) \/ LogsOut(s) \/ DropBegins(s)

SocketSpec == SocketInit /\ [][SocketNext]_socketVars

\* The sweeper runs for ever, and goes through its list once the database is back.
SocketFairness ==
  /\ WF_socketVars(SweepBegins \/ SweepEnds \/ \E k \in Sockets : SweepAsks(k))
  /\ <>[][~SweepFails]_socketVars

-----------------------------------------------------------------------------
(* Properties. *)

\* Once a session has ended, none of its connections stays in the register for good:
\* not one that was accepted before the end and registered after drop_session had
\* looked for it, nor one that joined while a sweep was under way or failed (sweep,
\* "drop sockets whose session expired or was revoked").
EndedSocketsFall == \A s \in Owners :
  []<>(s \in ended => \A k \in conns : OwnerOf[k] # s)
=============================================================================
