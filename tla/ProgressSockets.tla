-------------------------- MODULE ProgressSockets --------------------------
(***************************************************************************)
(* The live progress of one preview: ConnectionManager                     *)
(* (websocket/manager.py), the WebSocket route (routes/ws.py) and the      *)
(* browser's hook (useConstraintProgress.js).                              *)
(*                                                                         *)
(* The browser opens its socket and sends the request for the preview at   *)
(* once, so a client may join at any time.  The coroutines interleave at   *)
(* every await: the lock is held only while a dictionary is read or        *)
(* changed, never while something is sent.  Connections are sets: they are *)
(* sent to in the order of a list, which no property depends on.           *)
(***************************************************************************)
EXTENDS Sequences

CONSTANT Clients

VARIABLES
    announced, answered,    \* of the preview (PipelineStages)
    listed,         \* this session is a key of _connections
    connections,    \* what is under it
    current,        \* _current_stages of this session, "none" if absent
    phase,          \* of the broadcast: "idle", "sending", "cleaning", "forgetting"
    queue,          \* copied connections that are still to be sent to
    disconnected,   \* those whose send failed
    socket,         \* "out", "registered", "greeting", "in", "gone"
    greeting,       \* the stage read for a client that joined
    alive,          \* the client is still there
    owed,           \* (ghost) stages announced since connect returned to a client
                    \* and not heard by it yet, "again" for one heard again
    informed        \* (ghost) the client has heard the last stage announced

socketVars == <<announced, answered, listed, connections, current, phase, queue,
                disconnected, socket, greeting, alive, owed, informed>>

Preview == INSTANCE PipelineStages WITH stage <- announced, reply <- answered

Ends == {"complete", "error"}

SocketsInit ==
    /\ Preview!StagesInit
    /\ listed = FALSE /\ connections = {} /\ current = "none"
    /\ phase = "idle" /\ queue = {} /\ disconnected = {}
    /\ socket = [c \in Clients |-> "out"]
    /\ greeting = [c \in Clients |-> "none"]
    /\ alive = [c \in Clients |-> TRUE]
    /\ owed = [c \in Clients |-> << >>]
    /\ informed = [c \in Clients |-> FALSE]

ClientsUnchanged == UNCHANGED <<socket, greeting, alive>>

------------------------------------------------------------------------------
(* broadcast_stage, broadcast_complete, broadcast_error *)

\* What comes when everybody has been sent to: the end is forgotten.
Afterwards == IF announced' \in Ends THEN "forgetting" ELSE "idle"

\* Mutant: nothing is stored for late joiners.
AnnouncesToConnected(s) ==
    /\ phase = "idle"
    /\ Preview!Announce(s)
    /\ owed' = [c \in Clients |->
          IF socket[c] = "in" /\ alive[c] THEN Append(owed[c], s) ELSE owed[c]]
    /\ informed' = [c \in Clients |-> FALSE]
    /\ queue' = connections
    /\ phase' = IF queue' = {} THEN Afterwards ELSE "sending"
    /\ UNCHANGED <<listed, connections, current, disconnected>> /\ ClientsUnchanged

\* The stage is stored and the connections are copied under one lock.
Announces(s) ==
    /\ phase = "idle"
    /\ Preview!Announce(s)
    /\ owed' = [c \in Clients |->
          IF socket[c] = "in" /\ alive[c] THEN Append(owed[c], s) ELSE owed[c]]
    /\ informed' = [c \in Clients |-> FALSE]
    /\ current' = s
    /\ queue' = connections
    /\ phase' = IF queue' = {} THEN Afterwards ELSE "sending"
    /\ UNCHANGED <<listed, connections, disconnected>> /\ ClientsUnchanged

\* The client, if it is still there, gets the stage announced.
Hears(c) ==
    IF alive[c]
    THEN /\ informed' = [informed EXCEPT ![c] = TRUE]
         /\ owed' = IF socket[c] # "in" THEN owed
                    ELSE [owed EXCEPT ![c] = IF @ = <<announced>> THEN << >> ELSE <<"again">>]
    ELSE UNCHANGED <<owed, informed>>

\* Mutant: the first failure ends the broadcast.
SendsUntilFailure ==
    /\ phase = "sending"
    /\ \E c \in queue :
          /\ Hears(c)
          /\ disconnected' \in IF alive[c] THEN {disconnected}
                               ELSE {disconnected, disconnected \cup {c}}
          /\ queue' = IF disconnected' # {} THEN {} ELSE queue \ {c}
    /\ UNCHANGED <<announced, answered>>
    /\ phase' = IF queue' # {} THEN "sending"
                ELSE IF disconnected' # {} THEN "cleaning" ELSE Afterwards
    /\ UNCHANGED <<listed, connections, current>> /\ ClientsUnchanged

\* One after the other; sending to a client that is gone may fail, and does not
\* keep the others from being sent to.
Sends ==
    /\ phase = "sending"
    /\ \E c \in queue :
          /\ Hears(c)
          /\ disconnected' \in IF alive[c] THEN {disconnected}
                               ELSE {disconnected, disconnected \cup {c}}
          /\ queue' = queue \ {c}
    /\ UNCHANGED <<announced, answered>>
    /\ phase' = IF queue' # {} THEN "sending"
                ELSE IF disconnected' # {} THEN "cleaning" ELSE Afterwards
    /\ UNCHANGED <<listed, connections, current>> /\ ClientsUnchanged

\* The list stays, even when it is empty.
Cleans ==
    /\ phase = "cleaning"
    /\ connections' = connections \ disconnected
    /\ disconnected' = {}
    /\ UNCHANGED <<announced, answered>>
    /\ phase' = Afterwards
    /\ UNCHANGED <<listed, current, queue, owed, informed>> /\ ClientsUnchanged

\* Half a second after "complete", or right after "error".
ForgetsSession ==
    /\ phase = "forgetting"
    /\ current' = "none"
    /\ phase' = "idle"
    /\ UNCHANGED <<announced, answered, listed, connections, queue, disconnected, owed,
                   informed>>
    /\ ClientsUnchanged

Replies ==
    /\ phase = "idle"
    /\ Preview!Reply
    /\ UNCHANGED <<listed, connections, current, phase, queue, disconnected, owed, informed>>
    /\ ClientsUnchanged

------------------------------------------------------------------------------
(* connect and disconnect *)

BroadcastUnchanged == UNCHANGED <<announced, answered, phase, queue, disconnected>>

Registers(c) ==
    /\ socket[c] = "out"
    /\ listed' = TRUE
    /\ connections' = connections \cup {c}
    /\ socket' = [socket EXCEPT ![c] = "registered"]
    /\ UNCHANGED <<current, greeting, alive, owed, informed>> /\ BroadcastUnchanged

\* connect returns: what is announced from now on, and what the broadcast under
\* way has still to send, is heard after it.
Joins(c) ==
    /\ socket' = [socket EXCEPT ![c] = "in"]
    /\ owed' = [owed EXCEPT ![c] = IF alive[c] /\ c \in queue THEN <<announced>> ELSE << >>]

ReadsCurrent(c) ==
    /\ socket[c] = "registered"
    /\ greeting' = [greeting EXCEPT ![c] = current]
    /\ IF current = "none" THEN Joins(c)
       ELSE socket' = [socket EXCEPT ![c] = "greeting"] /\ UNCHANGED owed
    /\ UNCHANGED <<listed, connections, current, alive, informed>> /\ BroadcastUnchanged

\* Meanwhile a newer stage may have been sent, even the end.
Greets(c) ==
    /\ socket[c] = "greeting"
    /\ Joins(c)
    /\ informed' = [informed EXCEPT ![c] = @ \/ (alive[c] /\ greeting[c] = announced)]
    /\ greeting' = [greeting EXCEPT ![c] = "none"]
    /\ UNCHANGED <<listed, connections, current, alive>> /\ BroadcastUnchanged

\* endSession, another session, a page that is left, a network that is lost.
Leaves(c) ==
    /\ socket[c] \notin {"out", "gone"} /\ alive[c]
    /\ alive' = [alive EXCEPT ![c] = FALSE]
    /\ owed' = [owed EXCEPT ![c] = << >>]
    /\ UNCHANGED <<listed, connections, current, socket, greeting, informed>>
    /\ BroadcastUnchanged

\* Mutant: a list that a failed send has emptied is left.
DisconnectsRegistered(c) ==
    /\ socket[c] = "in" /\ ~alive[c]
    /\ connections' = connections \ {c}
    /\ LET last == listed /\ c \in connections /\ connections' = {} IN
          /\ listed' = (listed /\ ~last)
          /\ current' = IF last THEN "none" ELSE current
    /\ socket' = [socket EXCEPT ![c] = "gone"]
    /\ UNCHANGED <<greeting, alive, owed, informed>> /\ BroadcastUnchanged

\* The receive loop of the route notices.  The last one takes the session and
\* its stage along.
Disconnects(c) ==
    /\ socket[c] = "in" /\ ~alive[c]
    /\ connections' = connections \ {c}
    /\ LET last == listed /\ connections' = {} IN
          /\ listed' = (listed /\ ~last)
          /\ current' = IF last THEN "none" ELSE current
    /\ socket' = [socket EXCEPT ![c] = "gone"]
    /\ UNCHANGED <<greeting, alive, owed, informed>> /\ BroadcastUnchanged

SocketsNext ==
    \/ \E s \in Preview!Following(announced) : Announces(s)
    \/ Sends \/ Cleans \/ ForgetsSession \/ Replies
    \/ \E c \in Clients :
          Registers(c) \/ ReadsCurrent(c) \/ Greets(c) \/ Leaves(c) \/ Disconnects(c)

SocketsSpec == SocketsInit /\ [][SocketsNext]_socketVars

------------------------------------------------------------------------------
(* Properties *)

\* A client that is connected is told every stage announced since, once and in
\* order, the end among them, whatever other clients join, leave or break down
\* while it is being told (the broadcast works on a copy of the connections and
\* removes those that failed).
TellsEveryStage ==
    \A c \in Clients : (socket[c] = "in" /\ alive[c]) =>
        owed[c] = IF c \in queue THEN <<announced>> ELSE << >>

\* "Store current stage for late joiners": who joins in the middle of a preview
\* has heard the stage that is current, from the broadcast or as a greeting,
\* unless somebody else has left (who, being the last, takes the stage along).
LateJoinerHearsCurrent ==
    (phase = "idle" /\ announced \notin Ends \cup {"none"} /\ \A c \in Clients : socket[c] # "gone") =>
        \A c \in Clients : (socket[c] = "in" /\ alive[c]) => informed[c]

\* Nothing is kept about a session that is over: no stage once the preview has
\* answered, no connections once everybody has left.
SessionForgotten ==
    /\ answered # "none" => current = "none"
    /\ (\A c \in Clients : socket[c] \in {"out", "gone"}) => ~listed
=============================================================================
