-------------------------------- MODULE DerpLink --------------------------------
(***************************************************************************)
(* One daemon's WebSocket to the DERP relay, seen from both ends: the      *)
(* client's receive and reconnect, and the server's handler of each        *)
(* socket, which enters the daemon in the table that packets are forwarded *)
(* by and removes it when the socket has ended.                            *)
(*                                                                         *)
(* A handler starts some time after its socket was accepted, and notices   *)
(* the end of its socket some time after the client has, so the handlers   *)
(* of an old and of a new socket of the same daemon may overlap.           *)
(***************************************************************************)
EXTENDS Naturals

CONSTANTS
    Sockets,    \* sockets, used again when a handler has ended
    None,       \* no socket
    MaxFaults   \* bound: connections lost, errors read, reconnects failed and server restarts

ASSUME DerpAssumption == None \notin Sockets /\ MaxFaults \in Nat

VARIABLES
    handler,   \* server: the handler of each socket
    table,     \* server: derp_clients, for this daemon
    link,      \* client: the socket it uses
    reads,     \* client: where recv_raw waits: "derp", "udp", or "reconnect" under way;
               \* "off": the daemon could not connect when it started, and has no client
    broken,    \* sockets whose connection is gone
    faults     \* history: counted up to MaxFaults

derpVars == <<handler, table, link, reads, broken, faults>>

DerpInit ==
    /\ handler = [s \in Sockets |-> "none"]
    /\ table = None
    /\ link = None
    /\ reads \in {"reconnect", "off"}
    /\ broken = {}
    /\ faults = 0

Fault == faults < MaxFaults /\ faults' = faults + 1

\* DerpClient::connect and reconnect: the server authenticates the API key and upgrades.
Connect(s) ==
    /\ reads = "reconnect"
    /\ handler[s] = "none"
    /\ handler' = [handler EXCEPT ![s] = "upgraded"]
    /\ link' = s
    /\ reads' = "derp"
    /\ broken' = broken \ {s}
    /\ UNCHANGED <<table, faults>>

\* Without the relay, and after any error of its client, the receive loop waits on UDP.
ConnectFails ==
    /\ Fault
    /\ reads = "reconnect"
    /\ reads' = "udp"
    /\ UNCHANGED <<handler, table, link, broken>>

\* The handler starts, and enters its socket in the table.
Serve(s) ==
    /\ handler[s] = "upgraded"
    /\ handler' = [handler EXCEPT ![s] = "serving"]
    /\ table' = s
    /\ UNCHANGED <<link, reads, broken, faults>>

\* The connection goes away, or the client's process does.
Break(s) ==
    /\ Fault
    /\ handler[s] # "none" /\ s \notin broken
    /\ broken' = broken \cup {s}
    /\ UNCHANGED <<handler, table, link, reads>>

\* The client reads a close frame or the end of the stream, and reconnects.  It only reads:
\* without a ping or a timeout a connection lost silently may stay unnoticed for ever.
ReadClose ==
    /\ reads = "derp" /\ (link = None \/ link \in broken)
    /\ reads' = "reconnect" /\ link' = None
    /\ UNCHANGED <<handler, table, broken, faults>>

\* It reads an error: of a socket that is gone, of which the next read would see the end;
\* or of a pong or a frame, on a socket that lives on.
ReadError ==
    /\ reads = "derp"
    /\ reads' = "udp"
    /\ \/ link \in broken /\ link' = None /\ UNCHANGED faults
       \/ Fault /\ UNCHANGED link
    /\ UNCHANGED <<handler, table, broken>>

\* The handler reads the end of its socket, and removes its daemon's entry, whose ever it is.
HandlerEnds(s) ==
    /\ handler[s] = "serving" /\ s \in broken
    /\ handler' = [handler EXCEPT ![s] = "none"]
    /\ table' = None
    /\ UNCHANGED <<link, reads, broken, faults>>

\* The server restarts: no handler and no entry is left, and every connection is gone.
RestartServer ==
    /\ Fault
    /\ handler' = [s \in Sockets |-> "none"]
    /\ table' = None
    /\ broken' = Sockets
    /\ UNCHANGED <<link, reads>>

\* A datagram ends the wait on UDP, and the receive loop asks the relay's client again.
LeaveUdp ==
    /\ reads = "udp"
    /\ reads' = "derp"
    /\ UNCHANGED <<handler, table, link, broken, faults>>

\* A packet for this daemon is forwarded to it, and read.
Forwarded == table # None /\ table = link /\ link \notin broken /\ reads = "derp"

DerpNext ==
    \/ ConnectFails \/ ReadClose \/ ReadError \/ RestartServer
    \/ \E s \in Sockets : Connect(s) \/ Serve(s) \/ Break(s) \/ HandlerEnds(s)
=============================================================================
