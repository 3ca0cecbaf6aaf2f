------------------------------ MODULE Lifecycle ----------------------------
(***************************************************************************)
(* The life of a node process: falcon-cli/src/serve.rs starts the wire     *)
(* server and the task that waits for SIGTERM, then becomes the HTTP       *)
(* server, and leaves when that has drained.                               *)
(*                                                                         *)
(* Four kinds of task run at once: the main task, the signal task, the     *)
(* wire accept loop (falcon-wire/src/lib.rs) and one task per connection.  *)
(* They meet in a broadcast channel that reaches only receivers that exist *)
(* when the message is sent, and in the semaphore that bounds the wire     *)
(* connections.  When the main task returns, the runtime is dropped and    *)
(* every other task with it.                                               *)
(***************************************************************************)
EXTENDS Integers, FiniteSets

CONSTANTS
    Client,          \* BOUND: peers; each opens at most one connection of a kind
    WireEnabled,     \* the values of config.wire.enabled
    TlsEnabled,      \* the values TlsConfig::is_enabled may have
    MaxConnections   \* config.wire.max_connections; 0 = no cap

ASSUME LifecycleAssumption ==
    /\ IsFiniteSet(Client) /\ MaxConnections \in Nat
    /\ WireEnabled \subseteq BOOLEAN /\ TlsEnabled \subseteq BOOLEAN

VARIABLES
    wired,    \* config.wire.enabled
    tls,      \* config.tls is enabled, for both servers
    main,     \* how far serve has come
    ready,    \* Node::ready
    signal,   \* the signal task
    inbox,    \* the broadcast receiver of each server
    wire,     \* the wire accept loop
    permits,  \* free permits of the connection semaphore
    conn,     \* the wire connection of each client
    request,  \* the HTTP request of each client
    killed    \* history: SIGTERM came before a handler was installed

vars == <<wired, tls, main, ready, signal, inbox, wire, permits, conn, request,
          killed>>

config == <<wired, tls>>

Receiver == {"wire", "http"}

(* A connection that holds a permit, if there is a cap.                    *)
Holding == {c \in Client : conn[c] \in {"handshake", "open", "busy"}}

Init ==
    /\ wired \in WireEnabled /\ tls \in TlsEnabled
    /\ main = "built" /\ ready = FALSE
    /\ signal = "none"
    /\ inbox = [r \in Receiver |-> "none"]
    /\ wire = "off"
    /\ permits = MaxConnections
    /\ conn = [c \in Client |-> "none"]
    /\ request = [c \in Client |-> "none"]
    /\ killed = FALSE

Running == main # "exited"

(* Whoever subscribes now receives what is sent from now on.               *)
Subscribe(r) == inbox' = [inbox EXCEPT ![r] = "subscribed"]

Broadcast ==
    inbox' = [r \in Receiver |-> IF inbox[r] = "subscribed" THEN "sent" ELSE inbox[r]]

(* The runtime is dropped: what has not finished is cut.                   *)
DropRuntime ==
    /\ main' = "exited"
    /\ conn' = [c \in Client |-> IF conn[c] \in {"none", "closed"} THEN conn[c] ELSE "cut"]
    /\ request' = [c \in Client |-> IF request[c] = "inflight" THEN "cut"
                                    ELSE IF request[c] = "queued" THEN "refused"
                                    ELSE request[c]]

-----------------------------------------------------------------------------
(* serve: the main task, up to the HTTP server.                            *)

StartWire ==
    /\ main = "built"
    /\ main' = "wire_spawned"
    /\ IF wired THEN Subscribe("wire") /\ wire' = "binding" ELSE UNCHANGED <<inbox, wire>>
    /\ UNCHANGED <<config, ready, signal, permits, conn, request, killed>>

SetReady ==
    /\ main = "wire_spawned"
    /\ main' = "ready" /\ ready' = TRUE
    /\ UNCHANGED <<config, signal, inbox, wire, permits, conn, request, killed>>

SpawnSignalTask ==
    /\ main = "ready"
    /\ main' = "signal_spawned" /\ signal' = "spawned"
    /\ UNCHANGED <<config, ready, inbox, wire, permits, conn, request, killed>>

SubscribeHttp ==
    /\ main = "signal_spawned"
    /\ main' = "subscribed" /\ Subscribe("http")
    /\ UNCHANGED <<config, ready, signal, wire, permits, conn, request, killed>>

BindHttp ==
    /\ main = "subscribed"
    /\ main' = "serving"
    /\ UNCHANGED <<config, ready, signal, inbox, wire, permits, conn, request, killed>>

(* An address that does not parse, a bind or a TLS error returns from      *)
(* serve.                                                                  *)
ServeFails ==
    /\ main \in {"built", "signal_spawned", "subscribed"}
    /\ main = "built" => wired
    /\ DropRuntime
    /\ UNCHANGED <<config, ready, signal, inbox, wire, permits, killed>>

-----------------------------------------------------------------------------
(* The HTTP server: axum::serve without TLS, serve_tls with it.            *)

ConnectHttp(c) ==
    /\ main = "serving" /\ request[c] = "none"
    /\ request' = [request EXCEPT ![c] = "queued"]
    /\ UNCHANGED <<config, main, ready, signal, inbox, wire, permits, conn, killed>>

AcceptHttp(c) ==
    /\ main = "serving" /\ request[c] = "queued"
    /\ request' = [request EXCEPT ![c] = "inflight"]
    /\ UNCHANGED <<config, main, ready, signal, inbox, wire, permits, conn, killed>>

Respond(c) ==
    /\ Running /\ request[c] = "inflight"
    /\ request' = [request EXCEPT ![c] = "done"]
    /\ UNCHANGED <<config, main, ready, signal, inbox, wire, permits, conn, killed>>

(* The accept loop hears the message and drops its listener.               *)
StopHttp ==
    /\ main = "serving" /\ inbox["http"] = "sent"
    /\ main' = "draining"
    /\ request' = [c \in Client |-> IF request[c] = "queued" THEN "refused" ELSE request[c]]
    /\ UNCHANGED <<config, ready, signal, inbox, wire, permits, conn, killed>>

(* The definitions named Bad... are the mistakes the runs' properties are  *)
(* tested against; no specification uses them.                             *)
BadDrained == TRUE

(* axum waits for the requests in flight; serve_tls returns at once.       *)
Drained == tls \/ \A c \in Client : request[c] # "inflight"

HttpReturns ==
    /\ main = "draining" /\ Drained
    /\ main' = "drained" /\ ready' = FALSE
    /\ UNCHANGED <<config, signal, inbox, wire, permits, conn, request, killed>>

Exit ==
    /\ main = "drained"
    /\ DropRuntime
    /\ UNCHANGED <<config, ready, signal, inbox, wire, permits, killed>>

-----------------------------------------------------------------------------
(* shutdown_signal and the task around it.                                 *)

InstallHandler ==
    /\ Running /\ signal = "spawned"
    /\ signal' = "listening"
    /\ UNCHANGED <<config, main, ready, inbox, wire, permits, conn, request, killed>>

BadSendShutdown == UNCHANGED inbox

SendShutdown == Broadcast

ForwardSignal ==
    /\ Running /\ signal = "caught"
    /\ signal' = "sent"
    /\ SendShutdown
    /\ UNCHANGED <<config, main, ready, wire, permits, conn, request, killed>>

(* SIGTERM or Ctrl-C, seen by the handler.  Once one has been caught the   *)
(* handler stays installed and nobody looks at later ones.                 *)
CatchSignal ==
    /\ Running /\ signal = "listening"
    /\ signal' = "caught"
    /\ UNCHANGED <<config, main, ready, inbox, wire, permits, conn, request, killed>>

(* Without a handler it ends the process where it stands.                  *)
KillEarly ==
    /\ Running /\ signal \in {"none", "spawned"}
    /\ killed' = TRUE
    /\ DropRuntime
    /\ UNCHANGED <<config, ready, signal, inbox, wire, permits>>

-----------------------------------------------------------------------------
(* falcon_wire::serve_with_shutdown.                                       *)

HasCap == MaxConnections # 0

TakePermit == permits' = IF HasCap THEN permits - 1 ELSE permits

BadGiveBack == UNCHANGED permits

GiveBack == permits' = IF HasCap THEN permits + 1 ELSE permits

(* The loop has returned: its listener is gone, queued peers are refused.  *)
StopWire ==
    /\ wire' = "stopped"
    /\ conn' = [c \in Client |-> IF conn[c] = "queued" THEN "closed" ELSE conn[c]]

BindWire ==
    /\ Running /\ wire = "binding"
    /\ wire' \in {"acquiring", "stopped"}
    /\ UNCHANGED <<config, main, ready, signal, inbox, permits, conn, request, killed>>

BadAcquireSlot ==
    /\ Running /\ wire = "acquiring"
    /\ wire' = "selecting"
    /\ TakePermit
    /\ UNCHANGED <<config, main, ready, signal, inbox, conn, request, killed>>

(* Waiting for a permit is not part of the select: a shutdown that comes   *)
(* meanwhile is noticed afterwards.                                        *)
AcquireSlot ==
    /\ Running /\ wire = "acquiring" /\ (HasCap => permits > 0)
    /\ wire' = "selecting"
    /\ TakePermit
    /\ UNCHANGED <<config, main, ready, signal, inbox, conn, request, killed>>

AcceptWire(c) ==
    /\ Running /\ wire = "selecting" /\ conn[c] = "queued"
    /\ wire' = "acquiring"
    /\ conn' = [conn EXCEPT ![c] = IF tls THEN "handshake" ELSE "open"]
    /\ UNCHANGED <<config, main, ready, signal, inbox, permits, request, killed>>

(* An error of accept ends the server, not the process.                    *)
AcceptWireFails ==
    /\ Running /\ wire = "selecting"
    /\ StopWire /\ GiveBack
    /\ UNCHANGED <<config, main, ready, signal, inbox, request, killed>>

BadHearShutdown ==
    /\ Running /\ wire = "selecting" /\ inbox["wire"] = "sent"
    /\ wire' = "acquiring" /\ GiveBack
    /\ UNCHANGED <<config, main, ready, signal, inbox, conn, request, killed>>

HearShutdown ==
    /\ Running /\ wire = "selecting" /\ inbox["wire"] = "sent"
    /\ StopWire /\ GiveBack
    /\ UNCHANGED <<config, main, ready, signal, inbox, request, killed>>

ConnectWire(c) ==
    /\ Running /\ wire \in {"acquiring", "selecting"} /\ conn[c] = "none"
    /\ conn' = [conn EXCEPT ![c] = "queued"]
    /\ UNCHANGED <<config, main, ready, signal, inbox, wire, permits, request, killed>>

Handshake(c) ==
    /\ Running /\ conn[c] = "handshake"
    /\ conn' = [conn EXCEPT ![c] = "open"]
    /\ UNCHANGED <<config, main, ready, signal, inbox, wire, permits, request, killed>>

(* A request arrives on an open connection, and its response goes out.     *)
WireRequest(c) ==
    /\ Running /\ conn[c] = "open"
    /\ conn' = [conn EXCEPT ![c] = "busy"]
    /\ UNCHANGED <<config, main, ready, signal, inbox, wire, permits, request, killed>>

WireReply(c) ==
    /\ Running /\ conn[c] = "busy"
    /\ conn' = [conn EXCEPT ![c] = "open"]
    /\ UNCHANGED <<config, main, ready, signal, inbox, wire, permits, request, killed>>

(* The handshake fails, the peer hangs up or resets, the idle timeout      *)
(* expires, a frame is malformed, or the responses cannot be written.      *)
CloseWire(c) ==
    /\ Running /\ conn[c] \in {"handshake", "open", "busy"}
    /\ conn' = [conn EXCEPT ![c] = "closed"]
    /\ GiveBack
    /\ UNCHANGED <<config, main, ready, signal, inbox, wire, request, killed>>

-----------------------------------------------------------------------------
MainStep ==
    \/ StartWire \/ SetReady \/ SpawnSignalTask \/ SubscribeHttp
    \/ BindHttp \/ ServeFails \/ StopHttp \/ HttpReturns \/ Exit

SignalStep == InstallHandler \/ ForwardSignal

WireLoop ==
    \/ BindWire \/ AcquireSlot \/ AcceptWireFails \/ HearShutdown
    \/ \E c \in Client : AcceptWire(c)

Next ==
    \/ MainStep \/ SignalStep \/ WireLoop \/ CatchSignal \/ KillEarly
    \/ \E c \in Client :
          \/ ConnectHttp(c) \/ AcceptHttp(c) \/ Respond(c)
          \/ ConnectWire(c) \/ Handshake(c) \/ WireRequest(c) \/ WireReply(c)
          \/ CloseWire(c)

Spec == Init /\ [][Next]_vars

(* tokio runs every task that can run, and a request in flight is answered: *)
(* its handler never blocks and its peer reads the answer.  Nothing makes a *)
(* wire peer hang up or finish a handshake.                                 *)
FairSpec ==
    /\ Spec
    /\ WF_vars(MainStep) /\ WF_vars(SignalStep) /\ WF_vars(WireLoop)
    /\ \A c \in Client : WF_vars(Respond(c)) /\ WF_vars(WireReply(c))
-----------------------------------------------------------------------------
(* Properties.                                                             *)

TypeOK ==
    /\ wired \in BOOLEAN /\ tls \in BOOLEAN /\ ready \in BOOLEAN /\ killed \in BOOLEAN
    /\ main \in {"built", "wire_spawned", "ready", "signal_spawned", "subscribed",
                 "serving", "draining", "drained", "exited"}
    /\ signal \in {"none", "spawned", "listening", "caught", "sent"}
    /\ inbox \in [Receiver -> {"none", "subscribed", "sent"}]
    /\ wire \in {"off", "binding", "acquiring", "selecting", "stopped"}
    /\ permits \in 0..MaxConnections
    /\ conn \in [Client -> {"none", "queued", "handshake", "open", "busy",
                            "closed", "cut"}]
    /\ request \in [Client -> {"none", "queued", "inflight", "done", "refused", "cut"}]

Slot == IF wire = "selecting" THEN 1 ELSE 0

(* Every permit is free, in the hands of the accept loop, or with one live *)
(* connection, over failed handshakes, hang-ups and errors of accept: the  *)
(* cap is neither exceeded nor ever eaten away (lib.rs:30-54, 86-105).     *)
PermitsConserved ==
    HasCap /\ Running => permits + Slot + Cardinality(Holding) = MaxConnections

(* A node that leaves by itself cuts no HTTP request it had accepted, as   *)
(* long as TLS is off (server.rs:125-148, serve.rs:183-188).               *)
PlainRequestsDrained ==
    ~tls /\ ~killed => \A c \in Client : request[c] # "cut"

(* A shutdown signal the HTTP server is subscribed for ends the process    *)
(* (serve.rs:171-189, node.rs:117-121).                                    *)
ShutdownEnds ==
    main \in {"subscribed", "serving"} /\ signal = "caught" ~> main = "exited"

(* The wire server stops accepting once told to, unless every permit is    *)
(* out: that wait is the one place where it does not listen                *)
(* (lib.rs:61-63, 86-94).                                                  *)
WireStopsAccepting ==
    inbox["wire"] = "sent"
       ~> wire = "stopped" \/ main = "exited" \/ (HasCap /\ permits = 0)

(* shutdown_signal is "the single shutdown trigger for graceful drain"     *)
(* (node.rs:117-118): a signal it has caught ends the process.             *)
EverySignalEnds == signal = "caught" ~> main = "exited"

(* serve_with_shutdown "drains in-flight requests when shutdown resolves"  *)
(* (falcon-api/src/server.rs:125-126), with TLS as without.                *)
RequestsDrained == ~killed => \A c \in Client : request[c] # "cut"
=============================================================================
