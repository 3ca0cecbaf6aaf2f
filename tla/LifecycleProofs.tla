--------------------------- MODULE LifecycleProofs -------------------------
(***************************************************************************)
(* Proofs about Lifecycle, for any number of clients and any cap.          *)
(***************************************************************************)
EXTENDS Lifecycle, FiniteSetTheorems, TLAPS

ConnState == {"none", "queued", "handshake", "open", "busy", "closed", "cut"}

(* The connections that hold a permit, and how one more or one less        *)
(* changes their number.                                                   *)
LEMMA HoldingFinite == IsFiniteSet(Holding) /\ Cardinality(Holding) \in Nat
<1>1. IsFiniteSet(Client) BY LifecycleAssumption
<1>2. Holding \subseteq Client BY DEF Holding
<1>3. IsFiniteSet(Holding) BY <1>1, <1>2, FS_Subset
<1> QED BY <1>3, FS_CardinalityType

LEMMA HoldingGrows ==
    ASSUME TypeOK, NEW c \in Client, NEW s \in {"handshake", "open"},
           conn[c] = "queued", conn' = [conn EXCEPT ![c] = s]
    PROVE  Cardinality(Holding') = Cardinality(Holding) + 1
<1>1. conn \in [Client -> ConnState] BY DEF TypeOK, ConnState
<1>2. Holding' = Holding \cup {c} BY <1>1 DEF Holding, ConnState
<1>3. c \notin Holding BY DEF Holding
<1>4. IsFiniteSet(Holding) BY HoldingFinite
<1>5. Cardinality(Holding \cup {c}) = Cardinality(Holding) + 1
  BY <1>3, <1>4, FS_AddElement
<1> QED BY <1>2, <1>5

LEMMA HoldingShrinks ==
    ASSUME TypeOK, NEW c \in Client,
           conn[c] \in {"handshake", "open", "busy"}, conn' = [conn EXCEPT ![c] = "closed"]
    PROVE  Cardinality(Holding) = Cardinality(Holding') + 1
<1>1. conn \in [Client -> ConnState] BY DEF TypeOK, ConnState
<1>2. Holding' = Holding \ {c} BY <1>1 DEF Holding, ConnState
<1>3. c \in Holding BY DEF Holding
<1>4. IsFiniteSet(Holding) BY HoldingFinite
<1>5. Cardinality(Holding \ {c}) = Cardinality(Holding) - 1
  BY <1>3, <1>4, FS_RemoveElement
<1>6. Cardinality(Holding) \in Nat BY HoldingFinite
<1> QED BY <1>2, <1>5, <1>6

-----------------------------------------------------------------------------
(* Before the HTTP server is up nobody has sent it a request, and without  *)
(* TLS none is in flight once it has drained.                              *)
RequestsFollowServer ==
    /\ main \in {"built", "wire_spawned", "ready", "signal_spawned", "subscribed"}
          => \A c \in Client : request[c] = "none"
    /\ ~tls /\ main = "drained" => \A c \in Client : request[c] # "inflight"

WireStartsOff == main = "built" => wire = "off"

PermitsInv == TypeOK /\ WireStartsOff /\ PermitsConserved

DrainInv == TypeOK /\ RequestsFollowServer /\ PlainRequestsDrained

LEMMA InitPermits == Init => PermitsInv
<1> SUFFICES ASSUME Init PROVE PermitsInv OBVIOUS
<1>1. TypeOK
  <2>1. permits \in 0..MaxConnections BY LifecycleAssumption DEF Init
  <2>2. wired \in BOOLEAN /\ tls \in BOOLEAN BY LifecycleAssumption DEF Init
  <2> QED BY <2>1, <2>2 DEF Init, TypeOK, Receiver
<1>2. PermitsConserved
  <2>1. Holding = {} BY DEF Init, Holding
  <2>2. Cardinality(Holding) = 0 BY <2>1, FS_EmptySet
  <2> QED BY <2>2, LifecycleAssumption DEF Init, PermitsConserved, Slot
<1> QED BY <1>1, <1>2 DEF PermitsInv, WireStartsOff, Init

LEMMA InitDrain == Init => DrainInv
BY InitPermits DEF PermitsInv, DrainInv, Init, RequestsFollowServer, PlainRequestsDrained

-----------------------------------------------------------------------------
(* A step that leaves the semaphore, the accept loop's slot and the live   *)
(* connections alone keeps the permits' account.                           *)
LEMMA PermitsUntouched ==
    ASSUME PermitsConserved, Running, permits' = permits, Slot' = Slot,
           Holding' = Holding
    PROVE  PermitsConserved'
BY DEF PermitsConserved

(* When the process has ended there is nothing left to account for.        *)
LEMMA PermitsAtExit == ASSUME main' = "exited" PROVE PermitsConserved'
BY DEF PermitsConserved, Running

LEMMA TypeStep == PermitsInv /\ [Next]_vars => TypeOK'
<1> SUFFICES ASSUME PermitsInv, [Next]_vars PROVE TypeOK' OBVIOUS
<1> USE DEF config, Receiver, TypeOK
<1>1. TypeOK /\ PermitsConserved /\ MaxConnections \in Nat
  BY LifecycleAssumption DEF PermitsInv
<1>2. CASE UNCHANGED vars BY <1>1, <1>2 DEF vars
<1>3. CASE MainStep
  <2>1. CASE StartWire BY <1>1, <2>1 DEF StartWire, Subscribe
  <2>2. CASE SetReady \/ SpawnSignalTask
    BY <1>1, <2>2 DEF SetReady, SpawnSignalTask
  <2>3. CASE SubscribeHttp \/ BindHttp
    BY <1>1, <2>3 DEF SubscribeHttp, BindHttp, Subscribe
  <2>4. CASE ServeFails BY <1>1, <2>4 DEF ServeFails, DropRuntime
  <2>5. CASE StopHttp BY <1>1, <2>5 DEF StopHttp
  <2>6. CASE HttpReturns BY <1>1, <2>6 DEF HttpReturns
  <2>7. CASE Exit BY <1>1, <2>7 DEF Exit, DropRuntime
  <2> QED BY <1>3, <2>1, <2>2, <2>3, <2>4, <2>5, <2>6, <2>7 DEF MainStep
<1>4. CASE SignalStep \/ CatchSignal
  BY <1>1, <1>4
  DEF SignalStep, InstallHandler, ForwardSignal, SendShutdown, Broadcast, CatchSignal
<1>5. CASE KillEarly BY <1>1, <1>5 DEF KillEarly, DropRuntime
<1>6. CASE BindWire BY <1>1, <1>6 DEF BindWire
<1>7. CASE AcquireSlot BY <1>1, <1>7 DEF AcquireSlot, TakePermit, HasCap
<1>8. CASE AcceptWireFails \/ HearShutdown
  <2>1. permits' \in 0..MaxConnections
    <3>1. Running /\ wire = "selecting" /\ GiveBack
      BY <1>8 DEF AcceptWireFails, HearShutdown
    <3>2. Cardinality(Holding) \in Nat BY HoldingFinite
    <3> QED BY <1>1, <3>1, <3>2 DEF PermitsConserved, GiveBack, HasCap, Slot
  <2> QED BY <1>1, <1>8, <2>1 DEF AcceptWireFails, HearShutdown, StopWire
<1>9. ASSUME NEW c \in Client, AcceptWire(c) PROVE TypeOK'
  BY <1>1, <1>9 DEF AcceptWire
<1>10. ASSUME NEW c \in Client, ConnectHttp(c) \/ AcceptHttp(c) \/ Respond(c)
       PROVE  TypeOK'
  BY <1>1, <1>10 DEF ConnectHttp, AcceptHttp, Respond
<1>11. ASSUME NEW c \in Client,
              ConnectWire(c) \/ Handshake(c) \/ WireRequest(c) \/ WireReply(c)
       PROVE  TypeOK'
  BY <1>1, <1>11 DEF ConnectWire, Handshake, WireRequest, WireReply
<1>12. ASSUME NEW c \in Client, CloseWire(c) PROVE TypeOK'
  <2>1. permits' \in 0..MaxConnections
    <3>1. Running /\ GiveBack BY <1>12 DEF CloseWire
    <3>2. Cardinality(Holding) = Cardinality(Holding') + 1
      BY <1>1, <1>12, HoldingShrinks DEF CloseWire
    <3>3. Cardinality(Holding) \in Nat BY HoldingFinite
    <3>4. Cardinality(Holding) > 0
      <4>1. c \in Holding BY <1>12 DEF CloseWire, Holding
      <4>2. IsFiniteSet(Holding) BY HoldingFinite
      <4>3. Cardinality(Holding) # 0 BY <4>1, <4>2, FS_EmptySet
      <4> QED BY <3>3, <4>3
    <3> QED BY <1>1, <3>1, <3>3, <3>4 DEF PermitsConserved, GiveBack, HasCap, Slot
  <2> QED BY <1>1, <1>12, <2>1 DEF CloseWire
<1> QED
  BY <1>2, <1>3, <1>4, <1>5, <1>6, <1>7, <1>8, <1>9, <1>10, <1>11, <1>12
  DEF Next, WireLoop

LEMMA PermitsStep == PermitsInv /\ [Next]_vars => PermitsInv'
<1> SUFFICES ASSUME PermitsInv, [Next]_vars
             PROVE  WireStartsOff' /\ PermitsConserved'
  BY TypeStep DEF PermitsInv
<1> USE DEF config
<1>2. TypeOK /\ WireStartsOff /\ PermitsConserved /\ MaxConnections \in Nat
  BY LifecycleAssumption DEF PermitsInv
<1>3. Cardinality(Holding) \in Nat /\ permits \in Nat
  BY <1>2, HoldingFinite DEF TypeOK
<1>4. CASE UNCHANGED vars
  BY <1>2, <1>4 DEF vars, WireStartsOff, PermitsConserved, Running, Slot, Holding
<1>5. CASE MainStep
  <2>1. CASE StartWire
    <3>1. Slot' = Slot BY <1>2, <2>1 DEF StartWire, WireStartsOff, Slot
    <3>2. Holding' = Holding BY <2>1 DEF StartWire, Holding
    <3> QED BY <1>2, <2>1, <3>1, <3>2, PermitsUntouched
            DEF StartWire, Running, WireStartsOff
  <2>2. CASE SetReady \/ SpawnSignalTask \/ SubscribeHttp \/ BindHttp
             \/ StopHttp \/ HttpReturns
    <3>1. Running /\ permits' = permits /\ Slot' = Slot /\ Holding' = Holding
      BY <2>2 DEF SetReady, SpawnSignalTask, SubscribeHttp, BindHttp, StopHttp,
                  HttpReturns, Running, Slot, Holding
    <3>2. main' # "built"
      BY <2>2 DEF SetReady, SpawnSignalTask, SubscribeHttp, BindHttp, StopHttp,
                  HttpReturns
    <3> QED BY <1>2, <3>1, <3>2, PermitsUntouched DEF WireStartsOff
  <2>3. CASE ServeFails \/ Exit
    BY <2>3, PermitsAtExit DEF ServeFails, Exit, DropRuntime, WireStartsOff
  <2> QED BY <1>5, <2>1, <2>2, <2>3 DEF MainStep
<1>6. CASE SignalStep \/ CatchSignal
  <2>1. Running /\ permits' = permits /\ Slot' = Slot /\ Holding' = Holding
        /\ main' = main /\ wire' = wire
    BY <1>6 DEF SignalStep, InstallHandler, ForwardSignal, CatchSignal, Slot, Holding
  <2> QED BY <1>2, <2>1, PermitsUntouched DEF WireStartsOff
<1>7. CASE KillEarly
  BY <1>7, PermitsAtExit DEF KillEarly, DropRuntime, WireStartsOff
<1>8. CASE BindWire
  <2>1. Running /\ permits' = permits /\ Slot' = Slot /\ Holding' = Holding
    BY <1>8 DEF BindWire, Slot, Holding
  <2> QED BY <1>2, <1>8, <2>1, PermitsUntouched DEF WireStartsOff, BindWire
<1>9. CASE AcquireSlot
  <2>1. Running /\ main' = main /\ wire = "acquiring" /\ TakePermit
        /\ Slot = 0 /\ Slot' = 1 /\ Holding' = Holding
    BY <1>9 DEF AcquireSlot, Slot, Holding
  <2> QED BY <1>2, <1>3, <2>1
          DEF PermitsConserved, TakePermit, HasCap, WireStartsOff, Running
<1>10. CASE AcceptWireFails \/ HearShutdown
  <2>1. Running /\ main' = main /\ wire = "selecting" /\ GiveBack
        /\ Slot = 1 /\ Slot' = 0
    BY <1>10 DEF AcceptWireFails, HearShutdown, StopWire, Slot
  <2>2. Holding' = Holding
    <3>1. conn' = [c \in Client |-> IF conn[c] = "queued" THEN "closed" ELSE conn[c]]
      BY <1>10 DEF AcceptWireFails, HearShutdown, StopWire
    <3> QED BY <3>1 DEF Holding
  <2> QED BY <1>2, <1>3, <2>1, <2>2
          DEF PermitsConserved, GiveBack, HasCap, WireStartsOff, Running
<1>11. ASSUME NEW c \in Client, AcceptWire(c) PROVE WireStartsOff' /\ PermitsConserved'
  <2>1. Running /\ main' = main /\ wire = "selecting" /\ permits' = permits
        /\ Slot = 1 /\ Slot' = 0
    BY <1>11 DEF AcceptWire, Slot
  <2>2. Cardinality(Holding') = Cardinality(Holding) + 1
    <3>1. PICK s \in {"handshake", "open"} : conn' = [conn EXCEPT ![c] = s]
      BY <1>11 DEF AcceptWire
    <3> QED BY <1>2, <1>11, <3>1, HoldingGrows DEF AcceptWire
  <2> QED BY <1>2, <1>3, <2>1, <2>2
          DEF PermitsConserved, WireStartsOff, Running
<1>12. ASSUME NEW c \in Client,
              ConnectHttp(c) \/ AcceptHttp(c) \/ Respond(c)
       PROVE  WireStartsOff' /\ PermitsConserved'
  <2>1. Running /\ permits' = permits /\ Slot' = Slot /\ Holding' = Holding
        /\ main' = main /\ wire' = wire
    BY <1>12 DEF ConnectHttp, AcceptHttp, Respond, Running, Slot, Holding
  <2> QED BY <1>2, <2>1, PermitsUntouched DEF WireStartsOff
<1>13. ASSUME NEW c \in Client,
              ConnectWire(c) \/ Handshake(c) \/ WireRequest(c) \/ WireReply(c)
       PROVE  WireStartsOff' /\ PermitsConserved'
  <2>1. Running /\ permits' = permits /\ Slot' = Slot /\ main' = main /\ wire' = wire
    BY <1>13 DEF ConnectWire, Handshake, WireRequest, WireReply, Slot
  <2>2. Holding' = Holding
    BY <1>2, <1>13
    DEF ConnectWire, Handshake, WireRequest, WireReply, Holding, TypeOK
  <2> QED BY <1>2, <2>1, <2>2, PermitsUntouched DEF WireStartsOff
<1>14. ASSUME NEW c \in Client, CloseWire(c) PROVE WireStartsOff' /\ PermitsConserved'
  <2>1. Running /\ main' = main /\ wire' = wire /\ Slot' = Slot /\ GiveBack
    BY <1>14 DEF CloseWire, Slot
  <2>2. Cardinality(Holding) = Cardinality(Holding') + 1
    BY <1>2, <1>14, HoldingShrinks DEF CloseWire
  <2>3. Slot \in Nat BY DEF Slot
  <2>4. Cardinality(Holding') \in Nat
    <3>1. IsFiniteSet(Client) /\ Holding' \subseteq Client
      BY LifecycleAssumption DEF Holding
    <3> QED BY <3>1, FS_Subset, FS_CardinalityType
  <2> QED BY <1>2, <1>3, <2>1, <2>2, <2>3, <2>4
          DEF PermitsConserved, WireStartsOff, Running, GiveBack, HasCap
<1> QED
  BY <1>4, <1>5, <1>6, <1>7, <1>8, <1>9, <1>10, <1>11, <1>12, <1>13, <1>14
  DEF Next, WireLoop

(* Every permit is free, with the accept loop, or with one live connection *)
(* (lib.rs:36-54, 86-105).                                                 *)
THEOREM PermitsAlwaysConserved == Spec => []PermitsConserved
<1>1. PermitsInv => PermitsConserved BY DEF PermitsInv
<1> QED BY <1>1, InitPermits, PermitsStep, PTL DEF Spec

THEOREM TypeCorrect == Spec => []TypeOK
<1>1. PermitsInv => TypeOK BY DEF PermitsInv
<1> QED BY <1>1, InitPermits, PermitsStep, PTL DEF Spec

-----------------------------------------------------------------------------
LEMMA DrainStep == TypeOK /\ TypeOK' /\ DrainInv /\ [Next]_vars => DrainInv'
<1> SUFFICES ASSUME TypeOK, TypeOK', DrainInv, [Next]_vars PROVE DrainInv' OBVIOUS
<1> USE DEF config, RequestsFollowServer, PlainRequestsDrained
<1>1. RequestsFollowServer /\ PlainRequestsDrained BY DEF DrainInv
<1>2. CASE UNCHANGED vars BY <1>1, <1>2 DEF vars, DrainInv
<1>3. CASE StartWire \/ SetReady \/ SpawnSignalTask \/ SubscribeHttp \/ BindHttp
  BY <1>1, <1>3
  DEF StartWire, SetReady, SpawnSignalTask, SubscribeHttp, BindHttp, DrainInv
<1>4. CASE ServeFails \/ Exit
  BY <1>1, <1>4 DEF ServeFails, Exit, DropRuntime, DrainInv
<1>5. CASE StopHttp BY <1>1, <1>5 DEF StopHttp, DrainInv
<1>6. CASE HttpReturns BY <1>1, <1>6 DEF HttpReturns, Drained, DrainInv
<1>7. CASE SignalStep \/ CatchSignal
  BY <1>1, <1>7 DEF SignalStep, InstallHandler, ForwardSignal, CatchSignal, DrainInv
<1>8. CASE KillEarly BY <1>1, <1>8 DEF KillEarly, DropRuntime, DrainInv
<1>9. CASE WireLoop
  BY <1>1, <1>9
  DEF WireLoop, BindWire, AcquireSlot, AcceptWireFails, HearShutdown, AcceptWire, DrainInv
<1>10. ASSUME NEW c \in Client, ConnectHttp(c) \/ AcceptHttp(c) PROVE DrainInv'
  BY <1>1, <1>10 DEF ConnectHttp, AcceptHttp, DrainInv, TypeOK
<1>11. ASSUME NEW c \in Client, Respond(c) PROVE DrainInv'
  BY <1>1, <1>11 DEF Respond, DrainInv, TypeOK
<1>12. ASSUME NEW c \in Client,
              ConnectWire(c) \/ Handshake(c) \/ WireRequest(c) \/ WireReply(c) \/ CloseWire(c)
       PROVE  DrainInv'
  BY <1>1, <1>12
  DEF ConnectWire, Handshake, WireRequest, WireReply, CloseWire, DrainInv
<1> QED
  BY <1>2, <1>3, <1>4, <1>5, <1>6, <1>7, <1>8, <1>9, <1>10, <1>11, <1>12
  DEF Next, MainStep

(* Without TLS, a node that leaves by itself cuts no HTTP request it had   *)
(* accepted (server.rs:125-148, serve.rs:183-188).                         *)
THEOREM PlainDrainCorrect == Spec => []PlainRequestsDrained
<1>1. DrainInv => PlainRequestsDrained BY DEF DrainInv
<1> QED BY <1>1, InitDrain, DrainStep, TypeCorrect, PTL DEF Spec
=============================================================================
