--------------------------- MODULE ClientModeProofs ---------------------------
(***************************************************************************)
(* Dynamic xips for every set of clients and servers, every width of the   *)
(* fields of a xip and every bound on joins, drops and requests.           *)
(***************************************************************************)
EXTENDS ClientMode, Integers, FiniteSetTheorems, TLAPS

Dxip == [xip : Server, process : Nat, router : Nat, switch : Nat, local : Nat]
AnyDxip == Dxip \cup {NoDxip}

Request == [type : {"request", "answer"}, client : Client, id : Nat, src : Client \cup Server,
            des : Client \cup Server, to : Client \cup Server, relay_flag : BOOLEAN]

JoinPackets == {p \in network : p.type = "join"}
JoinedPackets == {p \in network : p.type = "joined" /\ p.client \in Marked}

Joined == [type : {"joined"}, client : Client, to : Client, src : Server, dxip : AnyDxip,
           number : Nat]

(* At least the dynamic xips that all the servers together have handed out:*)
(* the join requests they have answered.                                   *)
Handed == joins - Cardinality(JoinPackets)

(***************************************************************************)
(* The inductive invariant.  First the shape of what is on the way and of  *)
(* what the two threads of a client are at.                                *)
(***************************************************************************)
PacketsOK ==
    network \subseteq
        [type : {"join"}, client : Client, to : Server, number : 0 .. joins - 1]
        \cup Joined
        \cup Request

ThreadsOK ==
    /\ adding \in [Client -> {Idle} \cup [step : {"dxip"}, node : Server, dxip : AnyDxip]]
    /\ dropping \in [Client -> {Idle} \cup [step : {"node"}, node : Server]
                                      \cup [step : {"dxip"}, node : Server, dxip : AnyDxip]]
    /\ DOMAIN dy_xip_map_ = Server
    /\ DOMAIN node_dxip_map_ = Client /\ DOMAIN dxip_node_map_ = Client
    /\ \A c \in Client : \A s \in DOMAIN node_dxip_map_[c] : node_dxip_map_[c][s] \in AnyDxip
    /\ \A c \in Marked : DOMAIN dxip_node_map_[c] \subseteq Dxip

Counted ==
    /\ IsFiniteSet(asked) /\ IsFiniteSet(JoinPackets)
    /\ Handed >= 0

(* The counter of a server has not come round to an id it has given out.   *)
Age(s, id) == IF id <= atom_xip_manager_id_[s] THEN atom_xip_manager_id_[s] - id
              ELSE atom_xip_manager_id_[s] - id + CounterSize

DxipsAreRecent ==
    \A s \in Server : \A x \in DOMAIN dy_xip_map_[s] :
        \E id \in 0 .. CounterSize - 1 : x = DispatchDynamicXip(s, id) /\ Age(s, id) < Handed

(* Whoever holds a dxip, the server that gave it knows that client for it. *)
(* JoinedPackets and what follows are about the clients in Marked.         *)
Given(c, x) ==
    x \in Dxip /\ x \in DOMAIN dy_xip_map_[x.xip] /\ dy_xip_map_[x.xip][x] = c

HoldersKnown ==
    /\ \A p \in JoinedPackets : p.dxip.xip = p.src /\ Given(p.client, p.dxip)
    /\ \A c \in Marked :
        /\ adding[c].step = "dxip" =>
              adding[c].dxip.xip = adding[c].node /\ Given(c, adding[c].dxip)
        /\ \A s \in DOMAIN node_dxip_map_[c] : Given(c, node_dxip_map_[c][s])
        /\ dropping[c].step = "dxip" => Given(c, dropping[c].dxip)

(* A dxip on its way to the client is new to it, and goes there once.      *)
AnswersAreNew ==
    /\ \A p, q \in JoinedPackets : p.dxip = q.dxip => p = q
    /\ \A p \in JoinedPackets :
        /\ \A s \in DOMAIN node_dxip_map_[p.client] : node_dxip_map_[p.client][s] # p.dxip
        /\ dropping[p.client].step = "dxip" => dropping[p.client].dxip # p.dxip

(* Half an AddDxip and half a DropDxip: the entry of node_dxip_map_ has    *)
(* its counterpart in dxip_node_map_ or the thread that adds is about to   *)
(* put it there, and what the thread that drops is about to erase is the   *)
(* counterpart of no entry.                                                *)
HalvesMeet ==
    \A c \in Marked : \A s \in DOMAIN node_dxip_map_[c] :
        LET x == node_dxip_map_[c][s]
        IN  /\ \/ x \in DOMAIN dxip_node_map_[c] /\ dxip_node_map_[c][x] = s
               \/ adding[c].step = "dxip" /\ adding[c].node = s /\ adding[c].dxip = x
            /\ dropping[c].step = "dxip" => dropping[c].dxip # x

Inv ==
    /\ TypeOK /\ PacketsOK /\ ThreadsOK /\ Counted /\ DxipsAreRecent
    /\ HoldersKnown /\ DxipReachesClient /\ AnswersAreNew /\ HalvesMeet

-----------------------------------------------------------------------------
(***************************************************************************)
(* Arithmetic of DispatchDynamicXip.                                       *)
(***************************************************************************)
Span == kLocal * kSwitch * kRouter      \* ids that differ in the fields below process

(* The widths are numbers, and the counter runs through kProcess spans.    *)
LEMMA Widths ==
    /\ kLocal \in Nat \ {0} /\ kSwitch \in Nat \ {0} /\ kRouter \in Nat \ {0}
    /\ kProcess \in Nat \ {0} /\ Span \in Nat \ {0}
    /\ CounterSize = Span * kProcess /\ CounterSize \in Nat \ {0} /\ Span <= CounterSize
    /\ MaxJoins \in Nat /\ MaxJoins < Span /\ MaxDrops \in Nat /\ MaxRequests \in Nat
<1>1. /\ kLocal \in Nat \ {0} /\ kSwitch \in Nat \ {0} /\ kRouter \in Nat \ {0}
      /\ kProcess \in Nat \ {0}
      /\ MaxJoins \in Nat /\ MaxJoins < Span /\ MaxDrops \in Nat /\ MaxRequests \in Nat
  BY ClientModeAssumption DEF Span
<1>2. kLocal * kSwitch \in Nat \ {0}
  BY <1>1
<1>3. Span \in Nat \ {0}
  BY <1>1, <1>2 DEF Span
<1>4. CounterSize = Span * kProcess
  BY <1>1 DEF Span, CounterSize
<1>5. Span * kProcess \in Nat \ {0} /\ Span <= Span * kProcess
  BY <1>1, <1>3
<1> QED BY <1>1, <1>3, <1>4, <1>5

(* Division leaves a remainder below the divisor.                          *)
LEMMA DivMod ==
    ASSUME NEW a \in Nat, NEW b \in Nat \ {0}
    PROVE  a \div b \in Nat /\ a % b \in 0 .. b - 1 /\ a = b * (a \div b) + (a % b)
OBVIOUS

(* Shifting twice is shifting by the sum: >> 8 of >> 8 is >> 16.           *)
LEMMA DivDiv ==
    ASSUME NEW a \in Nat, NEW b \in Nat \ {0}, NEW c \in Nat \ {0}
    PROVE  (a \div b) \div c = a \div (b * c)
OBVIOUS

(* A number strictly between 0 and n is no multiple of n.                  *)
LEMMA NoMultiple ==
    ASSUME NEW n \in Nat \ {0}, NEW d \in Int, NEW t \in 1 .. n - 1
    PROVE  t # n * d
<1>1. CASE d <= 0
  BY <1>1
<1>2. CASE d >= 1
  BY <1>2
<1> QED BY <1>1, <1>2

(* Numbers with the same lowest field differ by a multiple of its width.   *)
LEMMA Peel ==
    ASSUME NEW a \in Nat, NEW b \in Nat, NEW w \in Nat \ {0}, a % w = b % w
    PROVE  a - b = w * ((a \div w) - (b \div w))
<1>1. a = w * (a \div w) + (a % w) /\ a \div w \in Nat /\ a % w \in 0 .. w - 1
  BY DivMod, Zenon
<1>2. b = w * (b \div w) + (b % w) /\ b \div w \in Nat
  BY DivMod, Zenon
<1>3. PICK x \in Nat, y \in Nat, r \in 0 .. w - 1 : x = a \div w /\ y = b \div w /\ r = a % w
  BY <1>1, <1>2, Zenon
<1>4. a = w * x + r /\ b = w * y + r
  BY <1>1, <1>2, <1>3
<1>5. a - b = w * (x - y)
  BY <1>4
<1> QED BY <1>3, <1>5

(* Two counter values that are cut into the same fields are a whole number *)
(* of spans apart.                                                         *)
LEMMA SameFields ==
    ASSUME NEW s, NEW a \in Nat, NEW b \in Nat, DispatchDynamicXip(s, a) = DispatchDynamicXip(s, b)
    PROVE  \E d \in Int : a - b = Span * d
<1>1. kLocal \in Nat \ {0} /\ kSwitch \in Nat \ {0} /\ kRouter \in Nat \ {0}
      /\ kLocal * kSwitch \in Nat \ {0}
  BY Widths
<1>2. kSwitch \in Nat \ {0}
  BY Widths
<1>3. kRouter \in Nat \ {0}
  BY Widths
<1>4. /\ a % kLocal = b % kLocal
      /\ (a \div kLocal) % kSwitch = (b \div kLocal) % kSwitch
      /\ (a \div (kLocal * kSwitch)) % kRouter = (b \div (kLocal * kSwitch)) % kRouter
  BY DEF DispatchDynamicXip
<1>5. PICK a1 \in Nat, b1 \in Nat : a1 = a \div kLocal /\ b1 = b \div kLocal
  <2>1. a \div kLocal \in Nat /\ b \div kLocal \in Nat
    BY <1>1, DivMod
  <2> QED BY <2>1
<1>6. a1 \div kSwitch = a \div (kLocal * kSwitch) /\ b1 \div kSwitch = b \div (kLocal * kSwitch)
  BY <1>1, <1>5, DivDiv
<1>7. PICK a2 \in Nat, b2 \in Nat : a2 = a1 \div kSwitch /\ b2 = b1 \div kSwitch
  BY <1>1, DivMod
<1>8. PICK a3 \in Nat, b3 \in Nat : a3 = a2 \div kRouter /\ b3 = b2 \div kRouter
  BY <1>1, DivMod
<1>9. a - b = kLocal * (a1 - b1)
  <2>1. a - b = kLocal * ((a \div kLocal) - (b \div kLocal))
    BY <1>1, <1>4, Peel, SMTT(20)
  <2> QED BY <1>5, <2>1, Zenon
<1>10. a1 - b1 = kSwitch * (a2 - b2)
  <2>1. a1 % kSwitch = b1 % kSwitch
    BY <1>4, <1>5, Zenon
  <2>2. a1 - b1 = kSwitch * ((a1 \div kSwitch) - (b1 \div kSwitch))
    BY ONLY <1>2, <2>1, a1 \in Nat, b1 \in Nat, Peel
  <2> QED BY <1>7, <2>2, Zenon
<1>11. a2 - b2 = kRouter * (a3 - b3)
  <2>1. a2 % kRouter = b2 % kRouter
    BY <1>4, <1>6, <1>7, Zenon
  <2>2. a2 - b2 = kRouter * ((a2 \div kRouter) - (b2 \div kRouter))
    BY ONLY <1>3, <2>1, a2 \in Nat, b2 \in Nat, Peel
  <2> QED BY <1>8, <2>2, Zenon
<1>12. PICK d \in Int : d = a3 - b3
  OBVIOUS
<1>13. a - b = kLocal * (kSwitch * (kRouter * d))
  BY <1>9, <1>10, <1>11, <1>12
<1>14. kLocal * (kSwitch * (kRouter * d)) = Span * d
  BY <1>1, <1>12 DEF Span
<1> QED BY <1>12, <1>13, <1>14

(* Each of the next Span - 1 ids after an id, the counter's wrap included, *)
(* is cut into other fields.                                               *)
LEMMA DispatchIsNew ==
    ASSUME NEW s, NEW a \in 0 .. CounterSize - 1, NEW b \in 0 .. CounterSize - 1,
           NEW t \in 1 .. Span - 1, b - a = t \/ b - a = t - CounterSize
    PROVE  DispatchDynamicXip(s, a) # DispatchDynamicXip(s, b)
<1> SUFFICES ASSUME DispatchDynamicXip(s, b) = DispatchDynamicXip(s, a) PROVE FALSE
  OBVIOUS
<1>1. a \in Nat /\ b \in Nat
  BY Widths
<1>2. PICK d \in Int : b - a = Span * d
  BY <1>1, SameFields
<1>3. CASE b - a = t
  BY <1>2, <1>3, Widths, NoMultiple
<1>4. CASE b - a = t - CounterSize
  <2>1. t = Span * d + Span * kProcess
    BY <1>2, <1>4, Widths
  <2>2. t = Span * (d + kProcess) /\ d + kProcess \in Int
    BY <2>1, Widths
  <2> QED BY <2>2, Widths, NoMultiple
<1> QED BY <1>3, <1>4

-----------------------------------------------------------------------------
(***************************************************************************)
(* Requests and answers: what they may change, and that the invariant does *)
(* not depend on it.                                                       *)
(***************************************************************************)

(* What a relay or a destination makes of a message is a message again.    *)
LEMMA MessageOn ==
    ASSUME NEW p \in Request, p.to \in Server
    PROVE  /\ [p EXCEPT !.relay_flag = TRUE, !.src = p.to] \in Request
           /\ \A r \in Request : [r EXCEPT !.to = p.des] \in Request
           /\ \A r \in Request : ToClient(r) \in Request /\ (r.to \in Server => Answer(r) \in Request)
           /\ [p EXCEPT !.relay_flag = TRUE, !.src = p.to].to = p.to
<1>1. [p EXCEPT !.relay_flag = TRUE, !.src = p.to] \in Request
      /\ [p EXCEPT !.relay_flag = TRUE, !.src = p.to].to = p.to
  BY DEF Request
<1>2. ASSUME NEW r \in Request PROVE [r EXCEPT !.to = p.des] \in Request
  BY DEF Request
<1>3. ASSUME NEW r \in Request PROVE ToClient(r) \in Request
  BY DEF Request, ToClient
<1>4. ASSUME NEW r \in Request, r.to \in Server PROVE Answer(r) \in Request
  <2>1. Message("answer", r.client, r.id, r.to, r.src, r.src, TRUE) \in Request
    BY <1>4 DEF Request, Message
  <2> QED BY <2>1, <1>3 DEF Answer
<1> QED BY <1>1, <1>2, <1>3, <1>4

(* A packet is a join request, its answer, or a message.                   *)
LEMMA PacketKinds ==
    ASSUME PacketsOK, NEW p \in network
    PROVE  /\ p.client \in Client
           /\ p.type \in {"join", "joined", "request", "answer"}
           /\ p.type = "join" =>
                 p \in [type : {"join"}, client : Client, to : Server, number : 0 .. joins - 1]
           /\ p.type = "joined" =>
                 p \in Joined
           /\ p.type \in {"request", "answer"} => p \in Request
BY DEF PacketsOK, Request, Joined

(* Exchanging messages for messages touches neither kind of join packet.   *)
LEMMA MessagesOnly ==
    ASSUME PacketsOK, NEW old \in SUBSET Request, NEW new \in SUBSET Request,
           network' = (network \ old) \cup new, joins' = joins
    PROVE  PacketsOK' /\ JoinPackets' = JoinPackets /\ JoinedPackets' = JoinedPackets
<1>1. \A p \in Request : p.type # "join" /\ p.type # "joined"
  BY DEF Request
<1>2. PacketsOK'
  BY DEF PacketsOK, Request
<1> QED BY <1>1, <1>2 DEF JoinPackets, JoinedPackets

(* The steps of a request, from SendRequest to ClientReceive.              *)
RequestStep ==
    \/ \E c \in Client, s, des \in Server : SendRequest(c, s, des)
    \/ \E p \in network :
        /\ p.type \in {"request", "answer"}
        /\ RelayFirst(p) \/ RelayToClient(p) \/ HandleRequest(p) \/ ClientReceive(p)
        /\ UNCHANGED <<joins, drops>>

(* They leave the join packets, the servers and the clients' maps alone.   *)
LEMMA RequestStepKeeps ==
    ASSUME Inv, RequestStep
    PROVE  /\ UNCHANGED <<server, local, joins, drops>>
           /\ PacketsOK' /\ JoinPackets' = JoinPackets /\ JoinedPackets' = JoinedPackets
           /\ client_nodes_map_' \in [Range(process) -> SUBSET Client]
           /\ asked' \subseteq [id : 1 .. MaxRequests, client : Client, relay : Server, des : Server]
           /\ IsFiniteSet(asked')
<1>0. /\ PacketsOK /\ client_nodes_map_ \in [Range(process) -> SUBSET Client]
      /\ asked \subseteq [id : 1 .. MaxRequests, client : Client, relay : Server, des : Server]
      /\ IsFiniteSet(asked)
  BY DEF Inv, TypeOK, Counted
<1>1. ASSUME NEW c \in Client, NEW s \in Server, NEW des \in Server, SendRequest(c, s, des)
      PROVE  /\ UNCHANGED <<server, local, joins, drops, client_nodes_map_>>
             /\ PacketsOK' /\ JoinPackets' = JoinPackets /\ JoinedPackets' = JoinedPackets
             /\ asked' \subseteq [id : 1 .. MaxRequests, client : Client, relay : Server, des : Server]
             /\ IsFiniteSet(asked')
  <2>1. Cardinality(asked) + 1 \in 1 .. MaxRequests
    BY <1>0, <1>1, FS_CardinalityType, Widths DEF SendRequest
  <2>2. asked' = asked \cup {[id |-> Cardinality(asked) + 1, client |-> c, relay |-> s, des |-> des]}
    BY <1>1 DEF SendRequest
  <2>3. IsFiniteSet(asked')
    BY <1>0, <2>2, FS_AddElement
  <2>4. Message("request", c, Cardinality(asked) + 1, c, des, s, FALSE) \in Request
    BY <2>1, Widths DEF Message, Request
  <2>5. /\ network' = (network \ {}) \cup {Message("request", c, Cardinality(asked) + 1, c, des, s, FALSE)}
        /\ UNCHANGED <<server, local, joins, drops, client_nodes_map_>>
    BY <1>1 DEF SendRequest
  <2>6. PacketsOK' /\ JoinPackets' = JoinPackets /\ JoinedPackets' = JoinedPackets
    BY <1>0, <2>4, <2>5, MessagesOnly
  <2> QED BY <1>0, <2>1, <2>2, <2>3, <2>5, <2>6
<1>2. ASSUME NEW p \in network, p.type \in {"request", "answer"},
             RelayFirst(p) \/ RelayToClient(p) \/ HandleRequest(p) \/ ClientReceive(p),
             UNCHANGED <<joins, drops>>
      PROVE  /\ UNCHANGED <<server, local, joins, drops, asked>>
             /\ PacketsOK' /\ JoinPackets' = JoinPackets /\ JoinedPackets' = JoinedPackets
             /\ client_nodes_map_' \in [Range(process) -> SUBSET Client]
  <2>1. p \in Request /\ p.client \in Client
    BY <1>0, <1>2, PacketKinds
  <2>2. PICK new \in SUBSET Request : network' = (network \ {p}) \cup new
    <3>1. CASE RelayFirst(p)
      <4>1. PICK r \in Request : r = [p EXCEPT !.relay_flag = TRUE, !.src = p.to] /\ r.to = p.to
        BY <2>1, <3>1, MessageOn DEF RelayFirst
      <4>2. network' = (network \ {p}) \cup
                {IF p.des = p.to THEN Answer(r) ELSE [r EXCEPT !.to = p.des]}
        BY <3>1, <4>1 DEF RelayFirst
      <4>3. (IF p.des = p.to THEN Answer(r) ELSE [r EXCEPT !.to = p.des]) \in Request
        BY <2>1, <3>1, <4>1, MessageOn DEF RelayFirst
      <4> QED BY <4>2, <4>3
    <3>2. CASE RelayToClient(p)
      <4>1. ToClient(p) \in Request
        BY <2>1, <3>2, MessageOn DEF RelayToClient
      <4> QED BY <3>2, <4>1 DEF RelayToClient
    <3>3. CASE HandleRequest(p)
      <4>1. Answer(p) \in Request
        BY <2>1, <3>3, MessageOn DEF HandleRequest
      <4>2. (IF p.type = "request" THEN {Answer(p)} ELSE {}) \in SUBSET Request
        BY <4>1
      <4> QED BY <3>3, <4>2 DEF HandleRequest
    <3>4. CASE ClientReceive(p)
      <4>1. network' = (network \ {p}) \cup {}
        BY <3>4 DEF ClientReceive
      <4> QED BY <4>1
    <3> QED BY <1>2, <3>1, <3>2, <3>3, <3>4
  <2>3. PacketsOK' /\ JoinPackets' = JoinPackets /\ JoinedPackets' = JoinedPackets
    BY ONLY <1>0, <1>2, <2>1, <2>2, MessagesOnly
  <2>4. client_nodes_map_' \in [Range(process) -> SUBSET Client]
    BY <1>0, <1>2, <2>1 DEF RelayFirst, RelayToClient, HandleRequest, ClientReceive, relay
  <2>5. UNCHANGED <<server, local, asked>>
    BY <1>2 DEF RelayFirst, RelayToClient, HandleRequest, ClientReceive, relay
  <2> QED BY <1>2, <2>3, <2>4, <2>5
<1> QED BY <1>0, <1>1, <1>2 DEF RequestStep

(* So they preserve the invariant, and so does a step that changes nothing.*)
LEMMA Frame ==
    ASSUME Inv, UNCHANGED <<server, local, joins, drops>>,
           PacketsOK', JoinPackets' = JoinPackets, JoinedPackets' = JoinedPackets,
           client_nodes_map_' \in [Range(process) -> SUBSET Client],
           asked' \subseteq [id : 1 .. MaxRequests, client : Client, relay : Server, des : Server],
           IsFiniteSet(asked')
    PROVE  Inv'
<1> USE DEF server, local
<1>1. TypeOK'
  BY DEF Inv, TypeOK
<1>2. ThreadsOK' /\ Counted' /\ Handed' = Handed
  BY DEF Inv, ThreadsOK, Counted, Handed
<1>3. DxipsAreRecent'
  BY <1>2 DEF Inv, DxipsAreRecent, Age
<1>4. HoldersKnown' /\ DxipReachesClient'
  BY DEF Inv, HoldersKnown, DxipReachesClient, Given
<1>5. AnswersAreNew' /\ HalvesMeet'
  BY DEF Inv, AnswersAreNew, HalvesMeet
<1> QED BY <1>1, <1>2, <1>3, <1>4, <1>5 DEF Inv

-----------------------------------------------------------------------------
(***************************************************************************)
(* The two threads of a client.                                            *)
(***************************************************************************)

(* What the threads of a client leave alone keeps its part of the          *)
(* invariant.                                                              *)
LEMMA ClientOnly ==
    ASSUME Inv, UNCHANGED <<server, relay, network, joins>>
    PROVE  /\ PacketsOK' /\ Counted' /\ DxipsAreRecent'
           /\ JoinPackets' = JoinPackets /\ JoinedPackets' = JoinedPackets
           /\ \A c, x : Given(c, x)' <=> Given(c, x)
<1> USE DEF server, relay
<1>1. PacketsOK' /\ JoinPackets' = JoinPackets /\ JoinedPackets' = JoinedPackets
  BY DEF Inv, PacketsOK, JoinPackets, JoinedPackets
<1>2. Handed' = Handed /\ Counted'
  BY <1>1 DEF Inv, Counted, Handed
<1>3. DxipsAreRecent'
  BY <1>2 DEF Inv, DxipsAreRecent, Age
<1> QED BY <1>1, <1>2, <1>3 DEF Given

(* AddDxip's second half: the counterpart is put into dxip_node_map_.      *)
LEMMA AddDxipNodeStep ==
    ASSUME Inv, NEW c \in Client, AddDxipNode(c)
    PROVE  Inv'
<1>0. /\ TypeOK /\ ThreadsOK /\ HoldersKnown /\ DxipReachesClient /\ AnswersAreNew
      /\ HalvesMeet /\ Marked \subseteq Client
  BY ClientModeAssumption DEF Inv
<1>1. /\ UNCHANGED <<server, relay, network, joins, drops, nodes_, node_dxip_map_, dropping>>
      /\ adding[c].step = "dxip"
      /\ adding' = [adding EXCEPT ![c] = Idle]
      /\ pending' = [pending EXCEPT ![c][adding[c].node] = @ + 1]
      /\ dxip_node_map_' = [dxip_node_map_ EXCEPT ![c] = Put(@, adding[c].dxip, adding[c].node)]
  BY DEF AddDxipNode
<1>2. adding[c] \in [step : {"dxip"}, node : Server, dxip : AnyDxip]
  BY <1>0, <1>1 DEF ThreadsOK, Idle
<1>3. PICK s \in Server, x \in AnyDxip : s = adding[c].node /\ x = adding[c].dxip
  BY <1>2
<1>4. /\ adding'[c].step = "idle"
      /\ \A c2 \in Client \ {c} : adding'[c2] = adding[c2]
      /\ adding' \in [Client -> {Idle} \cup [step : {"dxip"}, node : Server, dxip : AnyDxip]]
  BY <1>0, <1>1, <1>2, <1>3 DEF ThreadsOK, Idle
<1>5. /\ DOMAIN dxip_node_map_' = Client
      /\ dxip_node_map_'[c] = Put(dxip_node_map_[c], x, s)
      /\ \A c2 \in Client \ {c} : dxip_node_map_'[c2] = dxip_node_map_[c2]
  BY <1>0, <1>1, <1>3 DEF ThreadsOK
<1>6. /\ DOMAIN dxip_node_map_'[c] = DOMAIN dxip_node_map_[c] \cup {x}
      /\ dxip_node_map_'[c][x] = s
      /\ \A y \in DOMAIN dxip_node_map_[c] \ {x} : dxip_node_map_'[c][y] = dxip_node_map_[c][y]
  BY <1>5 DEF Put
<1>7. /\ PacketsOK' /\ Counted' /\ DxipsAreRecent'
      /\ JoinPackets' = JoinPackets /\ JoinedPackets' = JoinedPackets
      /\ \A d, y : Given(d, y)' <=> Given(d, y)
  BY <1>1, ClientOnly
<1>8. c \in Marked => x.xip = s /\ Given(c, x)
  BY <1>0, <1>1, <1>3 DEF HoldersKnown
<1>9. TypeOK'
  <2>1. pending' \in [Client -> [Server -> Nat]]
    BY <1>0, <1>1, <1>3 DEF TypeOK
  <2> QED BY <1>0, <1>1, <1>5, <1>6, <2>1 DEF TypeOK, server, relay
<1>10. ThreadsOK'
  <2>1. \A d \in Marked : DOMAIN dxip_node_map_'[d] \subseteq Dxip
    BY <1>0, <1>5, <1>6, <1>8 DEF ThreadsOK, Given
  <2> QED BY <1>0, <1>1, <1>4, <1>5, <1>6, <2>1 DEF ThreadsOK, server
<1>11. HoldersKnown'
  BY <1>0, <1>1, <1>4, <1>7, <1>8 DEF HoldersKnown
<1>12. DxipReachesClient'
  <2> SUFFICES ASSUME NEW d \in Marked, NEW y \in DOMAIN dxip_node_map_'[d] PROVE Given(d, y)'
    BY DEF DxipReachesClient, Given
  <2>1. CASE d = c /\ y = x
    BY <1>7, <1>8, <2>1
  <2>2. CASE ~(d = c /\ y = x)
    <3>1. y \in DOMAIN dxip_node_map_[d]
      BY <1>0, <1>5, <1>6, <2>2
    <3>2. Given(d, y)
      BY <1>0, <3>1 DEF DxipReachesClient, Given, ThreadsOK
    <3> QED BY <1>7, <3>2
  <2> QED BY <2>1, <2>2
<1>13. AnswersAreNew'
  BY <1>0, <1>1, <1>7 DEF AnswersAreNew
<1>14. HalvesMeet'
  <2> SUFFICES ASSUME NEW d \in Marked, NEW r \in DOMAIN node_dxip_map_[d]
               PROVE  LET y == node_dxip_map_[d][r]
                      IN  /\ \/ y \in DOMAIN dxip_node_map_'[d] /\ dxip_node_map_'[d][y] = r
                             \/ adding'[d].step = "dxip" /\ adding'[d].node = r /\ adding'[d].dxip = y
                          /\ dropping[d].step = "dxip" => dropping[d].dxip # y
    BY <1>1 DEF HalvesMeet
  <2>1. node_dxip_map_[d][r].xip = r
    BY <1>0 DEF TypeOK
  <2>2. CASE d = c
    BY <1>0, <1>3, <1>6, <1>8, <2>1, <2>2 DEF HalvesMeet
  <2>3. CASE d # c
    BY <1>0, <1>4, <1>5, <2>3 DEF HalvesMeet
  <2> QED BY <2>2, <2>3
<1> QED BY <1>7, <1>9, <1>10, <1>11, <1>12, <1>13, <1>14 DEF Inv

(* AddNode and the first step of DropNode change nodes_ and nothing of the *)
(* dxips.                                                                  *)
LEMMA NodesStep ==
    ASSUME Inv, NEW c \in Client, NEW s \in Server, AddNode(c, s) \/ DropNode(c, s)
    PROVE  Inv'
<1>0. /\ TypeOK /\ ThreadsOK /\ HoldersKnown /\ DxipReachesClient /\ AnswersAreNew
      /\ HalvesMeet /\ Marked \subseteq Client
  BY ClientModeAssumption DEF Inv
<1>1. /\ UNCHANGED <<server, relay, network, joins, node_dxip_map_, dxip_node_map_, adding>>
      /\ drops' \in 0 .. MaxDrops
  BY <1>0, Widths DEF AddNode, DropNode, TypeOK
<1>2. /\ nodes_' \in [Client \cup Server -> SUBSET (Client \cup Server)]
      /\ \A d \in Client : nodes_'[d] \subseteq Server
  <2>1. nodes_' = [nodes_ EXCEPT ![c] = @ \cup {s}] \/ nodes_' = [nodes_ EXCEPT ![c] = @ \ {s}]
    BY DEF AddNode, DropNode
  <2>2. nodes_ \in [Client \cup Server -> SUBSET (Client \cup Server)]
        /\ \A d \in Client : nodes_[d] \subseteq Server
    BY <1>0 DEF TypeOK
  <2>3. \A d \in Client : nodes_'[d] \subseteq nodes_[d] \cup {s}
    BY <2>1, <2>2
  <2> QED BY <2>1, <2>2, <2>3
<1>3. /\ UNCHANGED dropping \/ dropping' = [dropping EXCEPT ![c] = [step |-> "node", node |-> s]]
      /\ pending' \in [Client -> [Server -> Nat]]
  <2>1. CASE AddNode(c, s)
    <3>1. /\ pending \in [Client -> [Server -> Nat]] /\ pending[c][s] > 0
          /\ pending' = [pending EXCEPT ![c][s] = @ - 1] /\ UNCHANGED dropping
      BY <1>0, <2>1 DEF AddNode, TypeOK
    <3>2. pending[c][s] - 1 \in Nat
      BY <3>1
    <3> QED BY <3>1, <3>2
  <2>2. CASE DropNode(c, s)
    BY <1>0, <2>2 DEF DropNode, TypeOK
  <2> QED BY <2>1, <2>2
<1>4. /\ PacketsOK' /\ Counted' /\ DxipsAreRecent'
      /\ JoinPackets' = JoinPackets /\ JoinedPackets' = JoinedPackets
      /\ \A d, y : Given(d, y)' <=> Given(d, y)
  BY <1>1, ClientOnly
<1>5. TypeOK'
  BY <1>0, <1>1, <1>2, <1>3 DEF TypeOK, server, relay
<1>6. ThreadsOK'
  <2>1. dropping' \in [Client -> {Idle} \cup [step : {"node"}, node : Server]
                                        \cup [step : {"dxip"}, node : Server, dxip : AnyDxip]]
    BY <1>0, <1>3 DEF ThreadsOK
  <2> QED BY <1>0, <1>1, <2>1 DEF ThreadsOK, server
<1>7. \A d \in Client : dropping'[d] = dropping[d] \/ dropping'[d].step = "node"
  BY <1>0, <1>3 DEF ThreadsOK
<1>8. HoldersKnown'
  BY <1>0, <1>1, <1>4, <1>7 DEF HoldersKnown
<1>9. DxipReachesClient'
  BY <1>0, <1>1 DEF DxipReachesClient, server
<1>10. AnswersAreNew'
  <2>1. \A p \in JoinedPackets : p.client \in Client
    BY PacketKinds DEF Inv, JoinedPackets
  <2> QED BY <1>0, <1>1, <1>4, <1>7, <2>1 DEF AnswersAreNew
<1>11. HalvesMeet'
  BY <1>0, <1>1, <1>7 DEF HalvesMeet
<1> QED BY <1>4, <1>5, <1>6, <1>8, <1>9, <1>10, <1>11 DEF Inv

(* DropDxip's first half: the entry leaves node_dxip_map_, and the thread  *)
(* remembers its dxip.  No other entry has it, since every dxip is filed   *)
(* under the server it names.                                              *)
LEMMA DropNodeDxipStep ==
    ASSUME Inv, NEW c \in Client, DropNodeDxip(c)
    PROVE  Inv'
<1>0. /\ TypeOK /\ ThreadsOK /\ HoldersKnown /\ DxipReachesClient /\ AnswersAreNew
      /\ HalvesMeet /\ Marked \subseteq Client
  BY ClientModeAssumption DEF Inv
<1>1. /\ UNCHANGED <<server, relay, network, joins, drops, nodes_, dxip_node_map_, adding, pending>>
      /\ dropping[c].step = "node"
  BY DEF DropNodeDxip
<1>2. PICK s \in Server : s = dropping[c].node
  BY <1>0, <1>1 DEF ThreadsOK, Idle
<1>3. /\ dropping' = [dropping EXCEPT ![c] = IF s \in DOMAIN node_dxip_map_[c]
                         THEN [step |-> "dxip", node |-> s, dxip |-> node_dxip_map_[c][s]] ELSE Idle]
      /\ node_dxip_map_' = [node_dxip_map_ EXCEPT ![c] = Erase(@, s)]
  BY <1>2 DEF DropNodeDxip
<1>4. /\ DOMAIN node_dxip_map_' = Client
      /\ \A d \in Client \ {c} : node_dxip_map_'[d] = node_dxip_map_[d] /\ dropping'[d] = dropping[d]
      /\ node_dxip_map_'[c] = Erase(node_dxip_map_[c], s)
      /\ dropping'[c] = IF s \in DOMAIN node_dxip_map_[c]
                        THEN [step |-> "dxip", node |-> s, dxip |-> node_dxip_map_[c][s]] ELSE Idle
  BY <1>0, <1>3 DEF ThreadsOK
<1>5. /\ DOMAIN node_dxip_map_'[c] = DOMAIN node_dxip_map_[c] \ {s}
      /\ \A r \in DOMAIN node_dxip_map_[c] \ {s} : node_dxip_map_'[c][r] = node_dxip_map_[c][r]
  BY <1>4 DEF Erase, Restrict
<1>6. \A d \in Client : \A r \in DOMAIN node_dxip_map_'[d] :
          r \in DOMAIN node_dxip_map_[d] /\ node_dxip_map_'[d][r] = node_dxip_map_[d][r]
  BY <1>4, <1>5
<1>7. /\ PacketsOK' /\ Counted' /\ DxipsAreRecent'
      /\ JoinPackets' = JoinPackets /\ JoinedPackets' = JoinedPackets
      /\ \A d, y : Given(d, y)' <=> Given(d, y)
  BY <1>1, ClientOnly
<1>8. TypeOK'
  BY <1>0, <1>1, <1>6 DEF TypeOK, server, relay
<1>9. ThreadsOK'
  <2>1. s \in DOMAIN node_dxip_map_[c] => node_dxip_map_[c][s] \in AnyDxip
    BY <1>0 DEF ThreadsOK
  <2>2. dropping' \in [Client -> {Idle} \cup [step : {"node"}, node : Server]
                                        \cup [step : {"dxip"}, node : Server, dxip : AnyDxip]]
    BY <1>0, <1>3, <2>1 DEF ThreadsOK
  <2> QED BY <1>0, <1>1, <1>4, <1>6, <2>2 DEF ThreadsOK, server
<1>10. /\ dropping'[c].step = "dxip" => /\ s \in DOMAIN node_dxip_map_[c]
                                        /\ dropping'[c].dxip = node_dxip_map_[c][s]
  BY <1>4 DEF Idle
<1>11. HoldersKnown'
  BY <1>0, <1>1, <1>4, <1>6, <1>7, <1>10 DEF HoldersKnown
<1>12. DxipReachesClient'
  BY <1>0, <1>1 DEF DxipReachesClient, server
<1>13. AnswersAreNew'
  <2>1. \A p \in JoinedPackets : p.client \in Client
    BY PacketKinds DEF Inv, JoinedPackets
  <2> QED BY <1>0, <1>4, <1>6, <1>7, <1>10, <2>1 DEF AnswersAreNew
<1>14. HalvesMeet'
  <2> SUFFICES ASSUME NEW d \in Marked, NEW r \in DOMAIN node_dxip_map_'[d]
               PROVE  LET y == node_dxip_map_'[d][r]
                      IN  /\ \/ y \in DOMAIN dxip_node_map_[d] /\ dxip_node_map_[d][y] = r
                             \/ adding[d].step = "dxip" /\ adding[d].node = r /\ adding[d].dxip = y
                          /\ dropping'[d].step = "dxip" => dropping'[d].dxip # y
    BY <1>1 DEF HalvesMeet
  <2>1. r \in DOMAIN node_dxip_map_[d] /\ node_dxip_map_'[d][r] = node_dxip_map_[d][r]
    BY <1>0, <1>6
  <2>2. CASE d = c
    <3>1. r # s /\ node_dxip_map_[c][r].xip = r
      BY <1>0, <1>5, <2>1, <2>2 DEF TypeOK
    <3>2. s \in DOMAIN node_dxip_map_[c] => node_dxip_map_[c][s].xip = s
      BY <1>0, <2>2 DEF TypeOK
    <3> QED BY <1>0, <1>10, <2>1, <2>2, <3>1, <3>2 DEF HalvesMeet
  <2>3. CASE d # c
    BY <1>0, <1>4, <2>1, <2>3 DEF HalvesMeet
  <2> QED BY <2>2, <2>3
<1> QED BY <1>7, <1>8, <1>9, <1>11, <1>12, <1>13, <1>14 DEF Inv

(* DropDxip's second half: what it erases is no entry's counterpart.       *)
LEMMA DropDxipNodeStep ==
    ASSUME Inv, NEW c \in Client, DropDxipNode(c)
    PROVE  Inv'
<1>0. /\ TypeOK /\ ThreadsOK /\ HoldersKnown /\ DxipReachesClient /\ AnswersAreNew
      /\ HalvesMeet /\ Marked \subseteq Client
  BY ClientModeAssumption DEF Inv
<1>1. /\ UNCHANGED <<server, relay, network, joins, drops, nodes_, node_dxip_map_, adding, pending>>
      /\ dropping[c].step = "dxip"
      /\ dropping' = [dropping EXCEPT ![c] = Idle]
      /\ dxip_node_map_' = [dxip_node_map_ EXCEPT ![c] = Erase(@, dropping[c].dxip)]
  BY DEF DropDxipNode
<1>2. PICK x : x = dropping[c].dxip
  OBVIOUS
<1>3. /\ DOMAIN dxip_node_map_' = Client
      /\ \A d \in Client \ {c} : dxip_node_map_'[d] = dxip_node_map_[d] /\ dropping'[d] = dropping[d]
      /\ dxip_node_map_'[c] = Erase(dxip_node_map_[c], x)
      /\ dropping'[c].step = "idle"
      /\ dropping' \in [Client -> {Idle} \cup [step : {"node"}, node : Server]
                                         \cup [step : {"dxip"}, node : Server, dxip : AnyDxip]]
  BY <1>0, <1>1, <1>2 DEF ThreadsOK, Idle
<1>4. /\ DOMAIN dxip_node_map_'[c] = DOMAIN dxip_node_map_[c] \ {x}
      /\ \A y \in DOMAIN dxip_node_map_[c] \ {x} : dxip_node_map_'[c][y] = dxip_node_map_[c][y]
  BY <1>3 DEF Erase, Restrict
<1>5. \A d \in Client : \A y \in DOMAIN dxip_node_map_'[d] :
          y \in DOMAIN dxip_node_map_[d] /\ dxip_node_map_'[d][y] = dxip_node_map_[d][y]
  BY <1>3, <1>4
<1>6. /\ PacketsOK' /\ Counted' /\ DxipsAreRecent'
      /\ JoinPackets' = JoinPackets /\ JoinedPackets' = JoinedPackets
      /\ \A d, y : Given(d, y)' <=> Given(d, y)
  BY <1>1, ClientOnly
<1>7. TypeOK'
  BY <1>0, <1>1, <1>5 DEF TypeOK, server, relay
<1>8. ThreadsOK'
  BY <1>0, <1>1, <1>3, <1>5 DEF ThreadsOK, server
<1>9. HoldersKnown'
  BY <1>0, <1>1, <1>3, <1>6 DEF HoldersKnown
<1>10. DxipReachesClient'
  <2> SUFFICES ASSUME NEW d \in Marked, NEW y \in DOMAIN dxip_node_map_'[d] PROVE Given(d, y)'
    BY DEF DxipReachesClient, Given
  <2>1. Given(d, y)
    BY <1>0, <1>5 DEF DxipReachesClient, Given, ThreadsOK
  <2> QED BY <1>6, <2>1
<1>11. AnswersAreNew'
  <2>1. \A p \in JoinedPackets : p.client \in Client
    BY PacketKinds DEF Inv, JoinedPackets
  <2> QED BY <1>0, <1>1, <1>3, <1>6, <2>1 DEF AnswersAreNew
<1>12. HalvesMeet'
  <2> SUFFICES ASSUME NEW d \in Marked, NEW r \in DOMAIN node_dxip_map_[d]
               PROVE  LET y == node_dxip_map_[d][r]
                      IN  /\ \/ y \in DOMAIN dxip_node_map_'[d] /\ dxip_node_map_'[d][y] = r
                             \/ adding[d].step = "dxip" /\ adding[d].node = r /\ adding[d].dxip = y
                          /\ dropping'[d].step = "dxip" => dropping'[d].dxip # y
    BY <1>1 DEF HalvesMeet
  <2>1. CASE d = c
    <3>1. node_dxip_map_[c][r] # x
      BY <1>0, <1>1, <1>2, <2>1 DEF HalvesMeet
    <3> QED BY <1>0, <1>3, <1>4, <2>1, <3>1 DEF HalvesMeet
  <2>2. CASE d # c
    BY <1>0, <1>3, <2>2 DEF HalvesMeet
  <2> QED BY <2>1, <2>2
<1> QED BY <1>6, <1>7, <1>8, <1>9, <1>10, <1>11, <1>12 DEF Inv

(* AddDxip's first half: the answer of a server is handled, and its dxip   *)
(* is new to the client.                                                   *)
LEMMA AddNodeDxipStep ==
    ASSUME Inv, NEW p \in network, AddNodeDxip(p), UNCHANGED <<joins, drops>>
    PROVE  Inv'
<1>0. TypeOK /\ PacketsOK /\ ThreadsOK /\ Counted /\ DxipsAreRecent /\ HoldersKnown
      /\ DxipReachesClient /\ AnswersAreNew /\ HalvesMeet /\ Marked \subseteq Client
  BY ClientModeAssumption DEF Inv
<1>1. p.type = "joined" /\ (p.client \in Marked => p \in JoinedPackets)
  BY DEF AddNodeDxip, JoinedPackets
<1>2. p \in Joined
  BY <1>0, <1>1, PacketKinds
<1>3. PICK c \in Client, s \in Server, x \in AnyDxip : c = p.client /\ s = p.src /\ x = p.dxip
  BY <1>2 DEF Joined
<1>4. /\ UNCHANGED <<server, relay, joins, drops, nodes_, dxip_node_map_, pending, dropping>>
      /\ adding[c] = Idle /\ network' = network \ {p}
      /\ node_dxip_map_' = [node_dxip_map_ EXCEPT ![c] = Put(@, s, x)]
      /\ adding' = [adding EXCEPT ![c] = [step |-> "dxip", node |-> s, dxip |-> x]]
  BY <1>3 DEF AddNodeDxip
<1>5. /\ DOMAIN node_dxip_map_' = Client
      /\ \A d \in Client \ {c} : node_dxip_map_'[d] = node_dxip_map_[d] /\ adding'[d] = adding[d]
      /\ node_dxip_map_'[c] = Put(node_dxip_map_[c], s, x)
      /\ adding'[c] = [step |-> "dxip", node |-> s, dxip |-> x]
      /\ adding' \in [Client -> {Idle} \cup [step : {"dxip"}, node : Server, dxip : AnyDxip]]
  BY <1>0, <1>4 DEF ThreadsOK
<1>6. /\ DOMAIN node_dxip_map_'[c] = DOMAIN node_dxip_map_[c] \cup {s}
      /\ node_dxip_map_'[c][s] = x
      /\ \A r \in DOMAIN node_dxip_map_[c] \ {s} : node_dxip_map_'[c][r] = node_dxip_map_[c][r]
  BY <1>5 DEF Put
<1>7. ASSUME NEW d \in Client, NEW r \in DOMAIN node_dxip_map_'[d]
      PROVE  \/ d = c /\ r = s /\ node_dxip_map_'[d][r] = x
             \/ /\ ~(d = c /\ r = s) /\ r \in DOMAIN node_dxip_map_[d]
                /\ node_dxip_map_'[d][r] = node_dxip_map_[d][r]
  BY <1>5, <1>6
<1>8. /\ JoinPackets' = JoinPackets /\ JoinedPackets' = JoinedPackets \ {p}
      /\ PacketsOK' /\ Handed' = Handed /\ Counted'
  <2>1. JoinPackets' = JoinPackets /\ JoinedPackets' = JoinedPackets \ {p}
    BY <1>1, <1>4 DEF JoinPackets, JoinedPackets
  <2>2. PacketsOK'
    BY <1>0, <1>4 DEF PacketsOK
  <2> QED BY <1>0, <1>4, <2>1, <2>2 DEF Handed, Counted, relay
<1>9. DxipsAreRecent'
  BY <1>0, <1>4, <1>8 DEF DxipsAreRecent, Age, server
<1>10. \A d, y : Given(d, y)' <=> Given(d, y)
  BY <1>4 DEF Given, server
<1>11. c \in Marked => x.xip = s /\ Given(c, x)
  BY <1>0, <1>1, <1>3 DEF HoldersKnown
<1>12. TypeOK'
  BY <1>0, <1>4, <1>7, <1>11 DEF TypeOK, server, relay
<1>13. ThreadsOK'
  BY <1>0, <1>4, <1>5, <1>7 DEF ThreadsOK, server
<1>14. HoldersKnown'
  <2>1. dy_xip_map_' = dy_xip_map_
    BY <1>4 DEF server
  <2>2. \A q \in JoinedPackets' : q.dxip.xip = q.src /\ Given(q.client, q.dxip)'
    BY <1>0, <1>8, <1>10 DEF HoldersKnown
  <2>3. ASSUME NEW d \in Marked
        PROVE  (adding[d].step = "dxip" =>
                   adding[d].dxip.xip = adding[d].node /\ Given(d, adding[d].dxip))'
    <3>1. CASE d = c
      BY <1>5, <1>11, <2>1, <3>1 DEF Given
    <3>2. CASE d # c
      BY <1>0, <1>5, <2>1, <3>2 DEF HoldersKnown, Given
    <3> QED BY <3>1, <3>2
  <2>4. ASSUME NEW d \in Marked, NEW r \in DOMAIN node_dxip_map_'[d]
        PROVE  Given(d, node_dxip_map_[d][r])'
    <3>1. CASE d = c /\ r = s
      BY <1>6, <1>11, <2>1, <3>1 DEF Given
    <3>2. CASE ~(d = c /\ r = s)
      BY <1>0, <1>7, <2>1, <3>2 DEF HoldersKnown, Given
    <3> QED BY <3>1, <3>2
  <2>5. \A d \in Marked : (dropping[d].step = "dxip" => Given(d, dropping[d].dxip))'
    BY <1>0, <1>4, <2>1 DEF HoldersKnown, Given
  <2> QED BY <2>2, <2>3, <2>4, <2>5 DEF HoldersKnown
<1>15. DxipReachesClient'
  BY <1>0, <1>4 DEF DxipReachesClient, server
<1>16. AnswersAreNew'
  <2>1. \A q \in JoinedPackets : q.client \in Marked
    BY DEF JoinedPackets
  <2>2. \A q \in JoinedPackets' : q \in JoinedPackets /\ (c \in Marked => q.dxip # x)
    BY <1>0, <1>1, <1>3, <1>8 DEF AnswersAreNew
  <2>3. ASSUME NEW q \in JoinedPackets', NEW r \in DOMAIN node_dxip_map_'[q.client]
        PROVE  node_dxip_map_'[q.client][r] # q.dxip
    BY <1>0, <1>7, <2>1, <2>2 DEF AnswersAreNew
  <2> QED BY <1>0, <1>4, <2>2, <2>3 DEF AnswersAreNew
<1>17. HalvesMeet'
  <2> SUFFICES ASSUME NEW d \in Marked, NEW r \in DOMAIN node_dxip_map_'[d]
               PROVE  LET y == node_dxip_map_'[d][r]
                      IN  /\ \/ y \in DOMAIN dxip_node_map_[d] /\ dxip_node_map_[d][y] = r
                             \/ adding'[d].step = "dxip" /\ adding'[d].node = r /\ adding'[d].dxip = y
                          /\ dropping[d].step = "dxip" => dropping[d].dxip # y
    BY <1>4 DEF HalvesMeet
  <2>1. CASE d = c /\ r = s
    <3>1. node_dxip_map_'[c][s] = x
      BY <1>6
    <3>2. dropping[c].step = "dxip" => dropping[c].dxip # x
      BY <1>0, <1>1, <1>3, <2>1 DEF AnswersAreNew
    <3> QED BY <1>5, <2>1, <3>1, <3>2
  <2>2. CASE ~(d = c /\ r = s)
    <3>1. r \in DOMAIN node_dxip_map_[d] /\ node_dxip_map_'[d][r] = node_dxip_map_[d][r]
      BY <1>0, <1>7, <2>2
    <3>2. adding[c].step # "dxip"
      BY <1>4 DEF Idle
    <3> QED BY <1>0, <1>5, <3>1, <3>2 DEF HalvesMeet
  <2> QED BY <2>1, <2>2
<1> QED BY <1>8, <1>9, <1>12, <1>13, <1>14, <1>15, <1>16, <1>17 DEF Inv

-----------------------------------------------------------------------------
(***************************************************************************)
(* Join requests.                                                          *)
(***************************************************************************)

(* A new join request: the dxips handed out stay as many.                  *)
LEMMA BootstrapStep ==
    ASSUME Inv, NEW c \in Client, NEW s \in Server, Bootstrap(c, s)
    PROVE  Inv'
<1>0. TypeOK /\ PacketsOK /\ ThreadsOK /\ Counted /\ DxipsAreRecent /\ HoldersKnown
      /\ DxipReachesClient /\ AnswersAreNew /\ HalvesMeet /\ Marked \subseteq Client
  BY ClientModeAssumption DEF Inv
<1>1. PICK p : p = [type |-> "join", client |-> c, to |-> s, number |-> joins]
  OBVIOUS
<1>2. /\ UNCHANGED <<server, local, relay, drops>> /\ network' = network \cup {p}
      /\ joins \in 0 .. MaxJoins /\ joins < MaxJoins /\ joins' = joins + 1
  BY <1>0, <1>1 DEF Bootstrap, TypeOK
<1>3. p \notin network
  <2>1. \A q \in network : q.type = "join" => q.number \in 0 .. joins - 1
    BY <1>0, PacketKinds
  <2> QED BY <1>1, <1>2, <2>1, Widths
<1>4. /\ JoinPackets' = JoinPackets \cup {p} /\ p \notin JoinPackets
      /\ JoinedPackets' = JoinedPackets
  BY <1>1, <1>2, <1>3 DEF JoinPackets, JoinedPackets
<1>5. /\ IsFiniteSet(JoinPackets') /\ Cardinality(JoinPackets') = Cardinality(JoinPackets) + 1
      /\ Cardinality(JoinPackets) \in Nat
  BY <1>0, <1>4, FS_AddElement, FS_CardinalityType DEF Counted
<1>6. Handed' = Handed
  BY <1>2, <1>5 DEF Handed
<1>7. Counted'
  BY <1>0, <1>2, <1>5, <1>6 DEF Counted, relay
<1>8. PacketsOK'
  <2>1. p \in [type : {"join"}, client : Client, to : Server, number : 0 .. joins' - 1]
    BY <1>1, <1>2, Widths
  <2>2. [type : {"join"}, client : Client, to : Server, number : 0 .. joins - 1]
        \subseteq [type : {"join"}, client : Client, to : Server, number : 0 .. joins' - 1]
    BY <1>2, Widths
  <2> QED BY <1>0, <1>2, <2>1, <2>2 DEF PacketsOK
<1>9. TypeOK'
  BY <1>0, <1>2, Widths DEF TypeOK, server, local, relay
<1>10. ThreadsOK'
  BY <1>0, <1>2 DEF ThreadsOK, server, local
<1>11. DxipsAreRecent'
  BY <1>0, <1>2, <1>6 DEF DxipsAreRecent, Age, server
<1>12. HoldersKnown' /\ DxipReachesClient'
  BY <1>0, <1>2, <1>4 DEF HoldersKnown, DxipReachesClient, Given, server, local
<1>13. AnswersAreNew' /\ HalvesMeet'
  BY <1>0, <1>2, <1>4 DEF AnswersAreNew, HalvesMeet, local
<1> QED BY <1>7, <1>8, <1>9, <1>10, <1>11, <1>12, <1>13 DEF Inv

(* A dynamic xip is a xip of the server with numbers in its fields.        *)
LEMMA DispatchType ==
    ASSUME NEW s \in Server, NEW id \in 0 .. CounterSize - 1
    PROVE  DispatchDynamicXip(s, id) \in Dxip /\ DispatchDynamicXip(s, id).xip = s
<1>1. id \in Nat /\ kLocal * kSwitch \in Nat \ {0} /\ Span \in Nat \ {0}
      /\ kLocal \in Nat \ {0} /\ kSwitch \in Nat \ {0} /\ kRouter \in Nat \ {0} /\ kProcess \in Nat \ {0}
  BY Widths
<1>2. ASSUME NEW i \in Nat, NEW w \in Nat \ {0} PROVE i \div w \in Nat /\ i % w \in Nat
  <2>1. i \div w \in Nat /\ i % w \in 0 .. w - 1
    BY DivMod, Zenon
  <2> QED BY <2>1
<1>3. /\ id % kLocal \in Nat /\ (id \div kLocal) % kSwitch \in Nat
      /\ (id \div (kLocal * kSwitch)) % kRouter \in Nat
      /\ (id \div Span) % kProcess \in Nat
  BY <1>1, <1>2, Zenon
<1>4. ((id \div Span) % kProcess) * kRouter \in Nat
  BY <1>1, <1>3
<1> QED BY <1>3, <1>4 DEF DispatchDynamicXip, Dxip, Span

(* A server hands out a dxip that it has not handed out before, although   *)
(* its counter may start anywhere and wrap.                                *)
LEMMA JoinGivesNewDxip ==
    ASSUME Inv, NEW p \in JoinPackets, NEW s \in Server, s = p.to,
           NEW now, now = (atom_xip_manager_id_[s] + 1) % CounterSize
    PROVE  /\ now \in 0 .. CounterSize - 1
           /\ Handed \in Nat /\ Handed + 1 <= MaxJoins
           /\ DispatchDynamicXip(s, now) \notin DOMAIN dy_xip_map_[s]
           /\ \A id \in 0 .. CounterSize - 1 : Age(s, id) < Handed =>
                 /\ id <= now => now - id = Age(s, id) + 1
                 /\ id > now => now - id + CounterSize = Age(s, id) + 1
<1>0. TypeOK /\ Counted /\ DxipsAreRecent
  BY DEF Inv
<1>1. PICK a \in 0 .. CounterSize - 1 : a = atom_xip_manager_id_[s]
  BY <1>0 DEF TypeOK
<1>2. now = (IF a + 1 = CounterSize THEN 0 ELSE a + 1) /\ now \in 0 .. CounterSize - 1
  BY <1>1, Widths
<1>3. Cardinality(JoinPackets) \in Nat \ {0}
  BY <1>0, FS_CardinalityType, FS_EmptySet DEF Counted
<1>4. Handed \in Nat /\ Handed + 1 <= MaxJoins
  <2>1. joins \in 0 .. MaxJoins /\ Handed >= 0
    BY <1>0 DEF TypeOK, Counted
  <2>2. MaxJoins \in Nat
    BY Widths
  <2> QED BY <1>3, <2>1, <2>2 DEF Handed
<1>5. ASSUME NEW id \in 0 .. CounterSize - 1, Age(s, id) < Handed
      PROVE  /\ id <= now => now - id = Age(s, id) + 1
             /\ id > now => now - id + CounterSize = Age(s, id) + 1
             /\ Age(s, id) + 1 \in 1 .. Span - 1
  <2>1. /\ CounterSize \in Nat \ {0} /\ Span \in Nat /\ Span <= CounterSize
        /\ MaxJoins \in Nat /\ MaxJoins < Span
    BY Widths
  <2>2. Age(s, id) = IF id <= a THEN a - id ELSE a - id + CounterSize
    BY <1>1 DEF Age
  <2>3. PICK g \in Nat : g = Age(s, id) /\ g + 1 < Span /\ g + 1 < CounterSize
    BY <1>1, <1>4, <1>5, <2>1, <2>2
  <2> QED BY <1>1, <1>2, <2>1, <2>2, <2>3
<1>6. ASSUME DispatchDynamicXip(s, now) \in DOMAIN dy_xip_map_[s] PROVE FALSE
  <2>1. PICK id \in 0 .. CounterSize - 1 :
            DispatchDynamicXip(s, now) = DispatchDynamicXip(s, id) /\ Age(s, id) < Handed
    BY <1>0, <1>6 DEF DxipsAreRecent
  <2>2. PICK t \in 1 .. Span - 1 : now - id = t \/ now - id = t - CounterSize
    <3>1. Age(s, id) + 1 \in 1 .. Span - 1
      BY <1>5, <2>1
    <3>2. now - id = Age(s, id) + 1 \/ now - id = (Age(s, id) + 1) - CounterSize
      BY <1>1, <1>2, <1>5, <2>1, Widths DEF Age
    <3> QED BY <3>1, <3>2
  <2> QED BY <1>2, <2>1, <2>2, DispatchIsNew
<1> QED BY <1>2, <1>4, <1>5, <1>6

(* A server answers a join request: the dxip is new, so no client's entry  *)
(* in dy_xip_map_ is overwritten.                                          *)
LEMMA JoinRequestStep ==
    ASSUME Inv, NEW p \in network, HandleClientJoin(p), UNCHANGED <<joins, drops>>
    PROVE  Inv'
<1>0. TypeOK /\ PacketsOK /\ ThreadsOK /\ Counted /\ DxipsAreRecent /\ HoldersKnown
      /\ DxipReachesClient /\ AnswersAreNew /\ HalvesMeet /\ Marked \subseteq Client
  BY ClientModeAssumption DEF Inv
<1>1. p.type = "join" /\ p \in JoinPackets /\ p.client \in Marked
  BY DEF HandleClientJoin, JoinPackets
<1>2. p \in [type : {"join"}, client : Client, to : Server, number : 0 .. joins - 1]
  BY <1>0, <1>1, PacketKinds
<1>3. PICK c \in Marked, s \in Server : c = p.client /\ s = p.to
  BY <1>1, <1>2
<1>4. PICK now : now = (atom_xip_manager_id_[s] + 1) % CounterSize
  OBVIOUS
<1>5. /\ now \in 0 .. CounterSize - 1
      /\ Handed \in Nat /\ Handed + 1 <= MaxJoins
      /\ DispatchDynamicXip(s, now) \notin DOMAIN dy_xip_map_[s]
      /\ \A id \in 0 .. CounterSize - 1 : Age(s, id) < Handed =>
            /\ id <= now => now - id = Age(s, id) + 1
            /\ id > now => now - id + CounterSize = Age(s, id) + 1
  BY <1>1, <1>3, <1>4, JoinGivesNewDxip
<1>6. PICK x \in Dxip : x = DispatchDynamicXip(s, now) /\ x.xip = s
  BY <1>5, DispatchType
<1>7. PICK q : /\ q = JoinResponse(p, x) /\ q \in Joined /\ q.type = "joined"
               /\ q.client = c /\ q.src = s /\ q.dxip = x
  <2>1. p.number \in Nat /\ c \in Client /\ x \in AnyDxip
    BY <1>0, <1>2, Widths DEF TypeOK, AnyDxip
  <2>2. JoinResponse(p, x) = [type |-> "joined", client |-> c, to |-> c, src |-> s, dxip |-> x,
                              number |-> p.number]
    BY <1>3 DEF JoinResponse
  <2> QED BY <2>1, <2>2 DEF Joined
<1>8. /\ UNCHANGED <<local, relay, joins, drops>>
      /\ atom_xip_manager_id_' = [atom_xip_manager_id_ EXCEPT ![s] = now]
      /\ dy_xip_map_' = [dy_xip_map_ EXCEPT ![s] = Put(@, x, c)]
      /\ network' = (network \ {p}) \cup {q}
  BY <1>3, <1>4, <1>6, <1>7 DEF HandleClientJoin
<1>9. /\ DOMAIN dy_xip_map_' = Server /\ x \notin DOMAIN dy_xip_map_[s]
      /\ \A r \in Server \ {s} : dy_xip_map_'[r] = dy_xip_map_[r]
      /\ dy_xip_map_'[s] = Put(dy_xip_map_[s], x, c)
  BY <1>0, <1>5, <1>6, <1>8 DEF ThreadsOK
<1>10. /\ DOMAIN dy_xip_map_'[s] = DOMAIN dy_xip_map_[s] \cup {x} /\ dy_xip_map_'[s][x] = c
       /\ \A y \in DOMAIN dy_xip_map_[s] : dy_xip_map_'[s][y] = dy_xip_map_[s][y]
  BY <1>9 DEF Put
<1>11. /\ JoinPackets' = JoinPackets \ {p} /\ JoinedPackets' = JoinedPackets \cup {q}
       /\ PacketsOK'
  <2>1. JoinPackets' = JoinPackets \ {p} /\ JoinedPackets' = JoinedPackets \cup {q}
    BY <1>1, <1>7, <1>8 DEF JoinPackets, JoinedPackets
  <2> QED BY <1>0, <1>7, <1>8, <2>1 DEF PacketsOK
<1>12. Handed' = Handed + 1 /\ Counted'
  <2>1. /\ IsFiniteSet(JoinPackets') /\ Cardinality(JoinPackets') = Cardinality(JoinPackets) - 1
        /\ Cardinality(JoinPackets) \in Nat
    BY <1>0, <1>1, <1>11, FS_RemoveElement, FS_CardinalityType DEF Counted
  <2>2. Handed' = Handed + 1
    BY <1>0, <1>8, <2>1 DEF Handed, TypeOK
  <2> QED BY <1>0, <1>5, <1>8, <2>1, <2>2 DEF Counted, relay
<1>13. ASSUME NEW d, NEW y, Given(d, y) PROVE Given(d, y)' /\ y # x
  <2>1. y.xip \in Server
    BY <1>13 DEF Given, Dxip
  <2> QED BY <1>6, <1>9, <1>10, <1>13, <2>1 DEF Given
<1>14. Given(c, x)'
  BY <1>6, <1>10 DEF Given
<1>15. TypeOK'
  <2>1. atom_xip_manager_id_' \in [Server -> 0 .. CounterSize - 1]
    BY <1>0, <1>5, <1>8 DEF TypeOK
  <2>2. \A r \in Server : \A y \in DOMAIN dy_xip_map_'[r] : y.xip = r /\ dy_xip_map_'[r][y] \in Client
    BY <1>0, <1>6, <1>9, <1>10 DEF TypeOK
  <2> QED BY <1>0, <1>8, <2>1, <2>2 DEF TypeOK, local, relay
<1>16. ThreadsOK'
  BY <1>0, <1>8, <1>9 DEF ThreadsOK, local
<1>17. DxipsAreRecent'
  <2> SUFFICES ASSUME NEW r \in Server, NEW y \in DOMAIN dy_xip_map_'[r]
               PROVE  \E id \in 0 .. CounterSize - 1 :
                          y = DispatchDynamicXip(r, id) /\ Age(r, id)' < Handed'
    BY DEF DxipsAreRecent
  <2>1. CASE r # s
    <3>1. PICK id \in 0 .. CounterSize - 1 : y = DispatchDynamicXip(r, id) /\ Age(r, id) < Handed
      BY <1>0, <1>9, <2>1 DEF DxipsAreRecent
    <3>2. Age(r, id)' = Age(r, id) /\ Age(r, id) \in Int
      BY <1>0, <1>8, <2>1, Widths DEF Age, TypeOK
    <3> QED BY <1>5, <1>12, <3>1, <3>2
  <2>2. CASE r = s /\ y # x
    <3>1. PICK id \in 0 .. CounterSize - 1 : y = DispatchDynamicXip(s, id) /\ Age(s, id) < Handed
      BY <1>0, <1>10, <2>2 DEF DxipsAreRecent
    <3>2. atom_xip_manager_id_'[s] = now
      BY <1>0, <1>8 DEF TypeOK
    <3>3. Age(s, id)' = Age(s, id) + 1 /\ Age(s, id) \in Int
      BY <1>0, <1>5, <3>1, <3>2, Widths DEF Age, TypeOK
    <3> QED BY <1>5, <1>12, <2>2, <3>1, <3>3
  <2>3. CASE r = s /\ y = x
    <3>1. Age(s, now)' = 0
      BY <1>0, <1>5, <1>8 DEF Age, TypeOK
    <3> QED BY <1>5, <1>6, <1>12, <2>3, <3>1
  <2> QED BY <2>1, <2>2, <2>3
<1>18. HoldersKnown'
  <2>1. \A d \in JoinedPackets' : d.dxip.xip = d.src /\ Given(d.client, d.dxip)'
    BY <1>0, <1>6, <1>7, <1>11, <1>13, <1>14 DEF HoldersKnown
  <2>2. adding' = adding /\ dropping' = dropping /\ node_dxip_map_' = node_dxip_map_
    BY <1>8 DEF local
  <2>3. ASSUME NEW d, NEW y, Given(d, y)
        PROVE  y \in Dxip /\ y \in DOMAIN dy_xip_map_'[y.xip] /\ dy_xip_map_'[y.xip][y] = d
    BY <1>13, <2>3 DEF Given
  <2>4. ASSUME NEW d \in Marked
        PROVE  /\ adding[d].step = "dxip" =>
                      adding[d].dxip.xip = adding[d].node /\ Given(d, adding[d].dxip)
               /\ \A r \in DOMAIN node_dxip_map_[d] : Given(d, node_dxip_map_[d][r])
               /\ dropping[d].step = "dxip" => Given(d, dropping[d].dxip)
    BY <1>0 DEF HoldersKnown
  <2> QED BY <2>1, <2>2, <2>3, <2>4 DEF HoldersKnown, Given
<1>19. DxipReachesClient'
  <2> SUFFICES ASSUME NEW d \in Marked, NEW y \in DOMAIN dxip_node_map_[d] PROVE Given(d, y)'
    BY <1>8 DEF DxipReachesClient, Given, local
  <2>1. Given(d, y)
    BY <1>0 DEF DxipReachesClient, Given, ThreadsOK
  <2> QED BY <1>13, <2>1
<1>20. AnswersAreNew'
  <2>1. q.dxip = x /\ q.client = c
    BY <1>7
  <2>2. \A d \in JoinedPackets : d.dxip # x
    BY <1>0, <1>13 DEF HoldersKnown
  <2>3. \A r \in DOMAIN node_dxip_map_[c] : node_dxip_map_[c][r] # x
    BY <1>0, <1>13 DEF HoldersKnown
  <2>4. dropping[c].step = "dxip" => dropping[c].dxip # x
    BY <1>0, <1>13 DEF HoldersKnown
  <2> QED BY <1>0, <1>8, <1>11, <2>1, <2>2, <2>3, <2>4 DEF AnswersAreNew, local
<1>21. HalvesMeet'
  BY <1>0, <1>8 DEF HalvesMeet, local
<1> QED BY <1>11, <1>12, <1>15, <1>16, <1>17, <1>18, <1>19, <1>20, <1>21 DEF Inv

(* A join request that does not say client_msg: no dxip is handed out.     *)
LEMMA PeerJoinStep ==
    ASSUME Inv, NEW p \in network, HandlePeerJoin(p), UNCHANGED <<joins, drops>>
    PROVE  Inv'
<1>0. TypeOK /\ PacketsOK /\ ThreadsOK /\ Counted /\ DxipsAreRecent /\ HoldersKnown
      /\ DxipReachesClient /\ AnswersAreNew /\ HalvesMeet /\ Marked \subseteq Client
  BY ClientModeAssumption DEF Inv
<1>1. p.type = "join" /\ p \in JoinPackets /\ p.client \notin Marked
  BY DEF HandlePeerJoin, JoinPackets
<1>2. /\ p \in [type : {"join"}, client : Client, to : Server, number : 0 .. joins - 1]
      /\ p.client \in Client /\ p.to \in Server /\ p.number \in 0 .. joins - 1
  BY <1>0, <1>1, PacketKinds
<1>3. PICK q : /\ q = JoinResponse(p, NoDxip) /\ q \in Joined /\ q.type = "joined"
               /\ q.client = p.client
  <2>1. PICK n \in Nat, c \in Client, s \in Server, x \in AnyDxip :
            n = p.number /\ c = p.client /\ s = p.to /\ x = NoDxip
    BY <1>0, <1>2, Widths DEF TypeOK, AnyDxip
  <2>2. JoinResponse(p, NoDxip) = [type |-> "joined", client |-> c, to |-> c, src |-> s,
                                   dxip |-> x, number |-> n]
    BY <2>1 DEF JoinResponse
  <2> QED BY <2>1, <2>2 DEF Joined
<1>4. /\ UNCHANGED <<server, node_dxip_map_, dxip_node_map_, adding, pending, dropping, relay,
                     joins, drops>>
      /\ network' = (network \ {p}) \cup {q}
      /\ nodes_' = [nodes_ EXCEPT ![p.to] = @ \cup {p.client}]
  BY <1>3 DEF HandlePeerJoin
<1>5. /\ JoinPackets' = JoinPackets \ {p} /\ JoinedPackets' = JoinedPackets
      /\ PacketsOK'
  <2>1. JoinPackets' = JoinPackets \ {p} /\ JoinedPackets' = JoinedPackets
    BY <1>1, <1>3, <1>4 DEF JoinPackets, JoinedPackets
  <2> QED BY <1>0, <1>3, <1>4, <2>1 DEF PacketsOK
<1>6. Handed' = Handed + 1 /\ Handed \in Int /\ Counted'
  <2>1. /\ IsFiniteSet(JoinPackets') /\ Cardinality(JoinPackets') = Cardinality(JoinPackets) - 1
        /\ Cardinality(JoinPackets) \in Nat
    BY <1>0, <1>1, <1>5, FS_RemoveElement, FS_CardinalityType DEF Counted
  <2>2. joins \in Int /\ Handed >= 0
    BY <1>0, Widths DEF TypeOK, Counted
  <2>3. Handed' = Handed + 1 /\ Handed \in Int
    BY <1>4, <2>1, <2>2 DEF Handed
  <2> QED BY <1>0, <1>4, <2>1, <2>2, <2>3 DEF Counted, relay
<1>7. TypeOK'
  <2>1. p.to \notin Client
    BY <1>2, ClientModeAssumption
  <2>2. /\ nodes_' \in [Client \cup Server -> SUBSET (Client \cup Server)]
        /\ \A d \in Client : nodes_'[d] \subseteq Server
    BY <1>0, <1>2, <1>4, <2>1 DEF TypeOK
  <2> QED BY <1>0, <1>4, <2>2 DEF TypeOK, server, relay
<1>8. ThreadsOK'
  BY <1>0, <1>4 DEF ThreadsOK, server
<1>9. DxipsAreRecent'
  <2> SUFFICES ASSUME NEW r \in Server, NEW y \in DOMAIN dy_xip_map_[r]
               PROVE  \E id \in 0 .. CounterSize - 1 :
                          y = DispatchDynamicXip(r, id) /\ Age(r, id)' < Handed'
    BY <1>4 DEF DxipsAreRecent, server
  <2>1. PICK id \in 0 .. CounterSize - 1 : y = DispatchDynamicXip(r, id) /\ Age(r, id) < Handed
    BY <1>0 DEF DxipsAreRecent
  <2>2. Age(r, id)' = Age(r, id) /\ Age(r, id) \in Int
    BY <1>0, <1>4, Widths DEF Age, TypeOK, server
  <2> QED BY <1>6, <2>1, <2>2
<1>10. HoldersKnown' /\ DxipReachesClient'
  BY <1>0, <1>4, <1>5 DEF HoldersKnown, DxipReachesClient, Given, server
<1>11. AnswersAreNew' /\ HalvesMeet'
  BY <1>0, <1>4, <1>5 DEF AnswersAreNew, HalvesMeet
<1> QED BY <1>5, <1>6, <1>7, <1>8, <1>9, <1>10, <1>11 DEF Inv

-----------------------------------------------------------------------------
(* At the start no dxip is handed out and the counters hold anything.      *)
LEMMA InvInit == Init => Inv
<1> SUFFICES ASSUME Init PROVE Inv
  OBVIOUS
<1>1. DOMAIN Empty = {}
  BY DEF Empty
<1>2. /\ \A s \in Server : DOMAIN dy_xip_map_[s] = {}
      /\ \A c \in Client : /\ DOMAIN node_dxip_map_[c] = {} /\ DOMAIN dxip_node_map_[c] = {}
                           /\ adding[c].step = "idle" /\ dropping[c].step = "idle"
  BY <1>1 DEF Init, Idle
<1>3. JoinPackets = {} /\ JoinedPackets = {} /\ Handed = 0
  BY FS_EmptySet DEF Init, JoinPackets, JoinedPackets, Handed
<1>4. TypeOK
  <2>1. atom_xip_manager_id_ \in [Server -> 0 .. CounterSize - 1]
    BY ClientModeAssumption DEF Init
  <2>2. joins \in 0 .. MaxJoins /\ drops \in 0 .. MaxDrops
    BY Widths DEF Init
  <2>3. /\ nodes_ \in [Client \cup Server -> SUBSET (Client \cup Server)]
        /\ pending \in [Client -> [Server -> Nat]]
        /\ \A c \in Client : nodes_[c] \subseteq Server
        /\ client_nodes_map_ \in [Range(process) -> SUBSET Client]
        /\ asked \subseteq [id : 1 .. MaxRequests, client : Client, relay : Server, des : Server]
    BY DEF Init
  <2> QED BY <1>2, <2>1, <2>2, <2>3 DEF TypeOK
<1>5. PacketsOK /\ ThreadsOK
  BY <1>2, ClientModeAssumption DEF Init, PacketsOK, ThreadsOK
<1>6. Counted
  BY <1>3, FS_EmptySet DEF Init, Counted
<1>7. DxipsAreRecent /\ HoldersKnown /\ DxipReachesClient /\ AnswersAreNew /\ HalvesMeet
  BY <1>2, <1>3, ClientModeAssumption DEF DxipsAreRecent, HoldersKnown, DxipReachesClient, AnswersAreNew, HalvesMeet
<1> QED BY <1>4, <1>5, <1>6, <1>7 DEF Inv

(* Every step of servers, clients and relays preserves the invariant.      *)
LEMMA InvStep == Inv /\ [Next]_vars => Inv'
<1> SUFFICES ASSUME Inv, [Next]_vars PROVE Inv'
  OBVIOUS
<1>1. CASE UNCHANGED vars
  <2>1. /\ PacketsOK' /\ JoinPackets' = JoinPackets /\ JoinedPackets' = JoinedPackets
        /\ UNCHANGED <<server, local, joins, drops, client_nodes_map_, asked>>
    BY <1>1 DEF vars, relay, Inv, PacketsOK, JoinPackets, JoinedPackets
  <2> QED BY <2>1, Frame DEF Inv, TypeOK, Counted
<1>2. CASE RequestStep
  BY <1>2, RequestStepKeeps, Frame
<1>3. ASSUME NEW c \in Client, NEW s \in Server, Bootstrap(c, s) PROVE Inv'
  BY <1>3, BootstrapStep
<1>4. ASSUME NEW c \in Client, NEW s \in Server, DropNode(c, s) PROVE Inv'
  BY <1>4, NodesStep
<1>5. ASSUME NEW c \in Client, ClientStep(c) PROVE Inv'
  BY <1>5, AddDxipNodeStep, NodesStep, DropNodeDxipStep, DropDxipNodeStep DEF ClientStep
<1>6. ASSUME NEW p \in network, HandleClientJoin(p), UNCHANGED <<joins, drops>>
      PROVE  Inv'
  BY <1>6, JoinRequestStep
<1>7. ASSUME NEW p \in network, AddNodeDxip(p), UNCHANGED <<joins, drops>> PROVE Inv'
  BY <1>7, AddNodeDxipStep
<1>8. ASSUME NEW p \in network, HandlePeerJoin(p), UNCHANGED <<joins, drops>> PROVE Inv'
  BY <1>8, PeerJoinStep
<1> QED BY <1>1, <1>2, <1>3, <1>4, <1>5, <1>6, <1>7, <1>8 DEF Next, Receive, RequestStep

(* Every dxip is filed under the server it names, at that server and at    *)
(* the client, and a process remembers clients only.                       *)
THEOREM TypeCorrect == Spec => []TypeOK
<1>1. Inv => TypeOK
  BY DEF Inv
<1> QED BY <1>1, InvInit, InvStep, PTL DEF Spec

(* For every number of clients, servers, joins and heartbeat failures: a   *)
(* dxip in node_dxip_map_ is one that HasDynamicXip finds, once AddDxip    *)
(* and DropDxip are through, in whatever order their halves ran.           *)
THEOREM DxipMapsAgree == Spec => []NoLostDxip
<1>1. Inv => NoLostDxip
  BY DEF Inv, HalvesMeet, NoLostDxip, Idle
<1> QED BY <1>1, InvInit, InvStep, PTL DEF Spec

(* A dxip leads to the client that holds it, and to no other, as long as   *)
(* fewer dxips are handed out than the fields below the process id can     *)
(* tell apart, wherever the uninitialised counters start.                  *)
THEOREM DxipIsAnAddress == Spec => []DxipReachesClient
<1>1. Inv => DxipReachesClient
  BY DEF Inv
<1> QED BY <1>1, InvInit, InvStep, PTL DEF Spec

-----------------------------------------------------------------------------
(***************************************************************************)
(* NoRequestLost.  A message under way belongs to a request that was       *)
(* asked, and is at one of four places of its path: on the way to the      *)
(* relay, from there to the destination, back to the relay, or to the      *)
(* client.  From the relay on, the relay's process knows the client.       *)
(***************************************************************************)
Messages == {p \in network : p.type \in {"request", "answer"}}

RelayedFor(c, q) == \E b \in asked : b.client = c /\ process[b.relay] = q

Remembered(a) == a.client \in client_nodes_map_[process[a.relay]]

Follows(p, a) ==
    /\ p.id = a.id /\ p.client = a.client
    /\ \/ p.type = "request" /\ ~p.relay_flag /\ p.to = a.relay /\ p.des = a.des
       \/ /\ p.type = "request" /\ p.relay_flag /\ p.src = a.relay /\ p.to = a.des
          /\ a.relay # a.des /\ Remembered(a)
       \/ p.type = "answer" /\ p.relay_flag /\ p.to = a.relay /\ Remembered(a)
       \/ /\ p.to = a.client
          /\ p.type = "request" => a.relay # a.des /\ RelayedFor(a.client, process[a.des])

IdsUnique ==
    /\ \A a, b \in asked : a.id = b.id => a = b
    /\ \A a \in asked : a.id <= Cardinality(asked)

PathInv ==
    /\ IdsUnique
    /\ \A q \in Range(process) : \A c \in client_nodes_map_[q] : RelayedFor(c, q)
    /\ \A p \in Messages : \E a \in asked : Follows(p, a)
    /\ NoRequestLost

(* Fields of what relays and destinations send on.                         *)
LEMMA MessageFields ==
    ASSUME NEW p \in Request
    PROVE  /\ LET c == ToClient(p)
              IN  c.type = p.type /\ c.id = p.id /\ c.client = p.client /\ c.to = p.client
           /\ LET r == Answer(p)
              IN  /\ r.type = "answer" /\ r.id = p.id /\ r.client = p.client
                  /\ p.src = p.to => r.to = p.client
                  /\ p.src # p.to => r.to = p.src /\ r.relay_flag
           /\ LET r == [p EXCEPT !.relay_flag = TRUE, !.src = p.to]
              IN  /\ r.type = p.type /\ r.id = p.id /\ r.client = p.client /\ r.to = p.to
                  /\ r.relay_flag /\ r.src = p.to /\ r.des = p.des
           /\ \A d : LET t == [p EXCEPT !.to = d]
                     IN  /\ t.type = p.type /\ t.id = p.id /\ t.client = p.client /\ t.to = d
                         /\ t.relay_flag = p.relay_flag /\ t.src = p.src
BY DEF Request, ToClient, Answer, Message

(* A message at its next place on the path of its request.                 *)
LEMMA PathAdvance ==
    ASSUME PathInv, NEW p \in Messages, NEW n, n.type \in {"request", "answer"},
           NEW a \in asked, n.id = a.id, n.client = a.client, p.id = a.id,
           network' = (network \ {p}) \cup {n}, asked' = asked, got' = got,
           DOMAIN client_nodes_map_' = DOMAIN client_nodes_map_,
           \A q \in Range(process) : /\ client_nodes_map_[q] \subseteq client_nodes_map_'[q]
                                     /\ \A c \in client_nodes_map_'[q] : RelayedFor(c, q),
           DOMAIN process = Server, \A b \in asked : b.relay \in Server,
           Follows(n, a)'
    PROVE  PathInv'
<1>1. IdsUnique' /\ \A c, q : RelayedFor(c, q)' <=> RelayedFor(c, q)
  BY DEF PathInv, IdsUnique, RelayedFor
<1>2. \A b \in asked : Remembered(b) => Remembered(b)'
  BY DEF Remembered, Range
<1>3. \A m, b : b \in asked /\ Follows(m, b) => Follows(m, b)'
  BY <1>1, <1>2 DEF Follows
<1>4. Messages' = (Messages \ {p}) \cup {n}
  BY DEF Messages
<1>5. \A m \in Messages' : \E b \in asked' : Follows(m, b)'
  BY <1>3, <1>4 DEF PathInv
<1>6. \A b \in asked : OnTheWay(b) => OnTheWay(b)'
  <2> SUFFICES ASSUME NEW b \in asked, OnTheWay(b) PROVE OnTheWay(b)'
    OBVIOUS
  <2>1. PICK m \in network : m.type \in {"request", "answer"} /\ m.id = b.id /\ m.client = b.client
    BY DEF OnTheWay
  <2>2. CASE m = p
    <3>1. b = a
      BY <2>1, <2>2 DEF PathInv, IdsUnique
    <3> QED BY <3>1 DEF OnTheWay
  <2>3. CASE m # p
    BY <2>1, <2>3 DEF OnTheWay
  <2> QED BY <2>2, <2>3
<1>7. NoRequestLost'
  BY <1>6 DEF PathInv, NoRequestLost, Answered, SentBack
<1> QED BY <1>1, <1>5, <1>7 DEF PathInv

(* Joins and drops have no part in it.                                     *)
LEMMA PathFrame ==
    ASSUME PathInv, Messages' = Messages, UNCHANGED relay
    PROVE  PathInv'
<1> USE DEF relay
<1>1. \A b : OnTheWay(b)' <=> OnTheWay(b)
  <2>1. \A b : OnTheWay(b) <=> \E p \in Messages : p.id = b.id /\ p.client = b.client
    BY DEF OnTheWay, Messages
  <2>2. \A b : OnTheWay(b)' <=> \E p \in Messages' : p.id = b.id /\ p.client = b.client
    BY DEF OnTheWay, Messages
  <2> QED BY <2>1, <2>2
<1>2. NoRequestLost'
  BY <1>1 DEF PathInv, NoRequestLost, Answered, SentBack
<1> QED BY <1>2 DEF PathInv, IdsUnique, RelayedFor, Follows, Remembered

(* What is known of a message under way that a server or a client handles. *)
LEMMA OnPath ==
    ASSUME Inv, PathInv, NEW p \in network, p.type \in {"request", "answer"}
    PROVE  /\ p \in Request /\ p \in Messages /\ Client \cap Server = {}
           /\ DOMAIN process = Server
           /\ client_nodes_map_ \in [Range(process) -> SUBSET Client]
           /\ \A b \in asked : b.relay \in Server /\ b.des \in Server /\ b.client \in Client
           /\ \E a \in asked : Follows(p, a)
<1>1. p \in Request /\ p \in Messages
  BY PacketKinds DEF Inv, Messages
<1> QED BY <1>1, ClientModeAssumption DEF Inv, TypeOK, PathInv

(* The first relay: only a message that comes from its client gets there   *)
(* unmarked.                                                               *)
LEMMA RelayFirstPath ==
    ASSUME Inv, PathInv, NEW p \in network, p.type \in {"request", "answer"}, RelayFirst(p)
    PROVE  PathInv'
<1>0. /\ p \in Request /\ p \in Messages /\ Client \cap Server = {} /\ DOMAIN process = Server
      /\ client_nodes_map_ \in [Range(process) -> SUBSET Client]
      /\ \A b \in asked : b.relay \in Server /\ b.des \in Server /\ b.client \in Client
  BY OnPath
<1>1. PICK a \in asked : Follows(p, a)
  BY OnPath
<1>2. p.to \in Server /\ ~p.relay_flag
  BY DEF RelayFirst
<1>3. /\ p.id = a.id /\ p.client = a.client /\ p.type = "request"
      /\ p.to = a.relay /\ p.des = a.des
  BY <1>0, <1>1, <1>2 DEF Follows
<1>4. PICK r \in Request : r = [p EXCEPT !.relay_flag = TRUE, !.src = p.to]
  BY <1>0, <1>2, MessageOn
<1>5. /\ r.type = p.type /\ r.id = p.id /\ r.client = p.client /\ r.to = p.to
      /\ r.relay_flag /\ r.src = p.to /\ r.des = p.des
  BY <1>0, <1>4, MessageFields
<1>6. PICK n : n = IF p.des = p.to THEN Answer(r) ELSE [r EXCEPT !.to = p.des]
  OBVIOUS
<1>7. /\ network' = (network \ {p}) \cup {n} /\ asked' = asked /\ got' = got
      /\ client_nodes_map_' = [client_nodes_map_ EXCEPT ![process[p.to]] = @ \cup {p.client}]
  BY <1>4, <1>6 DEF RelayFirst
<1>8. process[a.relay] \in Range(process)
  BY <1>0 DEF Range
<1>9. /\ DOMAIN client_nodes_map_' = DOMAIN client_nodes_map_
      /\ client_nodes_map_'[process[a.relay]] = client_nodes_map_[process[a.relay]] \cup {a.client}
      /\ \A q \in Range(process) \ {process[a.relay]} : client_nodes_map_'[q] = client_nodes_map_[q]
  BY <1>0, <1>3, <1>7, <1>8
<1>10. \A q \in Range(process) : /\ client_nodes_map_[q] \subseteq client_nodes_map_'[q]
                                 /\ \A c \in client_nodes_map_'[q] : RelayedFor(c, q)
  <2>1. RelayedFor(a.client, process[a.relay])
    BY DEF RelayedFor
  <2> QED BY <1>9, <2>1 DEF PathInv
<1>11. Remembered(a)'
  BY <1>9 DEF Remembered
<1>12. /\ n.type \in {"request", "answer"} /\ n.id = a.id /\ n.client = a.client
       /\ Follows(n, a)'
  <2>1. CASE p.des = p.to
    <3>1. n.type = "answer" /\ n.id = r.id /\ n.client = r.client /\ n.to = r.client
      BY <1>5, <1>6, <2>1, MessageFields
    <3> QED BY <1>3, <1>5, <3>1 DEF Follows
  <2>2. CASE p.des # p.to
    <3>1. /\ n.type = r.type /\ n.id = r.id /\ n.client = r.client /\ n.to = p.des
          /\ n.relay_flag = r.relay_flag /\ n.src = r.src
      BY <1>6, <2>2, MessageFields
    <3> QED BY <1>3, <1>5, <1>11, <2>2, <3>1 DEF Follows
  <2> QED BY <2>1, <2>2
<1> QED BY <1>0, <1>3, <1>7, <1>9, <1>10, <1>12, PathAdvance

(* A process that knows the client sends the message to it: an answer, or  *)
(* a request, if it has relayed for the client itself.                     *)
LEMMA RelayToClientPath ==
    ASSUME Inv, PathInv, NEW p \in network, p.type \in {"request", "answer"}, RelayToClient(p)
    PROVE  PathInv'
<1>0. /\ p \in Request /\ p \in Messages /\ Client \cap Server = {} /\ DOMAIN process = Server
      /\ client_nodes_map_ \in [Range(process) -> SUBSET Client]
      /\ \A b \in asked : b.relay \in Server /\ b.des \in Server /\ b.client \in Client
  BY OnPath
<1>1. PICK a \in asked : Follows(p, a)
  BY OnPath
<1>2. p.to \in Server /\ p.relay_flag /\ p.client \in client_nodes_map_[process[p.to]]
  BY DEF RelayToClient, Known
<1>3. /\ p.id = a.id /\ p.client = a.client
      /\ p.type = "request" => a.relay # a.des /\ p.to = a.des
  BY <1>0, <1>1, <1>2 DEF Follows
<1>4. PICK n : n = ToClient(p)
  OBVIOUS
<1>5. n.type = p.type /\ n.id = p.id /\ n.client = p.client /\ n.to = p.client
  BY <1>0, <1>4, MessageFields
<1>6. /\ network' = (network \ {p}) \cup {n} /\ asked' = asked /\ got' = got
      /\ client_nodes_map_' = client_nodes_map_
  BY <1>4 DEF RelayToClient, relay
<1>7. p.type = "request" => RelayedFor(a.client, process[a.des])
  BY <1>0, <1>2, <1>3 DEF PathInv, Range
<1>8. Follows(n, a)'
  BY <1>3, <1>5, <1>6, <1>7 DEF Follows, RelayedFor
<1>9. \A q \in Range(process) : /\ client_nodes_map_[q] \subseteq client_nodes_map_'[q]
                                /\ \A c \in client_nodes_map_'[q] : RelayedFor(c, q)
  BY <1>6 DEF PathInv
<1> QED BY <1>0, <1>3, <1>5, <1>6, <1>8, <1>9, PathAdvance

(* The destination answers; an answer is never handled here, since its     *)
(* relay knows the client.                                                 *)
LEMMA HandleRequestPath ==
    ASSUME Inv, PathInv, NEW p \in network, p.type \in {"request", "answer"}, HandleRequest(p)
    PROVE  PathInv'
<1>0. /\ p \in Request /\ p \in Messages /\ Client \cap Server = {} /\ DOMAIN process = Server
      /\ client_nodes_map_ \in [Range(process) -> SUBSET Client]
      /\ \A b \in asked : b.relay \in Server /\ b.des \in Server /\ b.client \in Client
  BY OnPath
<1>1. PICK a \in asked : Follows(p, a)
  BY OnPath
<1>2. p.to \in Server /\ p.relay_flag /\ p.client \notin client_nodes_map_[process[p.to]]
  BY DEF HandleRequest, Known
<1>3. /\ p.id = a.id /\ p.client = a.client /\ p.type = "request"
      /\ p.src = a.relay /\ p.src # p.to /\ Remembered(a)
  BY <1>0, <1>1, <1>2 DEF Follows, Remembered
<1>4. PICK n : n = Answer(p)
  OBVIOUS
<1>5. n.type = "answer" /\ n.id = p.id /\ n.client = p.client /\ n.to = p.src /\ n.relay_flag
  BY <1>0, <1>3, <1>4, MessageFields
<1>6. /\ network' = (network \ {p}) \cup {n} /\ asked' = asked /\ got' = got
      /\ client_nodes_map_' = client_nodes_map_
  BY <1>3, <1>4 DEF HandleRequest, relay
<1>7. Follows(n, a)'
  BY <1>3, <1>5, <1>6 DEF Follows, Remembered
<1>8. \A q \in Range(process) : /\ client_nodes_map_[q] \subseteq client_nodes_map_'[q]
                                /\ \A c \in client_nodes_map_'[q] : RelayedFor(c, q)
  BY <1>6 DEF PathInv
<1> QED BY <1>0, <1>3, <1>5, <1>6, <1>7, <1>8, PathAdvance

(* What comes to the client settles the one request it belongs to.         *)
LEMMA ClientReceivePath ==
    ASSUME Inv, PathInv, NEW p \in network, p.type \in {"request", "answer"}, ClientReceive(p)
    PROVE  PathInv'
<1>0. /\ p \in Messages /\ Client \cap Server = {}
      /\ \A b \in asked : b.relay \in Server /\ b.des \in Server /\ b.client \in Client
  BY OnPath
<1>1. PICK a \in asked : Follows(p, a)
  BY OnPath
<1>2. /\ got' = got \cup {[id |-> p.id, type |-> p.type, client |-> p.to]}
      /\ network' = network \ {p} /\ p.to \in Client
      /\ UNCHANGED <<client_nodes_map_, asked>>
  BY DEF ClientReceive
<1>3. /\ p.id = a.id /\ p.client = a.client /\ p.to = a.client
      /\ p.type = "request" => a.relay # a.des /\ RelayedFor(a.client, process[a.des])
  BY <1>0, <1>1, <1>2 DEF Follows
<1>4. Answered(a)' \/ SentBack(a)'
  BY <1>2, <1>3 DEF Answered, SentBack, RelayedFor
<1>5. \A b \in asked : OnTheWay(b)' \/ Answered(b)' \/ SentBack(b)'
  <2> SUFFICES ASSUME NEW b \in asked PROVE OnTheWay(b)' \/ Answered(b)' \/ SentBack(b)'
    OBVIOUS
  <2>1. CASE Answered(b) \/ SentBack(b)
    BY <1>2, <2>1 DEF Answered, SentBack
  <2>2. CASE OnTheWay(b)
    <3>1. PICK m \in network : /\ m.type \in {"request", "answer"}
                               /\ m.id = b.id /\ m.client = b.client
      BY <2>2 DEF OnTheWay
    <3>2. CASE m = p
      <4>1. b = a
        BY <1>3, <3>1, <3>2 DEF PathInv, IdsUnique
      <4> QED BY <1>4, <4>1
    <3>3. CASE m # p
      BY <1>2, <3>1, <3>3 DEF OnTheWay
    <3> QED BY <3>2, <3>3
  <2> QED BY <2>1, <2>2 DEF PathInv, NoRequestLost
<1>6. \A g \in got' : \E b \in asked : b.id = g.id /\ b.client = g.client
  BY <1>2, <1>3 DEF PathInv, NoRequestLost
<1>7. NoRequestLost'
  BY <1>2, <1>5, <1>6 DEF NoRequestLost
<1>8. \A m \in Messages' : \E b \in asked' : Follows(m, b)'
  BY <1>2 DEF PathInv, Messages, Follows, Remembered, RelayedFor
<1>9. IdsUnique' /\ \A q \in Range(process) : \A c \in client_nodes_map_'[q] : RelayedFor(c, q)'
  BY <1>2 DEF PathInv, IdsUnique, RelayedFor
<1> QED BY <1>7, <1>8, <1>9 DEF PathInv

(* A new request has a new id, and is on its way to its relay.             *)
LEMMA SendRequestPath ==
    ASSUME Inv, PathInv, NEW c \in Client, NEW s \in Server, NEW des \in Server,
           SendRequest(c, s, des)
    PROVE  PathInv'
<1>0. /\ IsFiniteSet(asked) /\ Cardinality(asked) \in Nat
      /\ asked \subseteq [id : 1 .. MaxRequests, client : Client, relay : Server, des : Server]
  BY FS_CardinalityType DEF Inv, Counted, TypeOK
<1>1. PICK k \in Nat : k = Cardinality(asked) + 1
  BY <1>0
<1>2. PICK a : a = [id |-> k, client |-> c, relay |-> s, des |-> des]
  OBVIOUS
<1>3. PICK n : n = Message("request", c, k, c, des, s, FALSE)
  OBVIOUS
<1>4. /\ asked' = asked \cup {a} /\ network' = network \cup {n}
      /\ UNCHANGED <<client_nodes_map_, got>>
  BY <1>1, <1>2, <1>3 DEF SendRequest
<1>5. /\ a.id = k /\ a.client = c /\ a.relay = s /\ a.des = des
      /\ n.type = "request" /\ n.id = k /\ n.client = c /\ n.to = s /\ n.des = des /\ ~n.relay_flag
  BY <1>2, <1>3 DEF Message
<1>6. \A b \in asked : b.id \in Nat /\ b.id < k
  <2>1. \A b \in asked : b.id \in 1 .. MaxRequests /\ b.id <= Cardinality(asked)
    BY <1>0 DEF PathInv, IdsUnique
  <2> QED BY <1>0, <1>1, <2>1, Widths
<1>7. a \notin asked
  BY <1>5, <1>6
<1>8. Cardinality(asked') = k
  BY <1>0, <1>1, <1>4, <1>7, FS_AddElement
<1>9. IdsUnique'
  <2>1. \A x, y \in asked' : x.id = y.id => x = y
    BY <1>4, <1>5, <1>6 DEF PathInv, IdsUnique
  <2>2. \A x \in asked' : x.id <= Cardinality(asked')
    BY <1>4, <1>5, <1>6, <1>8
  <2> QED BY <2>1, <2>2 DEF IdsUnique
<1>10. \A d, q : RelayedFor(d, q) => RelayedFor(d, q)'
  BY <1>4 DEF RelayedFor
<1>11. \A m, b : Follows(m, b) => Follows(m, b)'
  BY <1>4, <1>10 DEF Follows, Remembered
<1>12. Follows(n, a)'
  BY <1>5 DEF Follows
<1>13. \A m \in Messages' : \E b \in asked' : Follows(m, b)'
  <2>1. Messages' \subseteq Messages \cup {n}
    BY <1>4 DEF Messages
  <2> QED BY <1>4, <1>11, <1>12, <2>1 DEF PathInv
<1>14. OnTheWay(a)'
  BY <1>4, <1>5 DEF OnTheWay
<1>15. \A b \in asked : /\ OnTheWay(b) => OnTheWay(b)'
                        /\ Answered(b) => Answered(b)'
                        /\ SentBack(b) => SentBack(b)'
  BY <1>4 DEF OnTheWay, Answered, SentBack
<1>16. NoRequestLost'
  BY <1>4, <1>14, <1>15 DEF PathInv, NoRequestLost
<1>17. \A q \in Range(process) : \A d \in client_nodes_map_'[q] : RelayedFor(d, q)'
  BY <1>4, <1>10 DEF PathInv
<1> QED BY <1>9, <1>13, <1>16, <1>17 DEF PathInv

(* Every step of servers, clients and relays keeps messages on their path. *)
LEMMA PathStep == Inv /\ PathInv /\ [Next]_vars => PathInv'
<1> SUFFICES ASSUME Inv, PathInv, [Next]_vars PROVE PathInv'
  OBVIOUS
<1>1. CASE UNCHANGED vars
  <2>1. Messages' = Messages /\ UNCHANGED relay
    BY <1>1 DEF vars, relay, Messages
  <2> QED BY <2>1, PathFrame
<1>2. ASSUME NEW c \in Client, NEW s \in Server, Bootstrap(c, s) PROVE PathInv'
  <2>1. Messages' = Messages /\ UNCHANGED relay
    BY <1>2 DEF Bootstrap, Messages, relay
  <2> QED BY <2>1, PathFrame
<1>3. ASSUME NEW c \in Client, NEW s \in Server, DropNode(c, s) PROVE PathInv'
  <2>1. Messages' = Messages /\ UNCHANGED relay
    BY <1>3 DEF DropNode, Messages, relay
  <2> QED BY <2>1, PathFrame
<1>4. ASSUME NEW c \in Client, ClientStep(c) PROVE PathInv'
  <2>1. Messages' = Messages /\ UNCHANGED relay
    BY <1>4 DEF ClientStep, AddDxipNode, AddNode, DropNodeDxip, DropDxipNode, Messages, relay
  <2> QED BY <2>1, PathFrame
<1>5. ASSUME NEW p \in network, HandleClientJoin(p) \/ HandlePeerJoin(p) \/ AddNodeDxip(p)
      PROVE  PathInv'
  <2>1. p.type \notin {"request", "answer"}
    BY <1>5 DEF HandleClientJoin, HandlePeerJoin, AddNodeDxip
  <2>2. UNCHANGED relay
    BY <1>5 DEF HandleClientJoin, HandlePeerJoin, AddNodeDxip, relay
  <2>3. Messages' = Messages
    <3>1. CASE HandleClientJoin(p) \/ HandlePeerJoin(p)
      <4>1. PICK n : n.type = "joined" /\ network' = (network \ {p}) \cup {n}
        BY <3>1 DEF HandleClientJoin, HandlePeerJoin, JoinResponse
      <4> QED BY <2>1, <4>1 DEF Messages
    <3>2. CASE AddNodeDxip(p)
      BY <2>1, <3>2 DEF AddNodeDxip, Messages
    <3> QED BY <1>5, <3>1, <3>2
  <2> QED BY <2>2, <2>3, PathFrame
<1>6. ASSUME NEW c \in Client, NEW s \in Server, NEW des \in Server, SendRequest(c, s, des)
      PROVE  PathInv'
  BY <1>6, SendRequestPath
<1>7. ASSUME NEW p \in network, p.type \in {"request", "answer"},
             RelayFirst(p) \/ RelayToClient(p) \/ HandleRequest(p) \/ ClientReceive(p)
      PROVE  PathInv'
  BY <1>7, RelayFirstPath, RelayToClientPath, HandleRequestPath, ClientReceivePath
<1> QED BY <1>1, <1>2, <1>3, <1>4, <1>5, <1>6, <1>7 DEF Next, Receive

(* Nothing is asked, relayed or under way at first.                        *)
LEMMA PathInit == Init => PathInv
<1> SUFFICES ASSUME Init PROVE PathInv
  OBVIOUS
<1>1. /\ asked = {} /\ got = {} /\ Messages = {}
      /\ \A q \in Range(process) : client_nodes_map_[q] = {}
  BY DEF Init, Messages
<1> QED BY <1>1 DEF PathInv, IdsUnique, NoRequestLost

(* For every number of clients, servers, processes and requests: a request *)
(* is under way, answered, or sent back by a process that has relayed for  *)
(* its client, and a client is sent nothing it did not ask for.            *)
THEOREM RequestsAreNeverLost == Spec => []NoRequestLost
<1>1. Init => Inv /\ PathInv
  BY InvInit, PathInit
<1>2. Inv /\ PathInv /\ [Next]_vars => (Inv /\ PathInv)'
  BY InvStep, PathStep
<1>3. Inv /\ PathInv => NoRequestLost
  BY DEF PathInv
<1> QED BY <1>1, <1>2, <1>3, PTL DEF Spec
=============================================================================
