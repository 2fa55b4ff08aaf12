---------------------------- MODULE NodeConfigs ----------------------------
(***************************************************************************)
(* What each node is made to serve: panel/internal/service, from the forms *)
(* that change nodes, inbounds, relays, exits and the policy to the        *)
(* configurations built from them (node_push.go, unlock.go) and the nodes  *)
(* that are told.                                                          *)
(*                                                                         *)
(* A node's configuration is built from the rows of other nodes too: it    *)
(* holds a relay listener open for an inbound of another node, it serves   *)
(* exits others send their sites to, and it dials exits on other nodes.    *)
(* An edit must therefore tell nodes it never mentions.  The hub pushes    *)
(* whatever the database says by then to a node that has been told and is  *)
(* connected, and to a node that connects; HubPush is about that, here it  *)
(* is the set `pending'.                                                   *)
(*                                                                         *)
(* A call is one step: it reads, checks and writes without another call in *)
(* between.  Ports are few and hop ranges are sets of them; a tag is the   *)
(* protocol, the node's name and a number.  Secrets, certificates and      *)
(* domain lists are left out: both ends of a relay or an exit are built    *)
(* from the same row.                                                      *)
(***************************************************************************)
EXTENDS Integers, FiniteSets, FiniteSetsExt

CONSTANTS
  NodeIds,        \* 1..n: identifiers a node may be given
  Addrs, Names,   \* addresses and names of nodes, numbers
  Ports, Hops,    \* ports, and the hop ranges that are tried
  MaxInbounds, MaxExits,
  MaxCalls,       \* calls of the service
  MaxFaults,      \* lost connections, restarts of the panel
  Circumstances   \* see UpdateNode, DeleteNode and CreateNode

ASSUME ConfigAssumption ==
  /\ NodeIds \subseteq Nat \ {0} /\ IsFiniteSet(NodeIds)
  /\ Addrs \subseteq Nat \ {0} /\ Names \subseteq Nat /\ Ports \subseteq Nat \ {0} /\ IsFiniteSet(Ports)
  /\ Hops \subseteq SUBSET Ports /\ {} \in Hops
  /\ MaxInbounds \in Nat /\ MaxExits \in Nat /\ MaxCalls \in Nat /\ MaxFaults \in Nat
  /\ Circumstances \subseteq {"exit_nodes", "shared_address", "reused_id"}
  /\ 1..3 \subseteq NodeIds /\ 1..3 \subseteq Ports /\ 1..2 \subseteq Addrs /\ NodeIds \subseteq Names  \* see Init

Kinds == {"vless", "xhttp", "hysteria2"}    \* xhttp is served by Xray, the others by sing-box

VARIABLES
  \* the database
  status,     \* per node: "new" for an identifier never given, "on", "off", "gone"
  addr, name,
  inbounds,   \* the rows; a relay of 0 is none
  exits,      \* of kind "node", served by a node, or "proxy", somewhere else
  rules,      \* per node: the exits it sends sites to
  policy,
  \* the hub: who is connected, and who has been told and not pushed to yet
  connected, pending,
  \* what each node was last pushed
  served,
  calls, faults

nodeVars == <<status, addr, name>>
unlockVars == <<exits, rules>>
dbVars == <<nodeVars, inbounds, unlockVars, policy>>
hubVars == <<connected, pending>>
vars == <<dbVars, hubVars, served, calls, faults>>

Existing == {n \in NodeIds : status[n] \in {"on", "off"}}
InboundsOf(n) == {in \in inbounds : in.node = n}
RelayedVia(n) == {in \in inbounds : in.relay = n}

Call == calls < MaxCalls /\ calls' = calls + 1
Fault == faults < MaxFaults /\ faults' = faults + 1
Tell(S) == pending' = pending \cup (S \ {0})

-----------------------------------------------------------------------------
(* The configuration of a node *)

\* Mutant of RelayListeners: the origin may be off.
RelayListenersAlways(n) ==
  {[tag |-> in.tag, port |-> in.rport, addr |-> addr[in.node], to |-> in.port] :
     in \in {r \in RelayedVia(n) : r.on}}

\* relayInbounds: nothing listens for an inbound that is not being served.
RelayListeners(n) ==
  {[tag |-> in.tag, port |-> in.rport, addr |-> addr[in.node], to |-> in.port] :
     in \in {r \in RelayedVia(n) : r.on /\ status[r.node] = "on"}}

ExitListeners(n) ==
  {[id |-> e.id, port |-> e.port] : e \in {x \in exits : x.kind = "node" /\ x.node = n}}

\* exitOutbound: an exit whose node is gone or off is skipped.
Reachable(e) == e.kind = "node" => status[e.node] = "on"

Outbounds(n) ==
  {[id |-> e.id, kind |-> e.kind, node |-> e.node,
    addr |-> IF e.kind = "node" THEN addr[e.node] ELSE 0, port |-> e.port] :
     e \in {x \in exits : x.id \in rules[n] /\ Reachable(x)}}

NothingBut(p) == [own |-> {}, relays |-> {}, exits |-> {}, outs |-> {}, bridge |-> FALSE, policy |-> p]

Listener(in) == [tag |-> in.tag, port |-> in.port, hops |-> in.hops, sni |-> in.sni]

SingboxInbounds(n) == {Listener(in) : in \in {i \in InboundsOf(n) : i.on /\ i.kind # "xhttp"}}

XrayInbounds(n) == {Listener(in) : in \in {i \in InboundsOf(n) : i.on /\ i.kind = "xhttp"}}

\* Xray's inbounds hand what the rules send out to sing-box over a bridge.
Bridge(n) == Outbounds(n) # {} /\ XrayInbounds(n) # {}

\* NodeConfig and NodeXrayConfig together.  A node that is off serves nothing.
Config(n) ==
  IF status[n] # "on" THEN NothingBut(policy)
  ELSE [own    |-> SingboxInbounds(n) \cup XrayInbounds(n),
        relays |-> RelayListeners(n),
        exits  |-> ExitListeners(n),
        outs   |-> Outbounds(n),
        bridge |-> Bridge(n),
        policy |-> policy]

-----------------------------------------------------------------------------
(* The hub *)

\* A push of what the database says now.  There is none for a node that is not
\* connected, or that is no longer in the database.
Push(n) ==
  /\ n \in pending
  /\ pending' = pending \ {n}
  /\ served' = IF n \in connected /\ n \in Existing THEN [served EXCEPT ![n] = Config(n)] ELSE served
  /\ UNCHANGED <<dbVars, connected, calls, faults>>

\* AuthenticateNode refuses a node that is off; a hello is answered with a push.
Connect(n) ==
  /\ n \notin connected /\ status[n] = "on"
  /\ connected' = connected \cup {n}
  /\ pending' = pending \cup {n}
  /\ UNCHANGED <<dbVars, served, calls, faults>>

Disconnect(n) ==
  /\ Fault
  /\ n \in connected
  /\ connected' = connected \ {n}
  /\ UNCHANGED <<dbVars, pending, served, calls>>

PanelRestart ==
  /\ Fault
  /\ connected' = {} /\ pending' = {}
  /\ UNCHANGED <<dbVars, served, calls>>

-----------------------------------------------------------------------------
(* Nodes *)

\* The n-th number that is not in S.
FreeNumber(S, n) ==
  CHOOSE k \in 1..(Cardinality(S) + n) : k \notin S /\ Cardinality((1..k) \ S) = n

\* What a tag keeps of a name; different names may read alike, here 1 and 4.
nodeSlug(nm) == nm % 3

Numbers(ins, kind, nm) ==
  {in.tag[3] : in \in {i \in ins : i.tag[1] = kind /\ i.tag[2] = nodeSlug(nm)}}

\* The first number no inbound has with this protocol and name.
deriveInboundTag(kind, nm) == <<kind, nodeSlug(nm), FreeNumber(Numbers(inbounds, kind, nm), 1)>>

\* Mutant of Retagged: the tags of other nodes are not looked at.
RetaggedAlone(in, nm) ==
  LET older == {i \in InboundsOf(in.node) : i.kind = in.kind /\ i.id < in.id}
  IN  [in EXCEPT !.tag = <<in.kind, nodeSlug(nm), Cardinality(older) + 1>>]

\* retagNodeInbounds: every inbound of the node, oldest first, around the tags
\* of the other nodes.
Retagged(in, nm) ==
  LET others == Numbers(inbounds \ InboundsOf(in.node), in.kind, nm)
      older == {i \in InboundsOf(in.node) : i.kind = in.kind /\ i.id < in.id}
  IN  [in EXCEPT !.tag = <<in.kind, nodeSlug(nm), FreeNumber(others, Cardinality(older) + 1)>>]

RelayHosts(ins) == {in.relay : in \in ins} \ {0}

\* Nodes that send sites to an exit this node serves.  SaveExit can make a node one
\* of its own.
ExitUsers(n) ==
  {m \in Existing : \E e \in exits : e.kind = "node" /\ e.node = n /\ e.id \in rules[m]}

Shared(a, n) == \E m \in Existing \ {n} : addr[m] = a

\* Identifiers are given in order; the one of the last node is given again if it
\* was deleted.
CreateNode(n, a, nm) ==
  /\ Call
  /\ n = 1 + Max(Existing \cup {0})
  /\ status[n] = "new" \/ "reused_id" \in Circumstances
  /\ nm \notin {name[m] : m \in Existing}
  /\ status' = [status EXCEPT ![n] = "on"]
  /\ addr' = [addr EXCEPT ![n] = a] /\ name' = [name EXCEPT ![n] = nm]
  /\ UNCHANGED <<inbounds, unlockVars, policy, hubVars, served, faults>>

\* Mutant of UpdateNode: the hosts of its relays are told only when it is turned on or off.
UpdateNodeAlone(n, st, a, nm) ==
  /\ Call
  /\ n \in Existing
  /\ nm \notin {name[m] : m \in Existing \ {n}}
  /\ "shared_address" \in Circumstances \/ a = addr[n] \/ ~Shared(a, n)
  /\ "exit_nodes" \in Circumstances \/ (a = addr[n] /\ st = status[n]) \/ ExitUsers(n) = {}
  /\ LET retagged == IF nm = name[n] THEN InboundsOf(n) ELSE {Retagged(in, nm) : in \in InboundsOf(n)}
     IN  /\ inbounds' = (inbounds \ InboundsOf(n)) \cup retagged
         /\ Tell((IF st # status[n] \/ retagged # InboundsOf(n) THEN {n} ELSE {})
                 \cup (IF st # status[n] THEN RelayHosts(InboundsOf(n)) ELSE {}))
  /\ status' = [status EXCEPT ![n] = st]
  /\ addr' = [addr EXCEPT ![n] = a] /\ name' = [name EXCEPT ![n] = nm]
  /\ UNCHANGED <<unlockVars, policy, connected, served, faults>>

\* The node is told if it is turned on or off or its inbounds are renamed with
\* it; the hosts of its relays if its address moves as well.  The users of its
\* exits are not told (circumstance "exit_nodes"), and an address another node
\* has is not refused (circumstance "shared_address").
UpdateNode(n, st, a, nm) ==
  /\ Call
  /\ n \in Existing
  /\ nm \notin {name[m] : m \in Existing \ {n}}
  /\ "shared_address" \in Circumstances \/ a = addr[n] \/ ~Shared(a, n)
  /\ "exit_nodes" \in Circumstances \/ (a = addr[n] /\ st = status[n]) \/ ExitUsers(n) = {}
  /\ LET retagged == IF nm = name[n] THEN InboundsOf(n) ELSE {Retagged(in, nm) : in \in InboundsOf(n)}
         changed == st # status[n] \/ retagged # InboundsOf(n)
     IN  /\ inbounds' = (inbounds \ InboundsOf(n)) \cup retagged
         /\ Tell((IF changed THEN {n} ELSE {})
                 \cup (IF changed \/ a # addr[n] THEN RelayHosts(InboundsOf(n)) ELSE {}))
  /\ status' = [status EXCEPT ![n] = st]
  /\ addr' = [addr EXCEPT ![n] = a] /\ name' = [name EXCEPT ![n] = nm]
  /\ UNCHANGED <<unlockVars, policy, connected, served, faults>>

\* A node that relays for others stays.  Its inbounds go with it and their hosts
\* are told; its rules and exits stay in the setting, and their users are not told.
DeleteNode(n) ==
  /\ Call
  /\ n \in Existing
  /\ RelayedVia(n) = {}
  /\ "exit_nodes" \in Circumstances \/ ExitUsers(n) = {}
  /\ status' = [status EXCEPT ![n] = "gone"]
  /\ inbounds' = inbounds \ InboundsOf(n)
  /\ Tell(RelayHosts(InboundsOf(n)))
  /\ UNCHANGED <<addr, name, unlockVars, policy, connected, served, faults>>

\* The panel's own domain moves: nodes and inbounds that name it move with it.
MovePanelHost(from, to) ==
  /\ Call
  /\ from # to
  /\ LET moving == {n \in Existing : addr[n] = from}
         renamed == {in \in inbounds : in.sni = from}
     IN  /\ "shared_address" \in Circumstances
              \/ (Cardinality(moving) <= 1 /\ \A n \in moving : ~Shared(to, n))
         /\ "exit_nodes" \in Circumstances \/ \A n \in moving : ExitUsers(n) = {}
         /\ addr' = [n \in NodeIds |-> IF n \in moving THEN to ELSE addr[n]]
         /\ inbounds' = (inbounds \ renamed) \cup {[in EXCEPT !.sni = to] : in \in renamed}
         /\ Tell((UNION {RelayHosts(InboundsOf(n)) : n \in moving})
                 \cup {in.node : in \in renamed} \cup RelayHosts(renamed))
  /\ UNCHANGED <<status, name, unlockVars, policy, connected, served, faults>>

-----------------------------------------------------------------------------
(* Inbounds *)

\* checkRelay: not through itself, nor back to the same port of the same host;
\* and the port must be free, as far as enabled inbounds and relays go.
checkRelay(in) ==
  in.relay # 0 =>
    /\ in.relay # in.node /\ in.relay \in Existing
    /\ ~(addr[in.relay] = addr[in.node] /\ in.rport = in.port)
    /\ \A other \in InboundsOf(in.relay) : other.on => other.port # in.rport
    /\ \A other \in RelayedVia(in.relay) : other.id # in.id /\ other.on => other.rport # in.rport

\* ValidateHopping: only Hysteria2 hops, and only dialled directly.
ValidateHopping(in) == in.hops # {} => in.kind = "hysteria2" /\ in.relay = 0

\* Mutant of checkHopConflicts: the candidate's own relay port is not looked at.
checkHopsOfNode(in) ==
  \A other \in inbounds :
    other.id # in.id =>
      /\ other.node = in.node => /\ other.port \notin in.hops /\ in.port \notin other.hops
                                 /\ in.hops \cap other.hops = {}
      /\ other.relay = in.node => other.rport \notin in.hops

\* checkHopConflicts: hop ranges against the ports, ranges and relay ports of the node.
checkHopConflicts(in) ==
  \A other \in inbounds :
    other.id # in.id =>
      /\ other.node = in.node => /\ other.port \notin in.hops /\ in.port \notin other.hops
                                 /\ in.hops \cap other.hops = {}
      /\ other.relay = in.node => other.rport \notin in.hops
      /\ in.relay # 0 /\ other.node = in.relay => in.rport \notin other.hops

Accepted(in) ==
  /\ checkRelay(in) /\ ValidateHopping(in) /\ checkHopConflicts(in)
  /\ \A other \in inbounds : other.id # in.id => other.tag # in.tag

\* A relay and its port, or neither.
Relays == {<<0, 0>>} \cup (NodeIds \X Ports)

\* BuildInbound, and the row CreateInbound makes of it.
BuildInbound(n, kind, port, hops, relay) ==
  [id |-> 1 + Max({i.id : i \in inbounds} \cup {0}), node |-> n, kind |-> kind,
   tag |-> deriveInboundTag(kind, name[n]), port |-> port, hops |-> hops,
   sni |-> IF kind = "hysteria2" THEN addr[n] ELSE 0,
   relay |-> relay[1], rport |-> relay[2], on |-> TRUE]

CreateInbound(n, kind, port, hops, relay) ==
  /\ Call
  /\ n \in Existing
  /\ Cardinality(inbounds) < MaxInbounds
  /\ LET in == BuildInbound(n, kind, port, hops, relay)
     IN  /\ Accepted(in)
         /\ inbounds' = inbounds \cup {in}
         /\ Tell({n, in.relay})
  /\ UNCHANGED <<nodeVars, unlockVars, policy, connected, served, faults>>

\* The node is told if something it can see changed; the hosts the relay leaves
\* and comes to if the relay, or what its listener is built from, did.
EditInbound(in, port, hops, relay, tag) ==
  LET new == [in EXCEPT !.port = port, !.hops = hops, !.relay = relay[1], !.rport = relay[2], !.tag = tag]
      relayChange == \/ new.relay # in.relay \/ new.rport # in.rport
                     \/ new.relay # 0 /\ (new.port # in.port \/ new.tag # in.tag)
  IN  /\ Call
      /\ Accepted(new)
      /\ inbounds' = (inbounds \ {in}) \cup {new}
      /\ Tell((IF new.port # in.port \/ new.hops # in.hops \/ new.tag # in.tag THEN {in.node} ELSE {})
              \cup (IF relayChange THEN {in.relay, new.relay} ELSE {}))
      /\ UNCHANGED <<nodeVars, unlockVars, policy, connected, served, faults>>

SetInboundEnabled(in, on) ==
  /\ Call
  /\ inbounds' = (inbounds \ {in}) \cup {[in EXCEPT !.on = on]}
  /\ Tell({in.node, in.relay})
  /\ UNCHANGED <<nodeVars, unlockVars, policy, connected, served, faults>>

DeleteInbound(in) ==
  /\ Call
  /\ inbounds' = inbounds \ {in}
  /\ Tell({in.node, in.relay})
  /\ UNCHANGED <<nodeVars, unlockVars, policy, connected, served, faults>>

-----------------------------------------------------------------------------
(* Exits, rules and the policy *)

UsedBy(id) == {n \in NodeIds : id \in rules[n]}

\* portsTaken: its inbounds, what it relays and the exits it serves, on or off.
portsTaken(n, except) ==
  {in.port : in \in InboundsOf(n)} \cup {in.rport : in \in RelayedVia(n)}
    \cup {e.port : e \in {x \in exits : x.kind = "node" /\ x.node = n /\ x.id # except}}

\* checkExit: an exit on a node needs the node and a free port there.
checkExit(e) == e.kind = "node" => e.node \in Existing /\ e.port \notin portsTaken(e.node, e.id)

ServedBy(e) == IF e.kind = "node" THEN {e.node} ELSE {}

CreateExit(kind, n, port) ==
  LET e == [id |-> 1 + Max({x.id : x \in exits} \cup {0}), kind |-> kind, node |-> n, port |-> port]
  IN  /\ Call
      /\ Cardinality(exits) < MaxExits
      /\ checkExit(e)
      /\ exits' = exits \cup {e}
      /\ Tell(UsedBy(e.id) \cup ServedBy(e))
      /\ UNCHANGED <<nodeVars, inbounds, rules, policy, connected, served, faults>>

\* SaveExit of an exit there is: those who send to it are told, the node that
\* served it and the one that serves it now.
UpdateExit(old, kind, n, port) ==
  LET e == [id |-> old.id, kind |-> kind, node |-> n, port |-> port]
  IN  /\ Call
      /\ checkExit(e)
      /\ exits' = (exits \ {old}) \cup {e}
      /\ Tell(UsedBy(e.id) \cup ServedBy(old) \cup ServedBy(e))
      /\ UNCHANGED <<nodeVars, inbounds, rules, policy, connected, served, faults>>

\* An exit a node still sends to stays; rules of nodes that are gone do not keep it.
DeleteExit(e) ==
  /\ Call
  /\ UsedBy(e.id) \cap Existing = {}
  /\ exits' = exits \ {e}
  /\ rules' = [n \in NodeIds |-> rules[n] \ {e.id}]
  /\ Tell(ServedBy(e))
  /\ UNCHANGED <<nodeVars, inbounds, policy, connected, served, faults>>

\* A node may not send to an exit of its own.
SetNodeUnlock(n, ids) ==
  /\ Call
  /\ n \in Existing
  /\ \A id \in ids : \E e \in exits : e.id = id /\ ~(e.kind = "node" /\ e.node = n)
  /\ rules' = [rules EXCEPT ![n] = ids]
  /\ Tell({n})
  /\ UNCHANGED <<nodeVars, inbounds, exits, policy, connected, served, faults>>

SetPolicy ==
  /\ Call
  /\ policy' = 1 - policy
  /\ Tell(Existing)
  /\ UNCHANGED <<nodeVars, inbounds, unlockVars, connected, served, faults>>

-----------------------------------------------------------------------------

\* Three nodes: the first sends sites to an exit of the second and is relayed by
\* it; the third is off, has the address of the first, and serves an exit
\* nobody sends to.
Init ==
  /\ status = [n \in NodeIds |-> IF n <= 2 THEN "on" ELSE IF n = 3 THEN "off" ELSE "new"]
  /\ addr = [n \in NodeIds |-> IF n = 2 THEN 2 ELSE 1] /\ name = [n \in NodeIds |-> n]
  /\ inbounds =
       {[id |-> 1, node |-> 1, kind |-> "xhttp", tag |-> <<"xhttp", 1, 1>>, port |-> 1, hops |-> {},
         sni |-> 0, relay |-> 2, rport |-> 2, on |-> TRUE],
        [id |-> 2, node |-> 2, kind |-> "xhttp", tag |-> <<"xhttp", 2, 1>>, port |-> 1, hops |-> {},
         sni |-> 0, relay |-> 0, rport |-> 0, on |-> TRUE],
        [id |-> 3, node |-> 3, kind |-> "hysteria2", tag |-> <<"hysteria2", 0, 1>>, port |-> 1, hops |-> {2},
         sni |-> 1, relay |-> 0, rport |-> 0, on |-> FALSE]}
  /\ exits = {[id |-> 1, kind |-> "node", node |-> 2, port |-> 3], [id |-> 2, kind |-> "node", node |-> 3, port |-> 3]}
  /\ rules = [n \in NodeIds |-> IF n = 1 THEN {1} ELSE {}]
  /\ policy = 0
  /\ connected = {1, 2} /\ pending = {}
  /\ served = [n \in NodeIds |-> IF n <= 3 THEN Config(n) ELSE NothingBut(0)]
  /\ calls = 0 /\ faults = 0

HandTag == <<"hand", 0, 1>>

NodeForms ==
  \E n \in NodeIds :
    \/ \E a \in Addrs, nm \in Names : CreateNode(n, a, nm) \/ UpdateNode(n, status[n], a, nm)
    \/ UpdateNode(n, IF status[n] = "on" THEN "off" ELSE "on", addr[n], name[n])
    \/ DeleteNode(n)

InboundForms ==
  \/ \E port \in Ports, hops \in Hops, relay \in Relays :
       \/ \E n \in NodeIds, kind \in Kinds : CreateInbound(n, kind, port, hops, relay)
       \/ \E in \in inbounds : EditInbound(in, port, hops, relay, in.tag)
  \/ \E in \in inbounds : \/ EditInbound(in, in.port, in.hops, <<in.relay, in.rport>>, HandTag)
                         \/ SetInboundEnabled(in, ~in.on)
                         \/ DeleteInbound(in)

ExitForms ==
  \/ \E port \in Ports, place \in ({"proxy"} \X {0}) \cup ({"node"} \X NodeIds) :
       \/ CreateExit(place[1], place[2], port)
       \/ \E e \in exits : UpdateExit(e, place[1], place[2], port)
  \/ \E e \in exits : DeleteExit(e)

RuleForms == \E n \in NodeIds, ids \in SUBSET {e.id : e \in exits} : SetNodeUnlock(n, ids)

Service ==
  \/ NodeForms \/ InboundForms \/ ExitForms \/ RuleForms
  \/ \E a, b \in Addrs : MovePanelHost(a, b)
  \/ SetPolicy

Next ==
  \/ Service
  \/ \E n \in NodeIds : Push(n) \/ Connect(n) \/ Disconnect(n)
  \/ PanelRestart

Spec == Init /\ [][Next]_vars

-----------------------------------------------------------------------------
(* What must hold *)

Inbound == [id : Nat, node : NodeIds, kind : Kinds,
            tag : (Kinds \cup {"hand"}) \X Nat \X Nat,
            port : Ports, hops : SUBSET Ports, sni : Addrs \cup {0},
            relay : NodeIds \cup {0}, rport : Ports \cup {0}, on : BOOLEAN]

\* Types; an identifier names one row, and a tag one inbound.
TypeOK ==
  /\ status \in [NodeIds -> {"new", "on", "off", "gone"}]
  /\ addr \in [NodeIds -> Addrs] /\ name \in [NodeIds -> Names]
  /\ inbounds \subseteq Inbound
  /\ \A in, other \in inbounds : in # other => in.id # other.id /\ in.tag # other.tag
  /\ \A in \in inbounds : {in.node} \cup ({in.relay} \ {0}) \subseteq Existing
  /\ exits \subseteq [id : Nat, kind : {"node", "proxy"}, node : NodeIds \cup {0}, port : Ports]
  /\ \A e, other \in exits : e # other => e.id # other.id
  /\ rules \in [NodeIds -> SUBSET Nat] /\ policy \in 0..1
  /\ connected \subseteq NodeIds /\ pending \subseteq NodeIds
  /\ calls \in 0..MaxCalls /\ faults \in 0..MaxFaults

\* A node that is there, connected and has nothing coming.
Settled(n) == n \in Existing /\ n \in connected /\ n \notin pending

\* Whatever is edited, no node whose configuration it changes is left untold,
\* on whichever node the edit was made (service.go, "nothing else would tell them").
NobodyUntold == \A n \in NodeIds : Settled(n) => served[n] = Config(n)

\* What one node forwards to another, that node accepts: a relay's target is an
\* inbound being served there, an exit's outbound a listener with its number and port.
ForwardsMeet ==
  \A n, m \in NodeIds : Settled(n) /\ Settled(m) =>
    /\ \A r \in served[n].relays : \A in \in InboundsOf(m) :
         in.tag = r.tag => \E o \in served[m].own : o.tag = r.tag /\ o.port = r.to /\ r.addr = addr[m]
    /\ \A o \in served[n].outs : o.node = m =>
         o.addr = addr[m] /\ [id |-> o.id, port |-> o.port] \in served[m].exits

\* "Relays cannot chain into a loop" (relay.go): no node is made to forward a
\* port to that port of its own address.
NoLoop ==
  \A n \in NodeIds : Settled(n) =>
    \A r \in served[n].relays : ~(r.addr = addr[n] /\ r.to = r.port)

\* A redirected hop range never takes in the port of another listener of the
\* node: an inbound, another range, or a relay (hopping.go).
HopsApart ==
  \A in, other \in inbounds : in # other =>
    /\ in.node = other.node => in.hops \cap ({other.port} \cup other.hops) = {}
    /\ in.node = other.relay => other.rport \notin in.hops

=============================================================================
