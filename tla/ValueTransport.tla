--------------------------- MODULE ValueTransport ----------------------------
(***************************************************************************)
(* How a value-rpc server and its client come to the transport they use:   *)
(* vrpc/value_server.go (Bind), vrpc/value_client_factory.go (Object) and  *)
(* vrpc/obfs.go decide separately, from the properties and the optional    *)
(* beans of their contexts.  A transport is the stack of its layers,       *)
(* lowest first; two ends understand each other if their stacks are equal. *)
(*                                                                         *)
(* A deployment d has d.server: name, bind (address), transport, obfs,     *)
(* guards, services; and d.client: name, connect (address), binds (bind    *)
(* addresses in its context, by bean name), transport, obfs, passes (the   *)
(* guards that accept it), timeout, policy, calls (a function).            *)
(***************************************************************************)
EXTENDS Sequences, Naturals

(* scheme: the address is written with one ("unix://...").                 *)
Address == [scheme : BOOLEAN, network : STRING, host : STRING, port : Nat]
NoAddress == [scheme |-> FALSE, network |-> "none", host |-> "", port |-> 0]

(* The address a client is given is that of the bound listener.            *)
Bound == [NoAddress EXCEPT !.network = "bound"]

NoTransport == [listener |-> <<>>, dialer |-> <<>>]
NoProfile == "none"

Rejected == <<"rejected">>

(* streamNetwork: what shaping can be applied to.                          *)
StreamNetwork(a) == a.network \in {"tcp", "tcp4", "tcp6", "unix", "unixpacket"}

(* obfsListener and obfsDialer shape a stream with the profile's policy.   *)
ObfsStack(a, policy) == IF StreamNetwork(a) THEN <<a.network, policy>> ELSE Rejected

(* A Transport bean supplies both ends; those of the examples hand the     *)
(* address to net.Listen("tcp", addr), which takes no scheme.              *)
TransportListener(t, a) == IF a.scheme THEN Rejected ELSE t.listener
TransportDialer(t, a) == IF a.scheme THEN Rejected ELSE t.dialer

(* implValueServer.Bind: Transport before ObfsProfile before the scheme.   *)
ServerStack(s) ==
    CASE s.transport # NoTransport -> TransportListener(s.transport, s.bind)
      [] s.transport = NoTransport /\ s.obfs # NoProfile -> ObfsStack(s.bind, s.obfs)
      [] OTHER -> <<s.bind.network>>

(* Services are injected by type: a bean without RegisterFunctions is no   *)
(* ValueService, and nobody misses it (the injection is optional).         *)
Collected(s) == {v \in s.services : "RegisterFunctions" \in v.methods}

(* Port 0: the system chooses one.                                         *)
ListenAddress(s) == IF s.bind.port = 0 THEN [s.bind EXCEPT !.port = 49152] ELSE s.bind

-----------------------------------------------------------------------------
(* strings.ReplaceAll(beanName, "client", "server"); a name is a sequence  *)
(* of words.                                                               *)
ServerBean(name) == [i \in DOMAIN name |-> IF name[i] = "client" THEN "server" ELSE name[i]]

BindAddress(c, bean) == IF bean \in DOMAIN c.binds THEN c.binds[bean] ELSE NoAddress

LocalizeAddr(a) ==
    IF ~a.scheme /\ a.host \in {"0.0.0.0", ""} THEN [a EXCEPT !.host = "127.0.0.1"] ELSE a

(* Mutation: the client looks for the address of a bean of its own name.   *)
ConnectToOwn(c) ==
    IF c.connect # NoAddress THEN c.connect
    ELSE IF BindAddress(c, c.name) = NoAddress THEN NoAddress
         ELSE LocalizeAddr(BindAddress(c, c.name))

ConnectAddress(c) ==
    IF c.connect # NoAddress THEN c.connect
    ELSE IF BindAddress(c, ServerBean(c.name)) = NoAddress THEN NoAddress
         ELSE LocalizeAddr(BindAddress(c, ServerBean(c.name)))

(* implValueClientFactory.Object: the same precedence, written again.      *)
ClientStack(c) ==
    CASE c.transport # NoTransport -> TransportDialer(c.transport, ConnectAddress(c))
      [] c.transport = NoTransport /\ c.obfs # NoProfile -> ObfsStack(ConnectAddress(c), c.obfs)
      [] OTHER -> <<ConnectAddress(c).network>>

(* A dial reaches the listener: a wildcard listens on every local address. *)
Reaches(a, l) ==
    /\ a.network = l.network
    /\ a.port = l.port
    /\ a.host = l.host \/ l.host \in {"0.0.0.0", ""}
=============================================================================
