----------------------- MODULE ConnectionConfigProofs -----------------------
(***************************************************************************)
(* Proofs about a stored configuration, for any texts, edits, host names   *)
(* and resolver answers: the parser accepts the legal texts and returns    *)
(* what they say; the --mtu override sets the MTU and changes nothing      *)
(* else; equal fingerprints mean equal configurations; a text that nobody  *)
(* changed is never refused as stale; what the helper runs is what was     *)
(* stored.                                                                 *)
(*                                                                         *)
(* The parser is a step relation between its states, one step per line.    *)
(* Two passes over one text may differ in the addresses the resolver gave, *)
(* and in nothing else (ParsesAgree); the fingerprint leaves those out.    *)
(* After n lines the parser holds what these lines say (Partial), and the  *)
(* encoding behind the fingerprint can be read back from the front         *)
(* (Readable).                                                             *)
(***************************************************************************)
EXTENDS ConnectionConfig, TLAPS, SequenceTheorems, FiniteSetTheorems, WellFoundedInduction

USE DEF Headers, Kinds

\* What the resolver may say.
Answers == {<<a>> : a \in Resolved} \cup {None}

\* One line takes the parser from s to t.
LineStep(s, l, t) ==
  \/ l.kind \in Headers /\ t = Header(s, l.key)
  \/ l.kind \in {"blank", "empty"} /\ t = s
  \/ l.kind = "malformed" /\ t = Fail(s)
  \/ l.kind = "set" /\ s.section = "none" /\ t = Fail(s)
  \/ l.kind = "set" /\ s.section = "interface" /\ t = InterfaceLine(s, l.key, l.value)
  \/ /\ l.kind = "set" /\ s.section = "peer"
     /\ \E answer \in Answers : t = PeerLine(s, l.key, l.value, answer)

\* Two states that differ in resolved addresses only.
SamePeer(q, r) ==
  /\ q.public_key = r.public_key /\ q.preshared_key = r.preshared_key
  /\ q.allowed_ips = r.allowed_ips /\ q.endpoint_literal = r.endpoint_literal
  /\ q.persistent_keepalive = r.persistent_keepalive

Same(s, t) ==
  /\ s.ok = t.ok /\ s.section = t.section /\ s.private_key = t.private_key /\ s.mtu = t.mtu
  /\ s.address = t.address /\ s.dns = t.dns /\ s.hooks = t.hooks
  /\ Len(s.peers) = Len(t.peers)
  /\ \A n \in 1 .. Len(s.peers) : SamePeer(s.peers[n], t.peers[n])
  /\ SamePeer(s.peer, t.peer)

\* The states of a pass over the first n lines of text t; it goes on while all is well.
Trace(t, tr, n) ==
  /\ tr \in [0 .. n -> State]
  /\ tr[0] = Start
  /\ \A k \in 0 .. n - 1 : tr[k].ok /\ LineStep(tr[k], t[k + 1], tr[k + 1])

Finished(s) == EndOfInput(Left(s))

\* c is what some pass over the whole of t returned.
Parsed(t, c) ==
  \E tr : /\ Trace(t, tr, Len(t)) /\ tr[Len(t)].ok
          /\ c = Finished(tr[Len(t)]) /\ c.ok

\* Every nonempty set of naturals has a least element.
LEMMA LeastOf ==
  ASSUME NEW T, T \subseteq Nat, T # {}
  PROVE  \E x \in T : \A y \in T : x <= y
<1> DEFINE Less == OpToRel(<, Nat)
<1>1. PICK x \in T : \A y \in T : <<y, x>> \notin Less
  <2>1. IsWellFoundedOn(Less, Nat)
    BY NatLessThanWellFounded
  <2> HIDE DEF Less
  <2> QED BY <2>1, WFMin
<1>2. \A y \in T : x \in Nat /\ y \in Nat /\ ~(y < x)
  BY <1>1 DEF OpToRel
<1>3. \A y \in T : x <= y
  BY <1>2
<1> QED BY <1>3

-----------------------------------------------------------------------------
(* States of the parser.                                                   *)

\* The first state is a state.
LEMMA StartType == Start \in State /\ Start.ok /\ NoPeer \in Peer /\ <<>> \in U16Option
<1>1. <<>> \in Values /\ <<>> \in U16Option
  BY DEF Values, U16Option, None
<1>2. NoPeer \in Peer
  BY <1>1 DEF NoPeer, Peer, None
<1>3. [k \in HookKeys |-> <<>>] \in [HookKeys -> Seq(Values)]
  OBVIOUS
<1>4. <<>> \in Seq(Peer)
  OBVIOUS
<1> QED BY <1>1, <1>2, <1>3, <1>4 DEF Start, State, None

\* What the parser accepts of a directive's value has the type of its field.
LEMMA ValueType ==
  ASSUME NEW l \in Line, l.kind = "set"
  PROVE  /\ l.value \in Values /\ Len(l.value) < MAX_CONF_TEXT_BYTES /\ l.key \in Keys
         /\ l.key \in {"mtu", "persistentkeepalive", "endpoint"} => Len(l.value) = 1
         /\ l.key = "mtu" /\ parse_mtu(l.value) # None => l.value \in U16Option
         /\ l.key = "persistentkeepalive" /\ ParsesAll(l.value) => l.value \in U16Option
         /\ l.key \in {"address", "allowedips"} /\ ParsesAll(l.value) => l.value \in Seq(Networks)
         /\ l.key = "dns" /\ ParsesAll(l.value) => l.value \in Seq(Addresses)
<1> DEFINE k == l.key  v == l.value
<1>1. v \in Seq(Nat) /\ k \in Keys /\ WellSpelled(k, v)
  BY DEF Line, Values
<1> HIDE DEF k, v
<1>2. DOMAIN v = 1 .. Len(v) /\ Len(v) \in Nat /\ \A i \in DOMAIN v : v[i] \in Nat
  BY <1>1
<1>3. k \in {"mtu", "persistentkeepalive", "endpoint"} => Len(v) = 1
  BY <1>1 DEF WellSpelled
<1>4. k = "mtu" /\ parse_mtu(v) # None => v \in U16Option
  <2> SUFFICES ASSUME k = "mtu", parse_mtu(v) # None PROVE v \in U16Option
    OBVIOUS
  <2>1. Len(v) = 1 /\ v[1] \in U16
    BY <1>3 DEF parse_mtu
  <2> QED BY <1>1, <2>1 DEF U16Option, Values
<1>5. k = "persistentkeepalive" /\ ParsesAll(v) => v \in U16Option
  <2> SUFFICES ASSUME k = "persistentkeepalive", ParsesAll(v) PROVE v \in U16Option
    OBVIOUS
  <2>1. Len(v) = 1 /\ v[1] \in Nat /\ v[1] <= Bad /\ v[1] # Bad
    BY <1>1, <1>2, <1>3 DEF WellSpelled, ParsesAll
  <2>2. v[1] \in U16
    BY <2>1 DEF U16, Bad
  <2> QED BY <1>1, <2>1, <2>2 DEF U16Option, Values
<1>6. k \in {"address", "allowedips"} /\ ParsesAll(v) => v \in Seq(Networks)
  <2> SUFFICES ASSUME k \in {"address", "allowedips"}, ParsesAll(v) PROVE v \in Seq(Networks)
    OBVIOUS
  <2>1. \A i \in 1 .. Len(v) : v[i] \in Networks
    BY <1>1, <1>2 DEF WellSpelled, ParsesAll
  <2> QED BY <1>1, <1>2, <2>1
<1>7. k = "dns" /\ ParsesAll(v) => v \in Seq(Addresses)
  <2> SUFFICES ASSUME k = "dns", ParsesAll(v) PROVE v \in Seq(Addresses)
    OBVIOUS
  <2>1. \A i \in 1 .. Len(v) : v[i] \in Addresses
    BY <1>1, <1>2 DEF WellSpelled, ParsesAll
  <2> QED BY <1>1, <1>2, <2>1
<1>8. Len(l.value) < MAX_CONF_TEXT_BYTES
  BY DEF Line
<1> QED BY <1>1, <1>3, <1>4, <1>5, <1>6, <1>7, <1>8, Zenon DEF k, v, Values

\* Completing a peer yields a state, refused or with one more peer.
LEMMA LeftType ==
  ASSUME NEW s \in State
  PROVE  Left(s) \in State /\ Fail(s) \in State /\ ~Fail(s).ok
<1>1. Fail(s) \in State /\ ~Fail(s).ok
  BY DEF Fail, State
<1>2. Append(s.peers, s.peer) \in Seq(Peer)
  BY DEF State
<1>3. flush_peer(s) \in State
  BY <1>1, <1>2, StartType DEF flush_peer, State
<1> QED BY <1>1, <1>3 DEF Left

\* What a directive of [Interface] may make of a state.
InterfaceOutcome(s, k, v, t) ==
  \/ t = Fail(s)
  \/ k \in IgnoredKeys /\ t = s
  \/ k = "privatekey" /\ ParsesAll(v) /\ t = [s EXCEPT !.private_key = v]
  \/ k = "mtu" /\ parse_mtu(v) # None /\ t = [s EXCEPT !.mtu = v]
  \/ k = "address" /\ ParsesAll(v) /\ t = [s EXCEPT !.address = s.address \o v]
  \/ k = "dns" /\ ParsesAll(v) /\ t = [s EXCEPT !.dns = s.dns \o v]
  \/ k \in HookKeys /\ t = [s EXCEPT !.hooks = [s.hooks EXCEPT ![k] = Append(s.hooks[k], v)]]

\* The parser's case distinction has no other outcome.
LEMMA InterfaceCases ==
  ASSUME NEW s \in State, NEW l \in Line, l.kind = "set"
  PROVE  InterfaceOutcome(s, l.key, l.value, InterfaceLine(s, l.key, l.value))
<1> DEFINE k == l.key  v == l.value  t == InterfaceLine(s, k, v)
<1> USE DEF InterfaceOutcome, KNOWN_INTERFACE_KEYS, ListKeys, HookKeys, IgnoredKeys
<1>1. CASE k \notin KNOWN_INTERFACE_KEYS
  BY <1>1 DEF InterfaceLine
<1>2. CASE k = "mtu"
  <2>1. parse_mtu(v) # None => v[1] \in U16
    BY DEF parse_mtu
  <2>2. t = IF parse_mtu(v) # None THEN [s EXCEPT !.mtu = v] ELSE Fail(s)
    BY <1>2 DEF InterfaceLine
  <2> HIDE DEF v
  <2> QED BY <1>2, <2>1, <2>2 DEF v
<1>3. CASE k \in HookKeys
  <2>1. t = [s EXCEPT !.hooks[k] = Append(@, v)]
    BY <1>3 DEF InterfaceLine
  <2> QED BY <1>3, <2>1
<1>4. CASE k \in {"privatekey", "address", "dns"} \cup IgnoredKeys
  BY <1>4 DEF InterfaceLine
<1> QED BY <1>1, <1>2, <1>3, <1>4

\* What a directive of [Peer] may make of a state with the peer q, given the endpoint e.
PeerOutcome(s, q, k, v, e, t) ==
  \/ t = Fail(s)
  \/ k = "publickey" /\ ParsesAll(v) /\ t = [s EXCEPT !.peer = [q EXCEPT !.public_key = v]]
  \/ k = "presharedkey" /\ ParsesAll(v) /\ t = [s EXCEPT !.peer = [q EXCEPT !.preshared_key = v]]
  \/ /\ k = "allowedips" /\ ParsesAll(v)
     /\ t = [s EXCEPT !.peer = [q EXCEPT !.allowed_ips = q.allowed_ips \o v]]
  \/ /\ k = "persistentkeepalive" /\ ParsesAll(v)
     /\ t = [s EXCEPT !.peer = [q EXCEPT !.persistent_keepalive = v]]
  \/ /\ k = "endpoint" /\ v[1] # Bad /\ e \in Values /\ e # None
     /\ t = [s EXCEPT !.peer = [q EXCEPT !.endpoint = e, !.endpoint_literal = v]]

\* The parser's case distinction has no other outcome.
LEMMA PeerCases ==
  ASSUME NEW s \in State, NEW l \in Line, l.kind = "set", NEW answer \in Answers
  PROVE  PeerOutcome(s, s.peer, l.key, l.value, parse_endpoint(l.value, answer),
                     PeerLine(s, l.key, l.value, answer))
<1>1. answer \in Values /\ l.value \in Values /\ <<>> \in Values
  <2>1. \A a \in Nat : <<a>> \in Seq(Nat)
    OBVIOUS
  <2>2. \A a \in Resolved : a \in Nat
    BY LineAssumption
  <2>3. answer = <<>> \/ \E a \in Resolved : answer = <<a>>
    BY DEF Answers, None
  <2>4. \A a \in Resolved : <<a>> \in Seq(Nat)
    BY <2>1, <2>2
  <2>5. <<>> \in Seq(Nat)
    OBVIOUS
  <2>6. answer \in Values
    BY <2>3, <2>4, <2>5, Zenon DEF Values
  <2> QED BY <2>5, <2>6, ValueType DEF Values
<1> DEFINE e == parse_endpoint(l.value, answer)
           t == PeerLine(s, l.key, l.value, answer)
<1>2. e \in Values /\ (l.value[1] = Bad => e = None)
  BY <1>1 DEF parse_endpoint, None
<1> HIDE DEF e
<1>3. s.peer \in Peer
  BY DEF State
<1>4. CASE l.key = "endpoint"
  <2>1. t = IF e = None THEN Fail(s)
            ELSE [s EXCEPT !.peer.endpoint = e, !.peer.endpoint_literal = l.value]
    BY <1>4 DEF PeerLine, KNOWN_PEER_KEYS, e
  <2>2. [s EXCEPT !.peer.endpoint = e, !.peer.endpoint_literal = l.value]
          = [s EXCEPT !.peer = [s.peer EXCEPT !.endpoint = e, !.endpoint_literal = l.value]]
    BY <1>3 DEF State
  <2> QED BY <1>2, <1>4, <2>1, <2>2 DEF e, PeerOutcome
<1>5. CASE l.key # "endpoint"
  BY <1>5 DEF PeerLine, KNOWN_PEER_KEYS, PeerOutcome
<1> QED BY <1>4, <1>5

\* Every line takes a state to a state.
LEMMA LineType ==
  ASSUME NEW s \in State, NEW l \in Line, NEW t, LineStep(s, l, t)
  PROVE  t \in State
<1>0. l.kind \in Kinds
  BY DEF Line
<1>1. CASE t = Header(s, l.key)
  <2>1. l.key \in {"interface", "peer"} => [Left(s) EXCEPT !.section = l.key] \in State
    BY LeftType DEF State
  <2> QED BY <1>1, <2>1, LeftType DEF Header
<1>2. CASE l.kind = "set" /\ t = InterfaceLine(s, l.key, l.value)
  <2> DEFINE k == l.key  v == l.value
  <2>1. v \in Values
    BY <1>2, ValueType
  <2>2. [s EXCEPT !.private_key = v] \in State
    BY <2>1 DEF State
  <2>3. ASSUME k = "mtu", parse_mtu(v) # None PROVE [s EXCEPT !.mtu = v] \in State
    <3>1. v \in U16Option
      BY <1>2, <2>3, ValueType
    <3> QED BY <3>1 DEF State
  <2>4. ASSUME k = "address", ParsesAll(v) PROVE [s EXCEPT !.address = s.address \o v] \in State
    <3>1. v \in Seq(Networks) /\ s.address \in Seq(Networks)
      BY <1>2, <2>4, ValueType DEF State
    <3>2. s.address \o v \in Seq(Networks)
      BY <3>1
    <3> QED BY <3>2 DEF State
  <2>5. ASSUME k = "dns", ParsesAll(v) PROVE [s EXCEPT !.dns = s.dns \o v] \in State
    <3>1. v \in Seq(Addresses) /\ s.dns \in Seq(Addresses)
      BY <1>2, <2>5, ValueType DEF State
    <3>2. s.dns \o v \in Seq(Addresses)
      BY <3>1
    <3> QED BY <3>2 DEF State
  <2>6. ASSUME k \in HookKeys
        PROVE  [s EXCEPT !.hooks = [s.hooks EXCEPT ![k] = Append(s.hooks[k], v)]] \in State
    <3>1. Append(s.hooks[k], v) \in Seq(Values)
      BY <2>1, <2>6 DEF State
    <3> QED BY <2>6, <3>1 DEF State
  <2>7. s \in State /\ Fail(s) \in State
    BY LeftType
  <2>8. InterfaceOutcome(s, k, v, t)
    BY <1>2, InterfaceCases
  <2> HIDE DEF k, v
  <2> QED BY <2>2, <2>3, <2>4, <2>5, <2>6, <2>7, <2>8, Zenon DEF InterfaceOutcome
<1>3. ASSUME l.kind = "set", NEW answer \in Answers, t = PeerLine(s, l.key, l.value, answer)
      PROVE  t \in State
  <2> DEFINE v == l.value  q == s.peer
  <2>1. v \in Values /\ q \in Peer
    BY <1>3, ValueType DEF State
  <2>2. ASSUME NEW r \in Peer PROVE [s EXCEPT !.peer = r] \in State
    BY DEF State
  <2>3. [q EXCEPT !.public_key = v] \in Peer /\ [q EXCEPT !.preshared_key = v] \in Peer
    BY <2>1 DEF Peer
  <2>4. ASSUME l.key = "allowedips", ParsesAll(v)
        PROVE  [q EXCEPT !.allowed_ips = q.allowed_ips \o v] \in Peer
    <3>1. v \in Seq(Networks) /\ q.allowed_ips \in Seq(Networks)
      BY <1>3, <2>1, <2>4, ValueType DEF Peer
    <3>2. q.allowed_ips \o v \in Seq(Networks)
      BY <3>1
    <3> QED BY <2>1, <3>2 DEF Peer
  <2>5. ASSUME l.key = "persistentkeepalive", ParsesAll(v)
        PROVE  [q EXCEPT !.persistent_keepalive = v] \in Peer
    <3>1. v \in U16Option
      BY <1>3, <2>5, ValueType
    <3> QED BY <2>1, <3>1 DEF Peer
  <2>6. ASSUME NEW e \in Values PROVE [q EXCEPT !.endpoint = e, !.endpoint_literal = v] \in Peer
    BY <2>1 DEF Peer
  <2>7. Fail(s) \in State
    BY LeftType
  <2>8. PeerOutcome(s, q, l.key, v, parse_endpoint(v, answer), t)
    BY <1>3, PeerCases
  <2> HIDE DEF q, v
  <2> QED BY <2>2, <2>3, <2>4, <2>5, <2>6, <2>7, <2>8, Zenon DEF PeerOutcome
<1> QED BY <1>1, <1>2, <1>3, LeftType DEF LineStep

\* The end of the input yields a state.
LEMMA FinishedType ==
  ASSUME NEW s \in State
  PROVE  Finished(s) \in State
BY LeftType DEF Finished, EndOfInput

-----------------------------------------------------------------------------
(* Two passes over one text.                                               *)

\* Completing a peer keeps two passes alike.
LEMMA LeftSame ==
  ASSUME NEW s \in State, NEW t \in State, Same(s, t), Left(s).ok, Left(t).ok
  PROVE  Same(Left(s), Left(t))
<1>1. CASE s.section # "peer"
  BY <1>1 DEF Left, Same
<1>2. CASE s.section = "peer"
  <2>1. t.section = "peer"
    BY <1>2 DEF Same
  <2>2. /\ Left(s) = [s EXCEPT !.peers = Append(@, s.peer), !.peer = NoPeer]
        /\ Left(t) = [t EXCEPT !.peers = Append(@, t.peer), !.peer = NoPeer]
    BY <1>2, <2>1, LeftType DEF Left, flush_peer
  <2>3. s.peers \in Seq(Peer) /\ t.peers \in Seq(Peer) /\ Len(s.peers) = Len(t.peers)
    BY DEF State, Same
  <2>4. /\ Len(Append(s.peers, s.peer)) = Len(Append(t.peers, t.peer))
        /\ \A n \in 1 .. Len(Append(s.peers, s.peer)) :
             SamePeer(Append(s.peers, s.peer)[n], Append(t.peers, t.peer)[n])
    <3>1. /\ Len(Append(s.peers, s.peer)) = Len(s.peers) + 1
          /\ Len(Append(t.peers, t.peer)) = Len(s.peers) + 1
          /\ \A n \in 1 .. Len(s.peers) : /\ Append(s.peers, s.peer)[n] = s.peers[n]
                                         /\ Append(t.peers, t.peer)[n] = t.peers[n]
          /\ Append(s.peers, s.peer)[Len(s.peers) + 1] = s.peer
          /\ Append(t.peers, t.peer)[Len(s.peers) + 1] = t.peer
      BY <2>3
    <3>2. \A n \in 1 .. Len(s.peers) : SamePeer(s.peers[n], t.peers[n])
      BY DEF Same
    <3>3. SamePeer(s.peer, t.peer)
      BY DEF Same
    <3>4. ASSUME NEW n \in 1 .. Len(s.peers) + 1
          PROVE  SamePeer(Append(s.peers, s.peer)[n], Append(t.peers, t.peer)[n])
      <4>1. n \in 1 .. Len(s.peers) \/ n = Len(s.peers) + 1
        BY <2>3
      <4> QED BY <3>1, <3>2, <3>3, <4>1
    <3> QED BY <3>1, <3>4
  <2>5. /\ Left(s).peers = Append(s.peers, s.peer) /\ Left(t).peers = Append(t.peers, t.peer)
        /\ Left(s).peer = NoPeer /\ Left(t).peer = NoPeer
        /\ Left(s).section = s.section /\ Left(t).section = t.section
        /\ Left(s).private_key = s.private_key /\ Left(t).private_key = t.private_key
        /\ Left(s).mtu = s.mtu /\ Left(t).mtu = t.mtu /\ Left(s).address = s.address
        /\ Left(t).address = t.address /\ Left(s).dns = s.dns /\ Left(t).dns = t.dns
        /\ Left(s).hooks = s.hooks /\ Left(t).hooks = t.hooks
        /\ Left(s).ok = s.ok /\ Left(t).ok = t.ok
    BY <2>2 DEF State
  <2> QED BY <2>4, <2>5 DEF Same, SamePeer
<1> QED BY <1>1, <1>2

\* A line that both passes accept keeps them alike, whatever the resolver told each.
LEMMA LineSame ==
  ASSUME NEW s1 \in State, NEW s2 \in State, Same(s1, s2), NEW l \in Line,
         NEW t1, LineStep(s1, l, t1), t1.ok, NEW t2, LineStep(s2, l, t2), t2.ok
  PROVE  Same(t1, t2)
<1>0. s1.section = s2.section /\ l.kind \in Kinds
  BY DEF Same, Line
<1>f. t1 # Fail(s1) /\ t2 # Fail(s2)
  BY LeftType
<1>1. CASE l.kind \in Headers
  <2>1. t1 = Header(s1, l.key) /\ t2 = Header(s2, l.key)
    BY <1>1 DEF LineStep
  <2>2. t1 = [Left(s1) EXCEPT !.section = l.key] /\ t2 = [Left(s2) EXCEPT !.section = l.key]
    BY <2>1, <1>f DEF Header
  <2>3. Left(s1) \in State /\ Left(s2) \in State
    BY LeftType
  <2>4. Left(s1).ok /\ Left(s2).ok
    BY <2>2, <2>3 DEF State
  <2>5. Same(Left(s1), Left(s2))
    BY <2>4, LeftSame
  <2> HIDE DEF Left
  <2> QED BY <2>2, <2>3, <2>5 DEF Same, State
<1>2. CASE l.kind \in {"blank", "empty"}
  BY <1>2 DEF LineStep
<1>3. CASE l.kind = "malformed"
  BY <1>3, <1>f DEF LineStep
<1>4. CASE l.kind = "set" /\ s1.section = "none"
  BY <1>0, <1>4, <1>f DEF LineStep
<1>5. CASE l.kind = "set" /\ s1.section = "interface"
  <2> DEFINE k == l.key  v == l.value
  <2>1. t1 = InterfaceLine(s1, k, v) /\ t2 = InterfaceLine(s2, k, v)
    BY <1>0, <1>5 DEF LineStep
  <2>2. \/ t1 = s1 /\ t2 = s2
        \/ t1 = [s1 EXCEPT !.private_key = v] /\ t2 = [s2 EXCEPT !.private_key = v]
        \/ t1 = [s1 EXCEPT !.mtu = v] /\ t2 = [s2 EXCEPT !.mtu = v]
        \/ t1 = [s1 EXCEPT !.address = @ \o v] /\ t2 = [s2 EXCEPT !.address = @ \o v]
        \/ t1 = [s1 EXCEPT !.dns = @ \o v] /\ t2 = [s2 EXCEPT !.dns = @ \o v]
        \/ /\ k \in HookKeys
           /\ t1 = [s1 EXCEPT !.hooks[k] = Append(@, v)] /\ t2 = [s2 EXCEPT !.hooks[k] = Append(@, v)]
    BY <2>1, <1>f DEF InterfaceLine, KNOWN_INTERFACE_KEYS, ListKeys, HookKeys, IgnoredKeys
  <2>3. CASE t1 = [s1 EXCEPT !.private_key = v] /\ t2 = [s2 EXCEPT !.private_key = v]
    BY <2>3 DEF Same, State
  <2>4. CASE t1 = [s1 EXCEPT !.mtu = v] /\ t2 = [s2 EXCEPT !.mtu = v]
    BY <2>4 DEF Same, State
  <2>5. CASE t1 = [s1 EXCEPT !.address = @ \o v] /\ t2 = [s2 EXCEPT !.address = @ \o v]
    BY <2>5 DEF Same, State
  <2>6. CASE t1 = [s1 EXCEPT !.dns = @ \o v] /\ t2 = [s2 EXCEPT !.dns = @ \o v]
    BY <2>6 DEF Same, State
  <2>7. CASE /\ k \in HookKeys
             /\ t1 = [s1 EXCEPT !.hooks[k] = Append(@, v)] /\ t2 = [s2 EXCEPT !.hooks[k] = Append(@, v)]
    BY <2>7 DEF Same, State
  <2> QED BY <2>2, <2>3, <2>4, <2>5, <2>6, <2>7
<1>6. CASE l.kind = "set" /\ s1.section = "peer"
  <2> DEFINE k == l.key  v == l.value
  <2>1. PICK a1 \in Answers : t1 = PeerLine(s1, k, v, a1)
    BY <1>0, <1>6 DEF LineStep
  <2>2. PICK a2 \in Answers : t2 = PeerLine(s2, k, v, a2)
    BY <1>0, <1>6 DEF LineStep
  <2> DEFINE e1 == parse_endpoint(v, a1)  e2 == parse_endpoint(v, a2)
  <2>3. \/ t1 = [s1 EXCEPT !.peer.public_key = v] /\ t2 = [s2 EXCEPT !.peer.public_key = v]
        \/ t1 = [s1 EXCEPT !.peer.preshared_key = v] /\ t2 = [s2 EXCEPT !.peer.preshared_key = v]
        \/ t1 = [s1 EXCEPT !.peer.allowed_ips = @ \o v] /\ t2 = [s2 EXCEPT !.peer.allowed_ips = @ \o v]
        \/ /\ t1 = [s1 EXCEPT !.peer.persistent_keepalive = v]
           /\ t2 = [s2 EXCEPT !.peer.persistent_keepalive = v]
        \/ /\ t1 = [s1 EXCEPT !.peer.endpoint = e1, !.peer.endpoint_literal = v]
           /\ t2 = [s2 EXCEPT !.peer.endpoint = e2, !.peer.endpoint_literal = v]
    BY <2>1, <2>2, <1>f DEF PeerLine, KNOWN_PEER_KEYS
  <2> HIDE DEF e1, e2
  <2>4. SamePeer(s1.peer, s2.peer) /\ s1.peer \in Peer /\ s2.peer \in Peer
    BY DEF Same, State
  <2>5. /\ t1.peers = s1.peers /\ t2.peers = s2.peers
        /\ t1.ok = s1.ok /\ t2.ok = s2.ok /\ t1.section = s1.section /\ t2.section = s2.section
        /\ t1.private_key = s1.private_key /\ t2.private_key = s2.private_key
        /\ t1.mtu = s1.mtu /\ t2.mtu = s2.mtu /\ t1.address = s1.address /\ t2.address = s2.address
        /\ t1.dns = s1.dns /\ t2.dns = s2.dns /\ t1.hooks = s1.hooks /\ t2.hooks = s2.hooks
    BY <2>3, ZenonT(60) DEF State
  <2>6. CASE t1 = [s1 EXCEPT !.peer.public_key = v] /\ t2 = [s2 EXCEPT !.peer.public_key = v]
    <3>1. t1.peer = [s1.peer EXCEPT !.public_key = v] /\ t2.peer = [s2.peer EXCEPT !.public_key = v]
      BY <2>6 DEF State
    <3>2. SamePeer(t1.peer, t2.peer)
      BY <2>4, <3>1 DEF SamePeer, Peer
    <3> QED BY <2>5, <3>2 DEF Same
  <2>7. CASE t1 = [s1 EXCEPT !.peer.preshared_key = v] /\ t2 = [s2 EXCEPT !.peer.preshared_key = v]
    <3>1. t1.peer = [s1.peer EXCEPT !.preshared_key = v] /\ t2.peer = [s2.peer EXCEPT !.preshared_key = v]
      BY <2>7 DEF State
    <3>2. SamePeer(t1.peer, t2.peer)
      BY <2>4, <3>1 DEF SamePeer, Peer
    <3> QED BY <2>5, <3>2 DEF Same
  <2>8. CASE t1 = [s1 EXCEPT !.peer.allowed_ips = @ \o v] /\ t2 = [s2 EXCEPT !.peer.allowed_ips = @ \o v]
    <3>1. s1.peer.allowed_ips = s2.peer.allowed_ips
      BY <2>4 DEF SamePeer
    <3> DEFINE w == s1.peer.allowed_ips \o v
    <3>2. t1.peer = [s1.peer EXCEPT !.allowed_ips = w] /\ t2.peer = [s2.peer EXCEPT !.allowed_ips = w]
      BY <2>8, <3>1 DEF State
    <3> HIDE DEF w
    <3>3. SamePeer(t1.peer, t2.peer)
      BY <2>4, <3>2 DEF SamePeer, Peer
    <3> QED BY <2>5, <3>3 DEF Same
  <2>9. CASE t1 = [s1 EXCEPT !.peer.persistent_keepalive = v] /\ t2 = [s2 EXCEPT !.peer.persistent_keepalive = v]
    <3>1. t1.peer = [s1.peer EXCEPT !.persistent_keepalive = v] /\ t2.peer = [s2.peer EXCEPT !.persistent_keepalive = v]
      BY <2>9 DEF State
    <3>2. SamePeer(t1.peer, t2.peer)
      BY <2>4, <3>1 DEF SamePeer, Peer
    <3> QED BY <2>5, <3>2 DEF Same
  <2>10. CASE /\ t1 = [s1 EXCEPT !.peer.endpoint = e1, !.peer.endpoint_literal = v]
             /\ t2 = [s2 EXCEPT !.peer.endpoint = e2, !.peer.endpoint_literal = v]
    <3>1. /\ t1.peer = [s1.peer EXCEPT !.endpoint = e1, !.endpoint_literal = v]
          /\ t2.peer = [s2.peer EXCEPT !.endpoint = e2, !.endpoint_literal = v]
      BY <2>10 DEF State
    <3>2. SamePeer(t1.peer, t2.peer)
      BY <2>4, <3>1 DEF SamePeer, Peer
    <3> QED BY <2>5, <3>2 DEF Same
  <2> QED BY <2>3, <2>6, <2>7, <2>8, <2>9, <2>10
<1> QED BY <1>1, <1>2, <1>3, <1>4, <1>5, <1>6 DEF LineStep

\* Two passes over one text are alike at every line both have reached in good order.
LEMMA TracesSame ==
  ASSUME NEW t \in Seq(Line), NEW a, NEW b, Trace(t, a, Len(t)), Trace(t, b, Len(t)),
         a[Len(t)].ok, b[Len(t)].ok
  PROVE  Same(a[Len(t)], b[Len(t)])
<1>0. Len(t) \in Nat
  OBVIOUS
<1>1. \A n \in 0 .. Len(t) : a[n] \in State /\ b[n] \in State /\ a[n].ok /\ b[n].ok
  BY <1>0 DEF Trace
<1> DEFINE T == {n \in 0 .. Len(t) : ~Same(a[n], b[n])}
<1>2. SUFFICES ASSUME T # {} PROVE FALSE
  BY <1>0
<1>3. PICK x \in T : \A y \in T : x <= y
  <2>1. T \subseteq Nat
    BY <1>0
  <2> HIDE DEF T
  <2> QED BY <1>2, <2>1, LeastOf
<1>4. x # 0
  BY DEF Trace, Same, SamePeer
<1>5. x - 1 \in 0 .. Len(t) - 1 /\ x - 1 \in 0 .. Len(t) /\ (x - 1) + 1 = x /\ x \in 1 .. Len(t)
  BY <1>0, <1>4
<1>6. Same(a[x - 1], b[x - 1])
  BY <1>3, <1>5
<1>7. LineStep(a[x - 1], t[x], a[x]) /\ LineStep(b[x - 1], t[x], b[x]) /\ t[x] \in Line
  BY <1>5 DEF Trace
<1>8. Same(a[x], b[x])
  <2>1. a[x].ok /\ b[x].ok /\ a[x - 1] \in State /\ b[x - 1] \in State
    BY <1>1, <1>5
  <2> QED BY <2>1, <1>6, <1>7, LineSame
<1> QED BY <1>8

\* Two parses of one text differ in resolved addresses only.
LEMMA ParsesAgree ==
  ASSUME NEW t \in Seq(Line), NEW c, NEW d, Parsed(t, c), Parsed(t, d)
  PROVE  Same(c, d) /\ c \in State /\ d \in State
<1>1. PICK a : Trace(t, a, Len(t)) /\ a[Len(t)].ok /\ c = Finished(a[Len(t)]) /\ c.ok
  BY DEF Parsed
<1>2. PICK b : Trace(t, b, Len(t)) /\ b[Len(t)].ok /\ d = Finished(b[Len(t)]) /\ d.ok
  BY DEF Parsed
<1> DEFINE x == a[Len(t)]  y == b[Len(t)]
<1>3. x \in State /\ y \in State
  BY <1>1, <1>2 DEF Trace
<1>4. Same(x, y)
  BY <1>1, <1>2, TracesSame
<1> HIDE DEF x, y
<1>5. c = Left(x) /\ d = Left(y)
  <2>1. Left(x) \in State /\ Left(y) \in State
    BY <1>3, LeftType
  <2>2. ~Fail(Left(x)).ok /\ ~Fail(Left(y)).ok
    BY <2>1, LeftType
  <2>3. c = EndOfInput(Left(x)) /\ d = EndOfInput(Left(y))
    BY <1>1, <1>2 DEF Finished, x, y
  <2> QED BY <1>1, <1>2, <2>2, <2>3 DEF EndOfInput
<1> QED BY <1>1, <1>2, <1>3, <1>4, <1>5, LeftSame, LeftType

\* The fingerprint does not see the resolved addresses.
LEMMA SamePrint ==
  ASSUME NEW c \in State, NEW d \in State, Same(c, d)
  PROVE  fingerprint(c) = fingerprint(d)
<1>1. DOMAIN c.peers = 1 .. Len(c.peers) /\ DOMAIN d.peers = 1 .. Len(c.peers)
  BY DEF State, Same
<1>2. \A n \in 1 .. Len(c.peers) : push_peer(c.peers[n]) = push_peer(d.peers[n])
  BY DEF Same, SamePeer, push_peer
<1>3. [i \in DOMAIN c.peers |-> push_peer(c.peers[i])] = [i \in DOMAIN d.peers |-> push_peer(d.peers[i])]
  BY <1>1, <1>2
<1>4. /\ c.private_key = d.private_key /\ c.address = d.address /\ c.dns = d.dns /\ c.mtu = d.mtu
      /\ c.hooks = d.hooks /\ Len(c.peers) = Len(d.peers)
  BY DEF Same
<1> QED BY <1>3, <1>4, Zenon DEF fingerprint

-----------------------------------------------------------------------------
(* Encodings that can be read back.                                        *)

\* A number that fits four bytes.
U32 == {n \in Nat : n < 4294967296}

\* Whatever follows, a text that begins with a begins with b only if x is y: an encoding of
\* this kind can be followed by more without ambiguity.
Readable(a, b, x, y) ==
  \A u, w \in Seq(Nat) : a \o u = b \o w => x = y /\ u = w

\* Concatenation of number sequences.
LEMMA JoinAssociates ==
  \A a, b, c \in Seq(Nat) : (a \o b) \o c = a \o (b \o c)
BY ConcatAssociative

\* Sequences of equal length cancel on the left.
LEMMA Cancel ==
  ASSUME NEW a \in Seq(Nat), NEW b \in Seq(Nat), NEW x \in Seq(Nat), NEW y \in Seq(Nat),
         Len(a) = Len(b), a \o x = b \o y
  PROVE  a = b /\ x = y
<1>1. Len(a \o x) = Len(a) + Len(x) /\ Len(b \o y) = Len(b) + Len(y)
  BY ConcatProperties
<1>2. Len(x) = Len(y) /\ Len(x) \in Nat /\ Len(a) \in Nat
  BY <1>1
<1>3. ASSUME NEW i \in 1 .. Len(a) PROVE a[i] = b[i]
  <2>1. (a \o x)[i] = a[i] /\ (b \o y)[i] = b[i]
    BY <1>2
  <2> QED BY <2>1
<1>4. ASSUME NEW i \in 1 .. Len(x) PROVE x[i] = y[i]
  <2>1. Len(a) + i \in Nat /\ ~(Len(a) + i <= Len(a)) /\ (Len(a) + i) - Len(a) = i
        /\ Len(a) + i \in 1 .. Len(a) + Len(x)
    BY <1>2
  <2>2. (a \o x)[Len(a) + i] = x[(Len(a) + i) - Len(a)]
    BY <2>1, ConcatProperties, ZenonT(60)
  <2>3. (b \o y)[Len(a) + i] = y[(Len(a) + i) - Len(a)]
    BY <1>2, <2>1, ConcatProperties
  <2> QED BY <1>1, <2>1, <2>2, <2>3
<1>5. a = b
  BY <1>3, SeqEqual
<1>6. x = y
  BY <1>2, <1>4, SeqEqual
<1> QED BY <1>5, <1>6

\* What follows the same beginning is the same.
LEMMA JoinCancels ==
  ASSUME NEW a \in Seq(Nat), NEW x \in Seq(Nat), NEW y \in Seq(Nat), a \o x = a \o y
  PROVE  x = y
<1>1. Len(a) = Len(a)
  OBVIOUS
<1> QED BY <1>1, Cancel

\* What follows does not change the first number.
LEMMA FirstKept ==
  ASSUME NEW a \in Seq(Nat), NEW b \in Seq(Nat), NEW x \in Seq(Nat), NEW y \in Seq(Nat),
         Len(a) >= 1, Len(b) >= 1, a \o x = b \o y
  PROVE  a[1] = b[1]
<1>1. (a \o x)[1] = a[1] /\ (b \o y)[1] = b[1]
  OBVIOUS
<1> QED BY <1>1

\* A fixed number of bytes is readable when it determines what it stands for.
LEMMA FixedReadable ==
  ASSUME NEW a \in Seq(Nat), NEW b \in Seq(Nat), Len(a) = Len(b), NEW x, NEW y, a = b => x = y
  PROVE  Readable(a, b, x, y)
BY Cancel DEF Readable

\* Two readable encodings in a row are readable as a pair.
LEMMA PairReadable ==
  ASSUME NEW a \in Seq(Nat), NEW b \in Seq(Nat), NEW c \in Seq(Nat), NEW d \in Seq(Nat),
         NEW x, NEW y, NEW z, NEW v, Readable(a, b, x, y), Readable(c, d, z, v)
  PROVE  Readable(a \o c, b \o d, <<x, z>>, <<y, v>>)
<1>1. ASSUME NEW u \in Seq(Nat), NEW w \in Seq(Nat), (a \o c) \o u = (b \o d) \o w
      PROVE  x = y /\ z = v /\ u = w
  <2>1. (a \o c) \o u = a \o (c \o u)
    BY JoinAssociates, ZenonT(60)
  <2>2. (b \o d) \o w = b \o (d \o w)
    BY JoinAssociates, ZenonT(60)
  <2>3. c \o u \in Seq(Nat) /\ d \o w \in Seq(Nat)
    BY ConcatProperties
  <2>4. x = y /\ c \o u = d \o w
    BY <1>1, <2>1, <2>2, <2>3 DEF Readable
  <2> QED BY <2>4 DEF Readable
<1> QED BY <1>1 DEF Readable

\* Four bytes hold a number.
LEMMA U32Readable ==
  ASSUME NEW m \in U32, NEW n \in U32
  PROVE  Readable(push_u32(m), push_u32(n), m, n) /\ push_u32(m) \in Seq(Nat)
<1>1. m \in Nat /\ n \in Nat /\ m < 4294967296 /\ n < 4294967296
  BY DEF U32
<1>2. ASSUME NEW k \in Nat
      PROVE  k % 256 \in Nat /\ (k \div 256) % 256 \in Nat /\ (k \div 65536) % 256 \in Nat
             /\ (k \div 16777216) % 256 \in Nat
  OBVIOUS
<1>3. push_u32(m) \in Seq(Nat) /\ push_u32(n) \in Seq(Nat) /\ Len(push_u32(m)) = 4 /\ Len(push_u32(n)) = 4
  BY <1>1, <1>2 DEF push_u32
<1>4. ASSUME push_u32(m) = push_u32(n) PROVE m = n
  <2>1. /\ m % 256 = n % 256 /\ (m \div 256) % 256 = (n \div 256) % 256
        /\ (m \div 65536) % 256 = (n \div 65536) % 256
        /\ (m \div 16777216) % 256 = (n \div 16777216) % 256
    BY <1>4 DEF push_u32
  <2> QED BY <1>1, <2>1
<1> QED BY <1>3, <1>4, FixedReadable

\* An optional number of two bytes, behind a tag.
LEMMA OptionU16Readable ==
  ASSUME NEW m \in U16Option, NEW n \in U16Option
  PROVE  Readable(push_option_u16(m), push_option_u16(n), m, n) /\ push_option_u16(m) \in Seq(Nat)
<1>1. ASSUME NEW o \in U16Option, o # None
      PROVE  /\ o \in Seq(Nat) /\ Len(o) = 1 /\ o[1] \in Nat /\ o[1] < 65536
             /\ push_option_u16(o) = <<1, o[1] % 256, (o[1] \div 256) % 256>>
             /\ push_option_u16(o) \in Seq(Nat) /\ Len(push_option_u16(o)) = 3
             /\ push_option_u16(o)[1] = 1
  <2>1. o \in Seq(Nat) /\ Len(o) = 1 /\ o[1] \in Nat /\ o[1] < 65536
    BY <1>1 DEF U16Option, U16, Bad, Values
  <2>2. o[1] % 256 \in Nat /\ (o[1] \div 256) % 256 \in Nat
    BY <2>1
  <2>3. push_option_u16(o) = <<1, o[1] % 256, (o[1] \div 256) % 256>>
    BY <1>1 DEF push_option_u16
  <2> QED BY <2>1, <2>2, <2>3
<1>2. ASSUME NEW o \in U16Option, o = None
      PROVE  /\ push_option_u16(o) \in Seq(Nat) /\ push_option_u16(o) = <<0>>
  BY <1>2 DEF push_option_u16
<1>3. push_option_u16(m) \in Seq(Nat) /\ push_option_u16(n) \in Seq(Nat)
  BY <1>1, <1>2
<1>4. CASE m # None /\ n # None
  <2>1. ASSUME push_option_u16(m) = push_option_u16(n) PROVE m = n
    <3>1. m[1] % 256 = n[1] % 256 /\ (m[1] \div 256) % 256 = (n[1] \div 256) % 256
      BY <1>1, <1>4, <2>1
    <3>2. m[1] \in Nat /\ n[1] \in Nat /\ m[1] < 65536 /\ n[1] < 65536
      BY <1>1, <1>4
    <3>3. m[1] = n[1]
      BY <3>1, <3>2
    <3>4. m \in Seq(Nat) /\ n \in Seq(Nat) /\ Len(m) = 1 /\ Len(n) = 1
      BY <1>1, <1>4
    <3> QED BY <3>3, <3>4, SeqEqual
  <2>2. Len(push_option_u16(m)) = Len(push_option_u16(n))
    BY <1>1, <1>4
  <2> HIDE DEF push_option_u16
  <2> QED BY <1>3, <2>1, <2>2, FixedReadable
<1>5. CASE m = None /\ n = None
  BY <1>3, <1>5, FixedReadable
<1>6. CASE (m = None) # (n = None)
  <2>1. ASSUME NEW u \in Seq(Nat), NEW w \in Seq(Nat),
               push_option_u16(m) \o u = push_option_u16(n) \o w
        PROVE  FALSE
    <3>1. push_option_u16(m)[1] # push_option_u16(n)[1]
      BY <1>1, <1>2, <1>6
    <3>2. Len(push_option_u16(m)) >= 1 /\ Len(push_option_u16(n)) >= 1
      <4>1. ASSUME NEW o \in U16Option PROVE Len(push_option_u16(o)) >= 1
        <5>1. CASE o = None
          <6>1. push_option_u16(o) = <<0>>
            BY <1>2, <5>1
          <6> QED BY <6>1
        <5>2. CASE o # None
          BY <1>1, <5>2
        <5> QED BY <5>1, <5>2
      <4> QED BY <4>1
    <3> QED BY <1>3, <2>1, <3>1, <3>2, FirstKept
  <2> QED BY <1>3, <2>1 DEF Readable
<1> QED BY <1>3, <1>4, <1>5, <1>6

\* A byte string, behind its length.
LEMMA BytesReadable ==
  ASSUME NEW b \in Seq(Nat), NEW c \in Seq(Nat), Len(b) \in U32, Len(c) \in U32
  PROVE  Readable(push_bytes(b), push_bytes(c), b, c) /\ push_bytes(b) \in Seq(Nat)
<1>1. /\ push_u32(Len(b)) \in Seq(Nat) /\ push_u32(Len(c)) \in Seq(Nat)
      /\ Readable(push_u32(Len(b)), push_u32(Len(c)), Len(b), Len(c))
  BY U32Readable
<1>2. push_bytes(b) = push_u32(Len(b)) \o b /\ push_bytes(c) = push_u32(Len(c)) \o c
  BY DEF push_bytes
<1> HIDE DEF push_u32
<1>3. ASSUME NEW u \in Seq(Nat), NEW w \in Seq(Nat), push_bytes(b) \o u = push_bytes(c) \o w
      PROVE  b = c /\ u = w
  <2> DEFINE g == push_u32(Len(b))  h == push_u32(Len(c))
  <2> HIDE DEF g, h
  <2>1. (g \o b) \o u = g \o (b \o u)
    BY <1>1, JoinAssociates, ZenonT(60) DEF g
  <2>2. (h \o c) \o w = h \o (c \o w)
    BY <1>1, JoinAssociates, ZenonT(60) DEF h
  <2>3. b \o u \in Seq(Nat) /\ c \o w \in Seq(Nat)
    OBVIOUS
  <2>4. Len(b) = Len(c) /\ b \o u = c \o w
    BY <1>1, <1>2, <1>3, <2>1, <2>2, <2>3 DEF Readable, g, h
  <2> QED BY <2>4, Cancel
<1>4. push_bytes(b) \in Seq(Nat)
  BY <1>1, <1>2
<1> HIDE DEF push_bytes
<1> QED BY <1>3, <1>4 DEF Readable

\* An optional byte string, behind a tag.
LEMMA OptionBytesReadable ==
  ASSUME NEW b \in Seq(Nat), NEW c \in Seq(Nat), Len(b) \in U32, Len(c) \in U32
  PROVE  Readable(push_option_bytes(b), push_option_bytes(c), b, c) /\ push_option_bytes(b) \in Seq(Nat)
<1>1. ASSUME NEW o \in Seq(Nat), Len(o) \in U32
      PROVE  /\ push_bytes(o) \in Seq(Nat) /\ push_option_bytes(o) \in Seq(Nat)
             /\ Len(push_option_bytes(o)) >= 1
             /\ push_option_bytes(o)[1] = IF o = None THEN 0 ELSE 1
  <2>1. push_bytes(o) \in Seq(Nat)
    BY <1>1, BytesReadable
  <2> HIDE DEF push_bytes
  <2>2. CASE o = None
    BY <2>1, <2>2 DEF push_option_bytes
  <2>3. CASE o # None
    <3>1. push_option_bytes(o) = <<1>> \o push_bytes(o)
      BY <2>3 DEF push_option_bytes
    <3> QED BY <2>1, <2>3, <3>1
  <2> QED BY <2>2, <2>3
<1>2. CASE b # None /\ c # None
  <2>1. <<1>> \in Seq(Nat) /\ Len(<<1>>) = 1
    OBVIOUS
  <2>2. Readable(<<1>>, <<1>>, 1, 1)
    BY <2>1, FixedReadable
  <2>3. Readable(push_bytes(b), push_bytes(c), b, c)
    BY BytesReadable
  <2>4. push_option_bytes(b) = <<1>> \o push_bytes(b) /\ push_option_bytes(c) = <<1>> \o push_bytes(c)
    BY <1>2 DEF push_option_bytes
  <2>5. Readable(push_option_bytes(b), push_option_bytes(c), <<1, b>>, <<1, c>>)
    <3>1. push_bytes(b) \in Seq(Nat) /\ push_bytes(c) \in Seq(Nat)
      BY <1>1
    <3> HIDE DEF push_bytes
    <3>2. Readable(<<1>> \o push_bytes(b), <<1>> \o push_bytes(c), <<1, b>>, <<1, c>>)
      BY <2>1, <2>2, <2>3, <3>1, PairReadable
    <3> QED BY <2>4, <3>2
  <2> QED BY <1>1, <2>5 DEF Readable
<1>3. CASE b = None /\ c = None
  BY <1>1, <1>3, FixedReadable
<1>4. CASE (b = None) # (c = None)
  <2>1. push_option_bytes(b)[1] # push_option_bytes(c)[1]
    BY <1>1, <1>4
  <2> QED BY <1>1, <2>1, FirstKept DEF Readable
<1> QED BY <1>2, <1>3, <1>4

\* The octets of an address, behind its family, which gives their number.
LEMMA IpReadable ==
  ASSUME NEW m \in Networks, NEW n \in Networks
  PROVE  Readable(push_ip(m), push_ip(n), Form[m].octets, Form[n].octets) /\ push_ip(m) \in Seq(Nat)
<1>1. ASSUME NEW k \in Networks
      PROVE  /\ Form[k].octets \in Seq(Nat) /\ Len(Form[k].octets) \in {1, 2}
             /\ push_ip(k) \in Seq(Nat) /\ Len(push_ip(k)) = Len(Form[k].octets) + 1
             /\ push_ip(k)[1] = (IF Len(Form[k].octets) = 1 THEN 4 ELSE 6)
             /\ \A i \in 1 .. Len(Form[k].octets) : push_ip(k)[i + 1] = Form[k].octets[i]
  <2> DEFINE o == Form[k].octets  fam == IF Len(o) = 1 THEN 4 ELSE 6
  <2>1. o \in Seq(Nat) /\ Len(o) \in {1, 2}
    BY FormAssumption
  <2>2. push_ip(k) = <<fam>> \o o
    BY DEF push_ip
  <2>3. fam \in Nat
    OBVIOUS
  <2> HIDE DEF o, fam
  <2>4. <<fam>> \o o \in Seq(Nat) /\ Len(<<fam>> \o o) = Len(o) + 1 /\ (<<fam>> \o o)[1] = fam
    BY <2>1, <2>3
  <2>5. ASSUME NEW i \in 1 .. Len(o) PROVE (<<fam>> \o o)[i + 1] = o[i]
    BY <2>1, <2>3
  <2> QED BY <2>1, <2>2, <2>4, <2>5 DEF o, fam
<1>2. ASSUME NEW u \in Seq(Nat), NEW w \in Seq(Nat), push_ip(m) \o u = push_ip(n) \o w
      PROVE  Form[m].octets = Form[n].octets /\ u = w
  <2> DEFINE o == Form[m].octets  q == Form[n].octets  a == push_ip(m)  b == push_ip(n)
  <2>1. /\ o \in Seq(Nat) /\ Len(o) \in {1, 2} /\ a \in Seq(Nat) /\ Len(a) = Len(o) + 1
        /\ a[1] = (IF Len(o) = 1 THEN 4 ELSE 6) /\ \A i \in 1 .. Len(o) : a[i + 1] = o[i]
    BY <1>1
  <2>2. /\ q \in Seq(Nat) /\ Len(q) \in {1, 2} /\ b \in Seq(Nat) /\ Len(b) = Len(q) + 1
        /\ b[1] = (IF Len(q) = 1 THEN 4 ELSE 6) /\ \A i \in 1 .. Len(q) : b[i + 1] = q[i]
    BY <1>1
  <2>3. a \o u = b \o w
    BY <1>2
  <2> HIDE DEF o, q, a, b
  <2>4. a[1] = b[1]
    <3>1. Len(a) >= 1 /\ Len(b) >= 1
      BY <2>1, <2>2
    <3> QED BY <2>1, <2>2, <2>3, <3>1, FirstKept
  <2>5. Len(o) = Len(q) /\ Len(a) = Len(b)
    BY <2>1, <2>2, <2>4
  <2>6. a = b /\ u = w
    <3>1. a \in Seq(Nat) /\ b \in Seq(Nat) /\ Len(a) = Len(b) /\ a \o u = b \o w
      BY <2>1, <2>2, <2>3, <2>5
    <3> QED BY <3>1, Cancel
  <2>7. \A i \in 1 .. Len(o) : o[i] = q[i]
    BY <2>1, <2>2, <2>5, <2>6
  <2>8. o = q
    BY <2>1, <2>2, <2>5, <2>7, SeqEqual
  <2> QED BY <2>6, <2>8 DEF o, q
<1> QED BY <1>1, <1>2 DEF Readable

\* A network: its address and the prefix length.
LEMMA IpnetReadable ==
  ASSUME NEW m \in Networks, NEW n \in Networks
  PROVE  /\ Readable(push_ip(m) \o <<Form[m].prefix>>, push_ip(n) \o <<Form[n].prefix>>, m, n)
         /\ push_ip(m) \o <<Form[m].prefix>> \in Seq(Nat)
<1>1. \A k \in Networks : /\ Form[k] \in [octets : Seq(Nat), prefix : Nat]
                          /\ <<Form[k].prefix>> \in Seq(Nat) /\ Len(<<Form[k].prefix>>) = 1
  BY FormAssumption
<1>2. Readable(<<Form[m].prefix>>, <<Form[n].prefix>>, Form[m].prefix, Form[n].prefix)
  BY <1>1, FixedReadable
<1>3. push_ip(m) \in Seq(Nat) /\ push_ip(n) \in Seq(Nat)
  BY IpReadable
<1>4. Readable(push_ip(m), push_ip(n), Form[m].octets, Form[n].octets)
  BY IpReadable
<1>5. Readable(push_ip(m) \o <<Form[m].prefix>>, push_ip(n) \o <<Form[n].prefix>>,
               <<Form[m].octets, Form[m].prefix>>, <<Form[n].octets, Form[n].prefix>>)
  <2> HIDE DEF push_ip
  <2> QED BY <1>1, <1>2, <1>3, <1>4, PairReadable
<1>6. ASSUME <<Form[m].octets, Form[m].prefix>> = <<Form[n].octets, Form[n].prefix>> PROVE m = n
  <2>1. Form[m] = Form[n]
    BY <1>1, <1>6
  <2> QED BY <2>1, FormAssumption
<1>7. push_ip(m) \o <<Form[m].prefix>> \in Seq(Nat)
  BY <1>1, <1>3
<1> QED BY <1>5, <1>6, <1>7 DEF Readable

-----------------------------------------------------------------------------
(* Lists of encodings.                                                     *)

\* f holds the sequences of s joined, the first i of them for every i up to n.
Joined(s, f, n) ==
  /\ f \in [0 .. n -> Seq(Nat)]
  /\ f[0] = <<>>
  /\ \A i \in 1 .. n : f[i] = f[i - 1] \o s[i]

\* There is one way to join.
LEMMA JoinedUnique ==
  ASSUME NEW s, NEW m \in Nat, NEW n \in Nat, NEW f, NEW g, Joined(s, f, m), Joined(s, g, n),
         NEW k \in Nat, k <= m, k <= n
  PROVE  f[k] = g[k]
<1> DEFINE T == {i \in Nat : i <= m /\ i <= n /\ f[i] # g[i]}
<1>1. SUFFICES ASSUME T # {} PROVE FALSE
  OBVIOUS
<1>2. PICK x \in T : \A y \in T : x <= y
  <2>1. T \subseteq Nat
    OBVIOUS
  <2> HIDE DEF T
  <2> QED BY <1>1, <2>1, LeastOf
<1>3. x # 0
  BY <1>2 DEF Joined
<1>4. x - 1 \in Nat /\ x \in 1 .. m /\ x \in 1 .. n /\ ~(x <= x - 1)
  BY <1>3
<1>5. f[x - 1] = g[x - 1]
  BY <1>2, <1>4
<1> QED BY <1>4, <1>5 DEF Joined

\* Any number of sequences can be joined.
LEMMA JoinedExists ==
  ASSUME NEW s \in Seq(Seq(Nat)), NEW n \in Nat, n <= Len(s)
  PROVE  \E f : Joined(s, f, n)
<1> DEFINE T == {i \in Nat : i <= Len(s) /\ ~\E f : Joined(s, f, i)}
<1>1. SUFFICES ASSUME T # {} PROVE FALSE
  OBVIOUS
<1>2. PICK x \in T : \A y \in T : x <= y
  <2>1. T \subseteq Nat
    OBVIOUS
  <2> HIDE DEF T
  <2> QED BY <1>1, <2>1, LeastOf
<1>3. x # 0
  <2>1. Joined(s, [i \in 0 .. 0 |-> <<>>], 0)
    BY DEF Joined
  <2> QED BY <2>1
<1>4. x - 1 \in Nat /\ x \in 1 .. Len(s) /\ ~(x <= x - 1) /\ x - 1 <= Len(s) /\ x \in Nat
  BY <1>3
<1>5. PICK f : Joined(s, f, x - 1)
  BY <1>2, <1>4
<1> DEFINE g == [i \in 0 .. x |-> IF i = x THEN f[x - 1] \o s[x] ELSE f[i]]
<1>6. s[x] \in Seq(Nat) /\ f[x - 1] \in Seq(Nat)
  BY <1>4, <1>5 DEF Joined
<1>7. f[x - 1] \o s[x] \in Seq(Nat)
  BY <1>6
<1>8. g \in [0 .. x -> Seq(Nat)]
  BY <1>4, <1>5, <1>7 DEF Joined
<1>9. g[0] = <<>>
  BY <1>3, <1>4, <1>5 DEF Joined
<1>10. ASSUME NEW i \in 1 .. x PROVE g[i] = g[i - 1] \o s[i]
  <2>1. i - 1 \in 0 .. x /\ i - 1 # x /\ i \in 0 .. x
    BY <1>4
  <2>2. g[i - 1] = f[i - 1]
    BY <2>1
  <2>3. CASE i = x
    BY <2>1, <2>2, <2>3
  <2>4. CASE i # x
    <3>1. i \in 1 .. x - 1
      BY <1>4, <2>4
    <3>2. g[i] = f[i]
      BY <2>1, <2>4
    <3>3. f[i] = f[i - 1] \o s[i]
      BY <1>5, <3>1 DEF Joined
    <3> HIDE DEF g
    <3> QED BY <2>2, <3>2, <3>3
  <2> QED BY <2>3, <2>4
<1> HIDE DEF g
<1>11. Joined(s, g, x)
  BY <1>8, <1>9, <1>10 DEF Joined
<1> QED BY <1>2, <1>11

\* FlattenSeq joins all of them.
LEMMA FlattenJoins ==
  ASSUME NEW s \in Seq(Seq(Nat)), NEW g, Joined(s, g, Len(s))
  PROVE  FlattenSeq(s) = g[Len(s)] /\ FlattenSeq(s) \in Seq(Nat)
<1>0. Len(s) \in Nat
  OBVIOUS
<1>3. g[0] = <<>> /\ g \in [0 .. Len(s) -> Seq(Nat)]
  BY DEF Joined
<1>4. ASSUME NEW i \in 1 .. Len(s)
      PROVE  /\ s[i] \in Seq(Nat) /\ g[i] = g[i - 1] \o s[i]
             /\ i = 1 => g[i] = s[i]
  <2>1. s[i] \in Seq(Nat)
    BY <1>4
  <2>2. g[i] = g[i - 1] \o s[i]
    BY DEF Joined
  <2>3. <<>> \o s[i] = s[i]
    BY <2>1
  <2>4. i = 1 => i - 1 = 0
    OBVIOUS
  <2> QED BY <1>3, <2>1, <2>2, <2>3, <2>4
<1>1. CASE Len(s) = 0
  <2>1. s = <<>>
    BY <1>1
  <2> QED BY <1>1, <2>1 DEF FlattenSeq, Joined
<1>2. CASE Len(s) # 0
  <2> DEFINE n == Len(s)  e == [i \in 1 .. n |-> g[i]]
             h == CHOOSE f : f = [i \in 1 .. n |-> IF i = 1 THEN s[i] ELSE f[i - 1] \o s[i]]
  <2>1. e = [i \in 1 .. n |-> IF i = 1 THEN s[i] ELSE e[i - 1] \o s[i]]
    <3>1. ASSUME NEW i \in 1 .. n PROVE g[i] = IF i = 1 THEN s[i] ELSE e[i - 1] \o s[i]
      <4>1. s[i] \in Seq(Nat) /\ g[i] = g[i - 1] \o s[i]
        BY <1>4
      <4>2. CASE i = 1
        BY <1>4, <4>2
      <4>3. CASE i # 1
        <5>1. i - 1 \in 1 .. n
          BY <1>0, <4>3
        <5> QED BY <4>1, <4>3, <5>1
      <4> QED BY <4>2, <4>3
    <3> QED BY <3>1
  <2>2. h = [i \in 1 .. n |-> IF i = 1 THEN s[i] ELSE h[i - 1] \o s[i]]
    <3> HIDE DEF e
    <3> QED BY <2>1, Zenon
  <2>3. FlattenSeq(s) = h[Len(s)]
    BY <1>2, Zenon DEF FlattenSeq
  <2> HIDE DEF h
  <2> DEFINE k == [i \in 0 .. n |-> IF i = 0 THEN <<>> ELSE h[i]]
  <2>4. ASSUME NEW i \in Nat, i <= n PROVE k[i] = g[i]
    <3> DEFINE T == {j \in Nat : j <= n /\ k[j] # g[j]}
    <3>1. SUFFICES ASSUME T # {} PROVE FALSE
      BY <2>4
    <3>2. PICK x \in T : \A y \in T : x <= y
      <4>1. T \subseteq Nat
        OBVIOUS
      <4> HIDE DEF T
      <4> QED BY <3>1, <4>1, LeastOf
    <3>3. x # 0
      BY <1>0, <3>2 DEF Joined
    <3>4. x \in 1 .. n /\ x - 1 \in Nat /\ x - 1 <= n /\ ~(x <= x - 1) /\ x \in 0 .. n
      BY <1>0, <3>3
    <3>5. k[x - 1] = g[x - 1] /\ k[x] = h[x]
      BY <1>0, <3>2, <3>3, <3>4
    <3>6. g[x] = g[x - 1] \o s[x] /\ (x = 1 => g[x] = s[x])
      BY <1>4, <3>4
    <3>7. h[x] = IF x = 1 THEN s[x] ELSE h[x - 1] \o s[x]
      BY <2>2, <3>4
    <3>8. CASE x = 1
      <4> HIDE DEF k
      <4> QED BY <3>2, <3>5, <3>6, <3>7, <3>8
    <3>9. CASE x # 1
      <4>1. k[x - 1] = h[x - 1]
        BY <1>0, <3>4, <3>9
      <4> HIDE DEF k
      <4> QED BY <3>2, <3>5, <3>6, <3>7, <3>9, <4>1
    <3> QED BY <3>8, <3>9
  <2>5. k[n] = h[n]
    BY <1>0, <1>2
  <2>6. g[n] \in Seq(Nat)
    BY <1>0 DEF Joined
  <2> HIDE DEF k
  <2> QED BY <1>0, <2>3, <2>4, <2>5, <2>6
<1> QED BY <1>1, <1>2

\* Joining nothing, and joining one more.
LEMMA FlattenAppend ==
  ASSUME NEW s \in Seq(Seq(Nat)), NEW x \in Seq(Nat)
  PROVE  FlattenSeq(Append(s, x)) = FlattenSeq(s) \o x /\ FlattenSeq(s) \in Seq(Nat)
<1> DEFINE n == Len(s)  t == Append(s, x)
<1>1. /\ t \in Seq(Seq(Nat)) /\ Len(t) = n + 1 /\ n \in Nat /\ t[n + 1] = x
      /\ n = Len(s) /\ n <= Len(s) /\ n + 1 \in Nat /\ n + 1 <= Len(t) /\ n <= n + 1 /\ n <= n
      /\ \A i \in 1 .. n : t[i] = s[i]
  OBVIOUS
<1> HIDE DEF t, n
<1>2. PICK f : Joined(s, f, n)
  BY <1>1, JoinedExists
<1>3. PICK g : Joined(t, g, n + 1)
  BY <1>1, JoinedExists
<1>4. Joined(t, f, n)
  BY <1>1, <1>2 DEF Joined
<1>5. f[n] = g[n]
  <2> DEFINE m == n + 1
  <2>1. Joined(t, g, m) /\ m \in Nat /\ n <= m
    BY <1>1, <1>3
  <2> HIDE DEF m
  <2>2. n \in Nat /\ m \in Nat /\ n <= m /\ Joined(t, f, n) /\ Joined(t, g, m)
    BY <1>1, <1>4, <2>1
  <2> QED BY <2>2, JoinedUnique
<1>6. g[n + 1] = g[n] \o x
  <2>1. \A i \in 1 .. n + 1 : g[i] = g[i - 1] \o t[i]
    BY <1>3 DEF Joined
  <2>2. n + 1 \in 1 .. n + 1 /\ (n + 1) - 1 = n
    BY <1>1
  <2> QED BY <1>1, <2>1, <2>2
<1>7. FlattenSeq(s) = f[n] /\ FlattenSeq(s) \in Seq(Nat)
  BY <1>1, <1>2, FlattenJoins
<1>8. FlattenSeq(t) = g[n + 1]
  BY <1>1, <1>3, FlattenJoins
<1> QED BY <1>5, <1>6, <1>7, <1>8 DEF t

\* With x behind the whole list s, some text is behind its first i sequences.
Continued(s, f, x, i) == \E r \in Seq(Nat) : f[Len(s)] \o x = f[i] \o r

\* The sequences that come later are that text.
LEMMA JoinedRest ==
  ASSUME NEW s \in Seq(Seq(Nat)), NEW f, Joined(s, f, Len(s)), NEW x \in Seq(Nat),
         NEW i \in Nat, i <= Len(s)
  PROVE  Continued(s, f, x, i)
<1> DEFINE n == Len(s)
           T == {k \in Nat : k <= n /\ ~\E r \in Seq(Nat) : f[n] \o x = f[n - k] \o r}
<1>0. n \in Nat
  OBVIOUS
<1>1. ASSUME T # {} PROVE FALSE
  <2>1. PICK k \in T : \A y \in T : k <= y
    <3>1. T \subseteq Nat
      OBVIOUS
    <3> HIDE DEF T
    <3> QED BY <1>1, <3>1, LeastOf
  <2>2. k # 0
    <3>1. n - 0 = n
      BY <1>0
    <3> QED BY <2>1, <3>1
  <2>3. k - 1 \in Nat /\ k - 1 <= n /\ ~(k <= k - 1) /\ n - (k - 1) \in 1 .. n
        /\ (n - (k - 1)) - 1 = n - k /\ n - k \in 0 .. n
    BY <1>0, <2>2
  <2> DEFINE j == n - (k - 1)
  <2>4. PICK r \in Seq(Nat) : f[n] \o x = f[j] \o r
    BY <2>1, <2>3
  <2>5. s[j] \in Seq(Nat) /\ f[n - k] \in Seq(Nat) /\ f[j] = f[n - k] \o s[j]
    <3>1. j \in 1 .. n /\ j - 1 = n - k
      BY <2>3
    <3> HIDE DEF j
    <3>2. f[j] = f[j - 1] \o s[j]
      BY <3>1 DEF Joined
    <3>3. f[n - k] \in Seq(Nat)
      BY <2>3 DEF Joined
    <3>4. s[j] \in Seq(Nat)
      BY <3>1
    <3> HIDE DEF n
    <3> QED BY <3>1, <3>2, <3>3, <3>4
  <2> HIDE DEF j
  <2>6. (f[n - k] \o s[j]) \o r = f[n - k] \o (s[j] \o r)
    BY <2>5, JoinAssociates, ZenonT(60)
  <2>7. s[j] \o r \in Seq(Nat)
    BY <2>5
  <2>8. f[n] \o x = f[n - k] \o (s[j] \o r)
    BY <2>4, <2>5, <2>6
  <2> QED BY <2>1, <2>7, <2>8
<1>2. n - i \in Nat /\ n - i <= n /\ n - (n - i) = i
  BY <1>0
<1>3. n - i \notin T
  BY <1>1
<1>4. \E r \in Seq(Nat) : f[n] \o x = f[i] \o r
  BY <1>2, <1>3
<1> QED BY <1>4 DEF Continued

\* The elements of s and t stand for those of a and b; a and b agree on that length.
AllReadable(s, t, a, b) == \A i \in 1 .. Len(s) : Readable(s[i], t[i], a[i], b[i])

Agree(n, a, b) == \A i \in 1 .. n : a[i] = b[i]

\* The lists joined, with something behind each, make one text.
SameText(s, u, t, w) == FlattenSeq(s) \o u = FlattenSeq(t) \o w

\* A list of readable encodings is readable, once its length is known.
LEMMA ListReadable ==
  ASSUME NEW s \in Seq(Seq(Nat)), NEW t \in Seq(Seq(Nat)), Len(s) = Len(t),
         NEW a, NEW b, AllReadable(s, t, a, b),
         NEW u \in Seq(Nat), NEW w \in Seq(Nat), SameText(s, u, t, w)
  PROVE  u = w /\ Agree(Len(s), a, b)
<1> DEFINE n == Len(s)
<1>0. /\ n \in Nat /\ n = Len(s) /\ n = Len(t) /\ n <= Len(s) /\ n <= Len(t)
      /\ \A i \in 1 .. n : s[i] \in Seq(Nat) /\ t[i] \in Seq(Nat)
  OBVIOUS
<1> HIDE DEF n
<1>1. PICK f : Joined(s, f, n)
  BY <1>0, JoinedExists
<1>2. PICK g : Joined(t, g, n)
  BY <1>0, JoinedExists
<1>3. f[n] \o u = g[n] \o w
  <2>1. FlattenSeq(s) = f[n] /\ FlattenSeq(t) = g[n]
    BY <1>0, <1>1, <1>2, FlattenJoins
  <2> QED BY <2>1 DEF SameText
<1>4. \A i \in 0 .. n : f[i] \in Seq(Nat) /\ g[i] \in Seq(Nat)
  BY <1>1, <1>2 DEF Joined
<1>5. ASSUME NEW i \in 1 .. n, f[i - 1] = g[i - 1]
      PROVE  f[i] = g[i] /\ a[i] = b[i]
  <2>0. i \in Nat /\ i <= n /\ i <= Len(s) /\ i <= Len(t) /\ i - 1 \in 0 .. n
    BY <1>0
  <2>1. PICK r \in Seq(Nat) : f[n] \o u = f[i] \o r
    <3>1. Joined(s, f, Len(s)) /\ i \in Nat /\ i <= Len(s)
      BY <1>0, <1>1, <2>0
    <3>2. Continued(s, f, u, i)
      BY <3>1, JoinedRest
    <3> QED BY <1>0, <3>2 DEF Continued
  <2>2. PICK q \in Seq(Nat) : g[n] \o w = g[i] \o q
    <3>1. Joined(t, g, Len(t)) /\ i \in Nat /\ i <= Len(t)
      BY <1>0, <1>2, <2>0
    <3>2. Continued(t, g, w, i)
      BY <3>1, JoinedRest
    <3> QED BY <1>0, <3>2 DEF Continued
  <2> DEFINE e == f[i - 1]
  <2>3. f[i] = e \o s[i] /\ g[i] = e \o t[i] /\ e \in Seq(Nat)
    BY <1>1, <1>2, <1>4, <1>5, <2>0 DEF Joined
  <2> HIDE DEF e
  <2>4. (e \o s[i]) \o r = e \o (s[i] \o r)
    BY <1>0, <2>3, JoinAssociates, ZenonT(60)
  <2>5. (e \o t[i]) \o q = e \o (t[i] \o q)
    BY <1>0, <2>3, JoinAssociates, ZenonT(60)
  <2>6. s[i] \o r \in Seq(Nat) /\ t[i] \o q \in Seq(Nat)
    BY <1>0
  <2>7. e \o (s[i] \o r) = e \o (t[i] \o q)
    BY <1>3, <2>1, <2>2, <2>3, <2>4, <2>5
  <2>8. s[i] \o r = t[i] \o q
    BY <2>3, <2>6, <2>7, JoinCancels
  <2>9. a[i] = b[i] /\ r = q
    BY <1>0, <2>8 DEF Readable, AllReadable
  <2>10. e \o s[i] = e \o t[i]
    <3>1. (e \o s[i]) \o r = (e \o t[i]) \o r
      BY <2>4, <2>5, <2>7, <2>9
    <3>2. e \o s[i] \in Seq(Nat) /\ e \o t[i] \in Seq(Nat)
      BY <1>0, <2>3
    <3>3. Len(e \o s[i]) = Len(e \o t[i])
      <4>1. Len((e \o s[i]) \o r) = Len(e \o s[i]) + Len(r)
        BY <3>2, ConcatProperties
      <4>2. Len((e \o t[i]) \o r) = Len(e \o t[i]) + Len(r)
        BY <3>2, ConcatProperties
      <4>3. Len(e \o s[i]) \in Nat /\ Len(e \o t[i]) \in Nat /\ Len(r) \in Nat
        BY <3>2
      <4> DEFINE k == Len(e \o s[i])  l == Len(e \o t[i])
      <4>4. k + Len(r) = l + Len(r)
        BY <3>1, <4>1, <4>2
      <4> HIDE DEF k, l
      <4>5. k \in Nat /\ l \in Nat /\ Len(r) \in Nat
        BY <4>3 DEF k, l
      <4>6. k = l
        BY <4>4, <4>5
      <4> QED BY <4>6 DEF k, l
    <3> DEFINE x == e \o s[i]  y == e \o t[i]
    <3> HIDE DEF x, y
    <3>4. x \in Seq(Nat) /\ y \in Seq(Nat) /\ Len(x) = Len(y) /\ x \o r = y \o r
      BY <3>1, <3>2, <3>3 DEF x, y
    <3>5. x = y
      BY <3>4, Cancel
    <3> QED BY <3>5 DEF x, y
  <2> QED BY <2>3, <2>9, <2>10
<1>6. ASSUME NEW i \in Nat, i <= n PROVE f[i] = g[i]
  <2> DEFINE T == {j \in Nat : j <= n /\ f[j] # g[j]}
  <2>1. SUFFICES ASSUME T # {} PROVE FALSE
    BY <1>6
  <2>2. PICK x \in T : \A y \in T : x <= y
    <3>1. T \subseteq Nat
      OBVIOUS
    <3> HIDE DEF T
    <3> QED BY <2>1, <3>1, LeastOf
  <2>3. x # 0
    BY <1>1, <1>2, <2>2 DEF Joined
  <2>4. x - 1 \in Nat /\ x - 1 <= n /\ x \in 1 .. n /\ ~(x <= x - 1)
    BY <1>0, <2>3
  <2> QED BY <1>5, <2>2, <2>4
<1>7. \A i \in 1 .. n : a[i] = b[i]
  <2>1. \A i \in 1 .. n : i - 1 \in Nat /\ i - 1 <= n
    BY <1>0
  <2> QED BY <1>5, <1>6, <2>1
<1>8. u = w
  <2>1. f[n] = g[n] /\ f[n] \in Seq(Nat)
    BY <1>0, <1>4, <1>6
  <2> QED BY <1>3, <2>1, JoinCancels
<1> QED BY <1>0, <1>7, <1>8 DEF Agree

\* A list behind its length: a[i] and b[i] are what the i-th encodings stand for, and the
\* lists stand for x and y.
LEMMA CountedReadable ==
  ASSUME NEW s \in Seq(Seq(Nat)), NEW t \in Seq(Seq(Nat)), Len(s) \in U32, Len(t) \in U32,
         NEW a, NEW b,
         Len(s) = Len(t) => AllReadable(s, t, a, b),
         NEW x, NEW y, Len(s) = Len(t) /\ Agree(Len(s), a, b) => x = y
  PROVE  /\ Readable(push_u32(Len(s)) \o FlattenSeq(s), push_u32(Len(t)) \o FlattenSeq(t), x, y)
         /\ push_u32(Len(s)) \o FlattenSeq(s) \in Seq(Nat)
<1> DEFINE g == push_u32(Len(s))  h == push_u32(Len(t))  j == FlattenSeq(s)  k == FlattenSeq(t)
<1>1. g \in Seq(Nat) /\ h \in Seq(Nat) /\ Readable(g, h, Len(s), Len(t))
  BY U32Readable
<1>2. j \in Seq(Nat) /\ k \in Seq(Nat)
  <2>1. ASSUME NEW l \in Seq(Seq(Nat)) PROVE FlattenSeq(l) \in Seq(Nat)
    <3>1. <<>> \in Seq(Nat)
      OBVIOUS
    <3> QED BY <3>1, FlattenAppend
  <2> QED BY <2>1
<1> HIDE DEF g, h, j, k
<1>3. ASSUME NEW u \in Seq(Nat), NEW w \in Seq(Nat), (g \o j) \o u = (h \o k) \o w
      PROVE  x = y /\ u = w
  <2>1. (g \o j) \o u = g \o (j \o u)
    BY <1>1, <1>2, JoinAssociates, ZenonT(60)
  <2>2. (h \o k) \o w = h \o (k \o w)
    BY <1>1, <1>2, JoinAssociates, ZenonT(60)
  <2>3. j \o u \in Seq(Nat) /\ k \o w \in Seq(Nat)
    BY <1>2
  <2>4. Len(s) = Len(t) /\ j \o u = k \o w
    BY <1>1, <1>3, <2>1, <2>2, <2>3 DEF Readable
  <2>5. Len(s) = Len(t) /\ SameText(s, u, t, w) /\ AllReadable(s, t, a, b)
    BY <2>4 DEF j, k, SameText
  <2>6. u = w /\ Agree(Len(s), a, b)
    BY <2>5, ListReadable
  <2> QED BY <2>4, <2>6
<1>4. g \o j \in Seq(Nat)
  BY <1>1, <1>2
<1>5. Readable(g \o j, h \o k, x, y)
  BY <1>3 DEF Readable
<1> QED BY <1>4, <1>5 DEF g, h, j, k

\* The DNS servers.
LEMMA IpsReadable ==
  ASSUME NEW x \in Seq(Addresses), NEW y \in Seq(Addresses), Len(x) \in U32, Len(y) \in U32
  PROVE  Readable(push_ips(x), push_ips(y), x, y) /\ push_ips(x) \in Seq(Nat)
<1> DEFINE s == [i \in DOMAIN x |-> push_ip(x[i])]  a == [i \in DOMAIN x |-> Form[x[i]].octets]
           t == [i \in DOMAIN y |-> push_ip(y[i])]  b == [i \in DOMAIN y |-> Form[y[i]].octets]
<1>1. /\ DOMAIN x = 1 .. Len(x) /\ Len(x) \in Nat /\ DOMAIN y = 1 .. Len(y) /\ Len(y) \in Nat
      /\ \A i \in 1 .. Len(x) : x[i] \in Addresses
      /\ \A i \in 1 .. Len(y) : y[i] \in Addresses
  OBVIOUS
<1>2. \A n \in Addresses : n \in Networks /\ push_ip(n) \in Seq(Nat)
  BY FormAssumption, IpReadable
<1>3. /\ s \in Seq(Seq(Nat)) /\ Len(s) = Len(x) /\ t \in Seq(Seq(Nat)) /\ Len(t) = Len(y)
      /\ \A i \in 1 .. Len(x) : s[i] = push_ip(x[i]) /\ a[i] = Form[x[i]].octets
      /\ \A i \in 1 .. Len(y) : t[i] = push_ip(y[i]) /\ b[i] = Form[y[i]].octets
  <2> HIDE DEF push_ip
  <2> QED BY <1>1, <1>2
<1>4. push_ips(x) = push_u32(Len(s)) \o FlattenSeq(s) /\ push_ips(y) = push_u32(Len(t)) \o FlattenSeq(t)
  BY <1>3 DEF push_ips
<1> HIDE DEF s, t, a, b
<1>5. ASSUME Len(s) = Len(t) PROVE AllReadable(s, t, a, b)
  <2> SUFFICES ASSUME NEW i \in 1 .. Len(s) PROVE Readable(s[i], t[i], a[i], b[i])
    BY DEF AllReadable
  <2>1. /\ s[i] = push_ip(x[i]) /\ a[i] = Form[x[i]].octets /\ t[i] = push_ip(y[i])
        /\ b[i] = Form[y[i]].octets /\ x[i] \in Networks /\ y[i] \in Networks
    BY <1>1, <1>2, <1>3, <1>5
  <2> QED BY <2>1, IpReadable
<1>6. ASSUME Len(s) = Len(t), Agree(Len(s), a, b) PROVE x = y
  <2>1. ASSUME NEW i \in 1 .. Len(x) PROVE x[i] = y[i]
    <3>1. x[i] \in Addresses /\ y[i] \in Addresses /\ Form[x[i]].octets = Form[y[i]].octets
      BY <1>1, <1>3, <1>6 DEF Agree
    <3> QED BY <3>1, FormAssumption
  <2>2. Len(x) = Len(y)
    BY <1>3, <1>6
  <2> QED BY <1>1, <2>1, <2>2, SeqEqual
<1> QED BY <1>3, <1>4, <1>5, <1>6, CountedReadable

\* The addresses and the allowed networks.
LEMMA IpnetsReadable ==
  ASSUME NEW x \in Seq(Networks), NEW y \in Seq(Networks), Len(x) \in U32, Len(y) \in U32
  PROVE  Readable(push_ipnets(x), push_ipnets(y), x, y) /\ push_ipnets(x) \in Seq(Nat)
<1> DEFINE e(n) == push_ip(n) \o <<Form[n].prefix>>
           s == [i \in DOMAIN x |-> e(x[i])]
           t == [i \in DOMAIN y |-> e(y[i])]
<1>1. /\ DOMAIN x = 1 .. Len(x) /\ Len(x) \in Nat /\ DOMAIN y = 1 .. Len(y) /\ Len(y) \in Nat
      /\ \A i \in 1 .. Len(x) : x[i] \in Networks
      /\ \A i \in 1 .. Len(y) : y[i] \in Networks
  OBVIOUS
<1>4. push_ipnets(x) = push_u32(Len(x)) \o FlattenSeq(s) /\ push_ipnets(y) = push_u32(Len(y)) \o FlattenSeq(t)
  BY DEF push_ipnets
<1>2. ASSUME NEW m \in Networks, NEW n \in Networks PROVE e(n) \in Seq(Nat) /\ Readable(e(m), e(n), m, n)
  BY IpnetReadable
<1> HIDE DEF e
<1>3. /\ s \in Seq(Seq(Nat)) /\ Len(s) = Len(x) /\ t \in Seq(Seq(Nat)) /\ Len(t) = Len(y)
      /\ \A i \in 1 .. Len(x) : s[i] = e(x[i])
      /\ \A i \in 1 .. Len(y) : t[i] = e(y[i])
  BY <1>1, <1>2
<1> HIDE DEF s, t
<1>5. ASSUME Len(s) = Len(t) PROVE AllReadable(s, t, x, y)
  <2> SUFFICES ASSUME NEW i \in 1 .. Len(s) PROVE Readable(s[i], t[i], x[i], y[i])
    BY DEF AllReadable
  <2>1. s[i] = e(x[i]) /\ t[i] = e(y[i]) /\ x[i] \in Networks /\ y[i] \in Networks
    BY <1>1, <1>3, <1>5
  <2> QED BY <1>2, <2>1
<1>6. ASSUME Len(s) = Len(t), Agree(Len(s), x, y) PROVE x = y
  <2>2. Len(x) = Len(y)
    BY <1>3, <1>6
  <2> QED BY <1>1, <1>3, <1>6, <2>2, SeqEqual DEF Agree
<1> QED BY <1>3, <1>4, <1>5, <1>6, CountedReadable

\* The hooks of one kind.
LEMMA StringsReadable ==
  ASSUME NEW x \in Seq(Seq(Nat)), NEW y \in Seq(Seq(Nat)), Len(x) \in U32, Len(y) \in U32,
         \A i \in 1 .. Len(x) : Len(x[i]) \in U32, \A i \in 1 .. Len(y) : Len(y[i]) \in U32
  PROVE  Readable(push_strings(x), push_strings(y), x, y) /\ push_strings(x) \in Seq(Nat)
<1> DEFINE s == [i \in DOMAIN x |-> push_bytes(x[i])]
           t == [i \in DOMAIN y |-> push_bytes(y[i])]
<1>1. /\ DOMAIN x = 1 .. Len(x) /\ Len(x) \in Nat /\ DOMAIN y = 1 .. Len(y) /\ Len(y) \in Nat
      /\ \A i \in 1 .. Len(x) : x[i] \in Seq(Nat) /\ Len(x[i]) \in U32
      /\ \A i \in 1 .. Len(y) : y[i] \in Seq(Nat) /\ Len(y[i]) \in U32
  OBVIOUS
<1>4. push_strings(x) = push_u32(Len(x)) \o FlattenSeq(s) /\ push_strings(y) = push_u32(Len(y)) \o FlattenSeq(t)
  BY DEF push_strings
<1>2. ASSUME NEW b \in Seq(Nat), NEW c \in Seq(Nat), Len(b) \in U32, Len(c) \in U32
      PROVE  push_bytes(b) \in Seq(Nat) /\ Readable(push_bytes(b), push_bytes(c), b, c)
  BY <1>2, BytesReadable
<1> HIDE DEF push_bytes
<1>3. /\ s \in Seq(Seq(Nat)) /\ Len(s) = Len(x) /\ t \in Seq(Seq(Nat)) /\ Len(t) = Len(y)
      /\ \A i \in 1 .. Len(x) : s[i] = push_bytes(x[i])
      /\ \A i \in 1 .. Len(y) : t[i] = push_bytes(y[i])
  BY <1>1, <1>2
<1> HIDE DEF s, t
<1>5. ASSUME Len(s) = Len(t) PROVE AllReadable(s, t, x, y)
  <2> SUFFICES ASSUME NEW i \in 1 .. Len(s) PROVE Readable(s[i], t[i], x[i], y[i])
    BY DEF AllReadable
  <2>1. /\ s[i] = push_bytes(x[i]) /\ t[i] = push_bytes(y[i]) /\ x[i] \in Seq(Nat)
        /\ y[i] \in Seq(Nat) /\ Len(x[i]) \in U32 /\ Len(y[i]) \in U32
    BY <1>1, <1>3, <1>5
  <2> QED BY <1>2, <2>1
<1>6. ASSUME Len(s) = Len(t), Agree(Len(s), x, y) PROVE x = y
  <2>2. Len(x) = Len(y)
    BY <1>3, <1>6
  <2> QED BY <1>1, <1>3, <1>6, <2>2, SeqEqual DEF Agree
<1> QED BY <1>3, <1>4, <1>5, <1>6, CountedReadable

\* What the encoding of a peer stands for: all of it but the resolved address.
PeerParts(q) ==
  <<<<<<<<q.public_key, q.preshared_key>>, q.allowed_ips>>, q.endpoint_literal>>,
    q.persistent_keepalive>>

\* The length of a field that is not longer than four bytes can say.
MaxLength == 4294967295

\* A peer.
LEMMA PeerReadable ==
  ASSUME NEW q \in Peer, NEW r \in Peer, SizedPeer(q, MaxLength), SizedPeer(r, MaxLength)
  PROVE  /\ Readable(push_peer(q), push_peer(r), PeerParts(q), PeerParts(r))
         /\ push_peer(q) \in Seq(Nat)
<1>1. ASSUME NEW s \in Peer, SizedPeer(s, MaxLength)
      PROVE  /\ s.public_key \in Seq(Nat) /\ Len(s.public_key) \in U32
             /\ s.preshared_key \in Seq(Nat) /\ Len(s.preshared_key) \in U32
             /\ s.allowed_ips \in Seq(Networks) /\ Len(s.allowed_ips) \in U32
             /\ s.endpoint_literal \in Seq(Nat) /\ Len(s.endpoint_literal) \in U32
             /\ s.persistent_keepalive \in U16Option
  <2>1. /\ s.public_key \in Seq(Nat) /\ s.preshared_key \in Seq(Nat)
        /\ s.allowed_ips \in Seq(Networks) /\ s.endpoint_literal \in Seq(Nat)
        /\ s.persistent_keepalive \in U16Option
    BY DEF Peer, Values
  <2>2. /\ Len(s.public_key) <= 4294967295 /\ Len(s.preshared_key) <= 4294967295
        /\ Len(s.allowed_ips) <= 4294967295 /\ Len(s.endpoint_literal) <= 4294967295
    BY <1>1 DEF SizedPeer, MaxLength
  <2> QED BY <2>1, <2>2 DEF U32
<1> DEFINE a(s) == push_bytes(s.public_key)  b(s) == push_option_bytes(s.preshared_key)
           c(s) == push_ipnets(s.allowed_ips)  d(s) == push_option_bytes(s.endpoint_literal)
           e(s) == push_option_u16(s.persistent_keepalive)
<1>2. ASSUME NEW s \in {q, r}
      PROVE  a(s) \in Seq(Nat) /\ b(s) \in Seq(Nat) /\ c(s) \in Seq(Nat) /\ d(s) \in Seq(Nat)
             /\ e(s) \in Seq(Nat)
  <2>1. s \in Peer /\ SizedPeer(s, MaxLength)
    OBVIOUS
  <2> QED BY <1>1, <2>1, BytesReadable, OptionBytesReadable, IpnetsReadable, OptionU16Readable
<1>3. /\ Readable(a(q), a(r), q.public_key, r.public_key)
      /\ Readable(b(q), b(r), q.preshared_key, r.preshared_key)
      /\ Readable(c(q), c(r), q.allowed_ips, r.allowed_ips)
      /\ Readable(d(q), d(r), q.endpoint_literal, r.endpoint_literal)
      /\ Readable(e(q), e(r), q.persistent_keepalive, r.persistent_keepalive)
  BY <1>1, BytesReadable, OptionBytesReadable, IpnetsReadable, OptionU16Readable
<1>4. push_peer(q) = (((a(q) \o b(q)) \o c(q)) \o d(q)) \o e(q)
  BY DEF push_peer
<1>5. push_peer(r) = (((a(r) \o b(r)) \o c(r)) \o d(r)) \o e(r)
  BY DEF push_peer
<1> HIDE DEF a, b, c, d, e
<1>6. ASSUME NEW s \in {q, r}
      PROVE  /\ a(s) \o b(s) \in Seq(Nat) /\ (a(s) \o b(s)) \o c(s) \in Seq(Nat)
             /\ ((a(s) \o b(s)) \o c(s)) \o d(s) \in Seq(Nat)
             /\ (((a(s) \o b(s)) \o c(s)) \o d(s)) \o e(s) \in Seq(Nat)
  <2>1. a(s) \in Seq(Nat) /\ b(s) \in Seq(Nat) /\ c(s) \in Seq(Nat) /\ d(s) \in Seq(Nat)
        /\ e(s) \in Seq(Nat)
    BY <1>2
  <2>2. a(s) \o b(s) \in Seq(Nat)
    BY <2>1
  <2>3. (a(s) \o b(s)) \o c(s) \in Seq(Nat)
    BY <2>1, <2>2
  <2>4. ((a(s) \o b(s)) \o c(s)) \o d(s) \in Seq(Nat)
    BY <2>1, <2>3
  <2>5. (((a(s) \o b(s)) \o c(s)) \o d(s)) \o e(s) \in Seq(Nat)
    BY <2>1, <2>4
  <2> QED BY <2>2, <2>3, <2>4, <2>5
<1>7. Readable(a(q) \o b(q), a(r) \o b(r), <<q.public_key, q.preshared_key>>,
                                          <<r.public_key, r.preshared_key>>)
  BY <1>2, <1>3, PairReadable
<1>8. Readable((a(q) \o b(q)) \o c(q), (a(r) \o b(r)) \o c(r),
               <<<<q.public_key, q.preshared_key>>, q.allowed_ips>>,
               <<<<r.public_key, r.preshared_key>>, r.allowed_ips>>)
  BY <1>2, <1>3, <1>6, <1>7, PairReadable
<1>9. Readable(((a(q) \o b(q)) \o c(q)) \o d(q), ((a(r) \o b(r)) \o c(r)) \o d(r),
               <<<<<<q.public_key, q.preshared_key>>, q.allowed_ips>>, q.endpoint_literal>>,
               <<<<<<r.public_key, r.preshared_key>>, r.allowed_ips>>, r.endpoint_literal>>)
  BY <1>2, <1>3, <1>6, <1>8, PairReadable
<1>10. Readable((((a(q) \o b(q)) \o c(q)) \o d(q)) \o e(q), (((a(r) \o b(r)) \o c(r)) \o d(r)) \o e(r),
                PeerParts(q), PeerParts(r))
  BY <1>2, <1>3, <1>6, <1>9, PairReadable DEF PeerParts
<1> QED BY <1>4, <1>5, <1>6, <1>10

\* What the encoding of a configuration stands for.
ConfigParts(c) ==
  <<<<<<<<<<<<<<<<c.private_key, c.address>>, c.dns>>, c.mtu>>, c.hooks["preup"]>>,
    c.hooks["postup"]>>, c.hooks["predown"]>>, c.hooks["postdown"]>>,
    [i \in DOMAIN c.peers |-> PeerParts(c.peers[i])]>>

\* The peers of a configuration, behind their number.
PeersText(c) == push_u32(Len(c.peers)) \o FlattenSeq([i \in DOMAIN c.peers |-> push_peer(c.peers[i])])

\* Both halves of it are byte strings.
LEMMA PeersJoin ==
  ASSUME NEW c \in State, Sized(c, MaxLength)
  PROVE  /\ push_u32(Len(c.peers)) \in Seq(Nat)
         /\ FlattenSeq([i \in DOMAIN c.peers |-> push_peer(c.peers[i])]) \in Seq(Nat)
<1> DEFINE x == c.peers  s == [i \in DOMAIN x |-> push_peer(x[i])]
<1>1. x \in Seq(Peer) /\ Len(x) <= MaxLength /\ \A i \in DOMAIN x : SizedPeer(x[i], MaxLength)
  BY DEF State, Sized
<1> HIDE DEF x
<1>2. DOMAIN x = 1 .. Len(x) /\ Len(x) \in Nat /\ \A i \in 1 .. Len(x) : x[i] \in Peer
  BY <1>1
<1>3. ASSUME NEW q \in Peer, SizedPeer(q, MaxLength) PROVE push_peer(q) \in Seq(Nat)
  BY <1>3, PeerReadable
<1>4. s \in Seq(Seq(Nat))
  BY <1>1, <1>2, <1>3
<1>5. Len(x) \in U32
  BY <1>1, <1>2 DEF U32, MaxLength
<1> HIDE DEF s
<1>6. <<>> \in Seq(Nat)
  OBVIOUS
<1>7. FlattenSeq(s) \in Seq(Nat) /\ push_u32(Len(x)) \in Seq(Nat)
  BY <1>4, <1>5, <1>6, FlattenAppend, U32Readable
<1> QED BY <1>7 DEF s, x

\* The list of peers.
LEMMA PeersReadable ==
  ASSUME NEW c \in State, NEW d \in State, Sized(c, MaxLength), Sized(d, MaxLength)
  PROVE  /\ Readable(PeersText(c), PeersText(d), [i \in DOMAIN c.peers |-> PeerParts(c.peers[i])],
                     [i \in DOMAIN d.peers |-> PeerParts(d.peers[i])])
         /\ PeersText(c) \in Seq(Nat)
<1> DEFINE x == c.peers  s == [i \in DOMAIN x |-> push_peer(x[i])]  a == [i \in DOMAIN x |-> PeerParts(x[i])]
           y == d.peers  t == [i \in DOMAIN y |-> push_peer(y[i])]  b == [i \in DOMAIN y |-> PeerParts(y[i])]
<1>1. x \in Seq(Peer) /\ y \in Seq(Peer)
  BY DEF State
<1>2. /\ Len(x) <= MaxLength /\ \A i \in DOMAIN x : SizedPeer(x[i], MaxLength)
      /\ Len(y) <= MaxLength /\ \A i \in DOMAIN y : SizedPeer(y[i], MaxLength)
  BY DEF Sized
<1>3. PeersText(c) = push_u32(Len(x)) \o FlattenSeq(s) /\ PeersText(d) = push_u32(Len(y)) \o FlattenSeq(t)
  BY DEF PeersText
<1> HIDE DEF x, y
<1>4. /\ DOMAIN x = 1 .. Len(x) /\ Len(x) \in Nat /\ DOMAIN y = 1 .. Len(y) /\ Len(y) \in Nat
      /\ \A i \in 1 .. Len(x) : x[i] \in Peer
      /\ \A i \in 1 .. Len(y) : y[i] \in Peer
  BY <1>1
<1>5. Len(x) \in U32 /\ Len(y) \in U32
  BY <1>2, <1>4 DEF U32, MaxLength
<1>6. ASSUME NEW q \in Peer, SizedPeer(q, MaxLength) PROVE push_peer(q) \in Seq(Nat)
  BY <1>6, PeerReadable
<1>7. /\ s \in Seq(Seq(Nat)) /\ Len(s) = Len(x) /\ t \in Seq(Seq(Nat)) /\ Len(t) = Len(y)
      /\ \A i \in 1 .. Len(x) : s[i] = push_peer(x[i]) /\ a[i] = PeerParts(x[i])
      /\ \A i \in 1 .. Len(y) : t[i] = push_peer(y[i]) /\ b[i] = PeerParts(y[i])
  BY <1>2, <1>4, <1>6
<1>8. a = [i \in 1 .. Len(x) |-> a[i]] /\ b = [i \in 1 .. Len(y) |-> b[i]]
  BY <1>4
<1>9. a = [i \in DOMAIN c.peers |-> PeerParts(c.peers[i])] /\ b = [i \in DOMAIN d.peers |-> PeerParts(d.peers[i])]
  BY DEF x, y
<1> HIDE DEF s, t, a, b
<1>10. ASSUME Len(s) = Len(t) PROVE AllReadable(s, t, a, b)
  <2> SUFFICES ASSUME NEW i \in 1 .. Len(s) PROVE Readable(s[i], t[i], a[i], b[i])
    BY DEF AllReadable
  <2>1. /\ s[i] = push_peer(x[i]) /\ a[i] = PeerParts(x[i]) /\ t[i] = push_peer(y[i])
        /\ b[i] = PeerParts(y[i]) /\ x[i] \in Peer /\ y[i] \in Peer
        /\ SizedPeer(x[i], MaxLength) /\ SizedPeer(y[i], MaxLength)
    BY <1>2, <1>4, <1>7, <1>10
  <2> QED BY <2>1, PeerReadable
<1>11. ASSUME Len(s) = Len(t), Agree(Len(s), a, b) PROVE a = b
  BY <1>7, <1>8, <1>11 DEF Agree
<1>12. Len(s) \in U32 /\ Len(t) \in U32 /\ s \in Seq(Seq(Nat)) /\ t \in Seq(Seq(Nat))
  BY <1>5, <1>7
<1>13. PeersText(c) = push_u32(Len(s)) \o FlattenSeq(s) /\ PeersText(d) = push_u32(Len(t)) \o FlattenSeq(t)
  BY <1>3, <1>7
<1>14. Readable(PeersText(c), PeersText(d), a, b) /\ PeersText(c) \in Seq(Nat)
  BY <1>10, <1>11, <1>12, <1>13, CountedReadable
<1> QED BY <1>9, <1>14

\* The whole configuration.
LEMMA ConfigReadable ==
  ASSUME NEW c \in State, NEW d \in State, Sized(c, MaxLength), Sized(d, MaxLength),
         fingerprint(c) = fingerprint(d)
  PROVE  ConfigParts(c) = ConfigParts(d)
<1>1. ASSUME NEW s \in State, Sized(s, MaxLength)
      PROVE  /\ s.private_key \in Seq(Nat) /\ Len(s.private_key) \in U32
             /\ s.address \in Seq(Networks) /\ Len(s.address) \in U32
             /\ s.dns \in Seq(Addresses) /\ Len(s.dns) \in U32
             /\ s.mtu \in U16Option
             /\ \A k \in HookKeys : /\ s.hooks[k] \in Seq(Seq(Nat)) /\ Len(s.hooks[k]) \in U32
                                    /\ \A i \in 1 .. Len(s.hooks[k]) : Len(s.hooks[k][i]) \in U32
  <2>1. /\ s.private_key \in Seq(Nat) /\ s.address \in Seq(Networks) /\ s.dns \in Seq(Addresses)
        /\ s.mtu \in U16Option /\ s.hooks \in [HookKeys -> Seq(Seq(Nat))]
    BY DEF State, Values
  <2>2. /\ Len(s.private_key) <= 4294967295 /\ Len(s.address) <= 4294967295
        /\ Len(s.dns) <= 4294967295
    BY <1>1 DEF Sized, MaxLength
  <2>3. ASSUME NEW k \in HookKeys
        PROVE  /\ s.hooks[k] \in Seq(Seq(Nat)) /\ Len(s.hooks[k]) \in U32
               /\ \A i \in 1 .. Len(s.hooks[k]) : Len(s.hooks[k][i]) \in U32
    <3> DEFINE h == s.hooks[k]
    <3>1. h \in Seq(Seq(Nat))
      BY <2>1
    <3>2. Len(h) <= 4294967295 /\ \A i \in DOMAIN h : Len(h[i]) <= 4294967295
      BY <1>1 DEF Sized, MaxLength
    <3> HIDE DEF h
    <3>3. DOMAIN h = 1 .. Len(h) /\ Len(h) \in Nat /\ \A i \in 1 .. Len(h) : Len(h[i]) \in Nat
      BY <3>1
    <3>4. Len(h) \in U32 /\ \A i \in 1 .. Len(h) : Len(h[i]) \in U32
      BY <3>2, <3>3 DEF U32
    <3> QED BY <3>1, <3>4 DEF h
  <2>4. Len(s.private_key) \in U32 /\ Len(s.address) \in U32 /\ Len(s.dns) \in U32
    BY <2>1, <2>2 DEF U32
  <2> QED BY <2>1, <2>3, <2>4
<1>h. "preup" \in HookKeys /\ "postup" \in HookKeys /\ "predown" \in HookKeys /\ "postdown" \in HookKeys
  BY DEF HookKeys
<1> DEFINE a(s) == push_bytes(s.private_key)  b(s) == push_ipnets(s.address)  e(s) == push_ips(s.dns)
           f(s) == push_option_u16(s.mtu)  h(s, k) == push_strings(s.hooks[k])
           x1(s) == a(s) \o b(s)  x2(s) == x1(s) \o e(s)  x3(s) == x2(s) \o f(s)
           x4(s) == x3(s) \o h(s, "preup")  x5(s) == x4(s) \o h(s, "postup")
           x6(s) == x5(s) \o h(s, "predown")  x7(s) == x6(s) \o h(s, "postdown")
           x8(s) == x7(s) \o PeersText(s)
           y1(s) == <<s.private_key, s.address>>  y2(s) == <<y1(s), s.dns>>  y3(s) == <<y2(s), s.mtu>>
           y4(s) == <<y3(s), s.hooks["preup"]>>  y5(s) == <<y4(s), s.hooks["postup"]>>
           y6(s) == <<y5(s), s.hooks["predown"]>>  y7(s) == <<y6(s), s.hooks["postdown"]>>
           y8(s) == <<y7(s), [i \in DOMAIN s.peers |-> PeerParts(s.peers[i])]>>
<1>2. ASSUME NEW s \in {c, d}, NEW k \in HookKeys
      PROVE  /\ a(s) \in Seq(Nat) /\ b(s) \in Seq(Nat) /\ e(s) \in Seq(Nat) /\ f(s) \in Seq(Nat)
             /\ h(s, k) \in Seq(Nat) /\ PeersText(s) \in Seq(Nat)
  <2>1. s \in State /\ Sized(s, MaxLength)
    OBVIOUS
  <2> QED BY <1>1, <2>1, BytesReadable, IpnetsReadable, IpsReadable, OptionU16Readable,
             StringsReadable, PeersReadable
<1>3. /\ Readable(a(c), a(d), c.private_key, d.private_key) /\ Readable(b(c), b(d), c.address, d.address)
      /\ Readable(e(c), e(d), c.dns, d.dns) /\ Readable(f(c), f(d), c.mtu, d.mtu)
  BY <1>1, BytesReadable, IpnetsReadable, IpsReadable, OptionU16Readable
<1>4. ASSUME NEW k \in HookKeys PROVE Readable(h(c, k), h(d, k), c.hooks[k], d.hooks[k])
  BY <1>1, StringsReadable
<1>5. Readable(PeersText(c), PeersText(d), [i \in DOMAIN c.peers |-> PeerParts(c.peers[i])],
               [i \in DOMAIN d.peers |-> PeerParts(d.peers[i])])
  BY PeersReadable
<1>6. ASSUME NEW s \in {c, d}
      PROVE  /\ x1(s) \in Seq(Nat) /\ x2(s) \in Seq(Nat) /\ x3(s) \in Seq(Nat) /\ x4(s) \in Seq(Nat)
             /\ x5(s) \in Seq(Nat) /\ x6(s) \in Seq(Nat) /\ x7(s) \in Seq(Nat) /\ x8(s) \in Seq(Nat)
  <2> HIDE DEF a, b, e, f, h
  <2>1. x1(s) \in Seq(Nat)
    BY <1>2, <1>h, SMTT(60)
  <2> HIDE DEF x1
  <2>2. x2(s) \in Seq(Nat)
    BY <1>2, <1>h, <2>1, SMTT(60)
  <2> HIDE DEF x2
  <2>3. x3(s) \in Seq(Nat)
    BY <1>2, <1>h, <2>2, SMTT(60)
  <2> HIDE DEF x3
  <2>4. x4(s) \in Seq(Nat)
    BY <1>2, <1>h, <2>3, SMTT(60)
  <2> HIDE DEF x4
  <2>5. x5(s) \in Seq(Nat)
    BY <1>2, <1>h, <2>4, SMTT(60)
  <2> HIDE DEF x5
  <2>6. x6(s) \in Seq(Nat)
    BY <1>2, <1>h, <2>5, SMTT(60)
  <2> HIDE DEF x6
  <2>7. x7(s) \in Seq(Nat)
    BY <1>2, <1>h, <2>6, SMTT(60)
  <2> HIDE DEF x7
  <2>8. x8(s) \in Seq(Nat)
    BY <1>2, <1>h, <2>7, SMTT(60)
  <2> QED BY <2>1, <2>2, <2>3, <2>4, <2>5, <2>6, <2>7, <2>8
<1>7. ASSUME NEW s \in {c, d} PROVE fingerprint(s) = x8(s)
  <2> DEFINE u == push_u32(Len(s.peers))
             g == FlattenSeq([i \in DOMAIN s.peers |-> push_peer(s.peers[i])])
  <2>1. fingerprint(s) = (x7(s) \o u) \o g
    BY DEF fingerprint
  <2>2. PeersText(s) = u \o g
    BY DEF PeersText
  <2>3. u \in Seq(Nat) /\ g \in Seq(Nat) /\ x7(s) \in Seq(Nat)
    <3>1. s \in State /\ Sized(s, MaxLength)
      OBVIOUS
    <3> HIDE DEF a, b, e, f, h, x1, x2, x3, x4, x5, x6, x7, x8, u, g
    <3>2. x7(s) \in Seq(Nat)
      BY <1>6
    <3>3. u \in Seq(Nat) /\ g \in Seq(Nat)
      BY <3>1, PeersJoin DEF u, g
    <3> QED BY <3>2, <3>3
  <2> HIDE DEF x7, u, g
  <2>4. (x7(s) \o u) \o g = x7(s) \o (u \o g)
    BY <2>3, JoinAssociates, ZenonT(60)
  <2> QED BY <2>1, <2>2, <2>4
<1>8. ConfigParts(c) = y8(c) /\ ConfigParts(d) = y8(d)
  BY DEF ConfigParts
<1> HIDE DEF a, b, e, f, h
<1>11. Readable(x1(c), x1(d), y1(c), y1(d))
  BY <1>2, <1>3, <1>h, PairReadable
<1> HIDE DEF x1, y1
<1>12. Readable(x2(c), x2(d), y2(c), y2(d))
  BY <1>2, <1>3, <1>h, <1>6, <1>11, PairReadable
<1> HIDE DEF x2, y2
<1>13. Readable(x3(c), x3(d), y3(c), y3(d))
  BY <1>2, <1>3, <1>h, <1>6, <1>12, PairReadable
<1> HIDE DEF x3, y3
<1>14. Readable(x4(c), x4(d), y4(c), y4(d))
  BY <1>2, <1>4, <1>h, <1>6, <1>13, PairReadable
<1> HIDE DEF x4, y4
<1>15. Readable(x5(c), x5(d), y5(c), y5(d))
  BY <1>2, <1>4, <1>h, <1>6, <1>14, PairReadable
<1> HIDE DEF x5, y5
<1>16. Readable(x6(c), x6(d), y6(c), y6(d))
  BY <1>2, <1>4, <1>h, <1>6, <1>15, PairReadable
<1> HIDE DEF x6, y6
<1>17. Readable(x7(c), x7(d), y7(c), y7(d))
  BY <1>2, <1>4, <1>h, <1>6, <1>16, PairReadable
<1> HIDE DEF x7, y7
<1>18. Readable(x8(c), x8(d), y8(c), y8(d))
  BY <1>2, <1>5, <1>h, <1>6, <1>17, PairReadable
<1> HIDE DEF x8, y8
<1>19. x8(c) \o <<>> = x8(d) \o <<>> /\ <<>> \in Seq(Nat)
  <2>1. fingerprint(c) = x8(c) /\ fingerprint(d) = x8(d)
    BY <1>7
  <2>2. x8(c) = x8(d)
    BY <2>1
  <2> QED BY <2>2
<1>20. y8(c) = y8(d)
  BY <1>18, <1>19 DEF Readable
<1> QED BY <1>8, <1>20

-----------------------------------------------------------------------------
(* Identities.                                                             *)

\* States are determined by their fields.
LEMMA StateFields ==
  ASSUME NEW s \in State
  PROVE  s = [ok |-> s.ok, section |-> s.section, private_key |-> s.private_key, mtu |-> s.mtu,
              address |-> s.address, dns |-> s.dns, hooks |-> s.hooks, peers |-> s.peers,
              peer |-> s.peer]
BY DEF State

\* So are peers.
LEMMA PeerFields ==
  ASSUME NEW q \in Peer
  PROVE  q = [public_key |-> q.public_key, preshared_key |-> q.preshared_key,
              allowed_ips |-> q.allowed_ips, endpoint |-> q.endpoint,
              endpoint_literal |-> q.endpoint_literal,
              persistent_keepalive |-> q.persistent_keepalive]
BY DEF Peer

\* A peer without its resolved address.
Unresolved(q) == [q EXCEPT !.endpoint = None]

\* Peers that differ in it only are the same without it.
LEMMA SameUnresolved ==
  ASSUME NEW q \in Peer, NEW r \in Peer
  PROVE  /\ Unresolved(q) \in Peer
         /\ SamePeer(q, r) <=> Unresolved(q) = Unresolved(r)
<1>1. ASSUME NEW u \in Peer
      PROVE  /\ Unresolved(u) \in Peer /\ Unresolved(u).public_key = u.public_key
             /\ Unresolved(u).preshared_key = u.preshared_key
             /\ Unresolved(u).allowed_ips = u.allowed_ips /\ Unresolved(u).endpoint = None
             /\ Unresolved(u).endpoint_literal = u.endpoint_literal
             /\ Unresolved(u).persistent_keepalive = u.persistent_keepalive
  <2>1. None \in Values
    BY StartType DEF NoPeer, Peer
  <2> QED BY <2>1 DEF Unresolved, Peer
<1>2. ASSUME SamePeer(q, r) PROVE Unresolved(q) = Unresolved(r)
  <2> DEFINE x == Unresolved(q)  y == Unresolved(r)
  <2>1. /\ x.public_key = y.public_key /\ x.preshared_key = y.preshared_key
        /\ x.allowed_ips = y.allowed_ips /\ x.endpoint = y.endpoint
        /\ x.endpoint_literal = y.endpoint_literal
        /\ x.persistent_keepalive = y.persistent_keepalive
    BY <1>1, <1>2 DEF SamePeer
  <2>2. x \in Peer /\ y \in Peer
    BY <1>1
  <2> HIDE DEF x, y
  <2>3. x = y
    BY <2>1, <2>2, PeerFields
  <2> QED BY <2>3 DEF x, y
<1>3. ASSUME Unresolved(q) = Unresolved(r) PROVE SamePeer(q, r)
  BY <1>1, <1>3 DEF SamePeer
<1> QED BY <1>1, <1>2, <1>3

\* The fields of an identity.
LEMMA IdentityFields ==
  ASSUME NEW s \in State
  PROVE  /\ Identity(s) \in State /\ Identity(s).ok = s.ok /\ Identity(s).section = "none"
         /\ Identity(s).private_key = s.private_key /\ Identity(s).mtu = s.mtu
         /\ Identity(s).address = s.address /\ Identity(s).dns = s.dns
         /\ Identity(s).hooks = s.hooks /\ Identity(s).peer = s.peer
         /\ Identity(s).peers = [n \in DOMAIN s.peers |-> Unresolved(s.peers[n])]
<1> DEFINE ps == [n \in DOMAIN s.peers |-> Unresolved(s.peers[n])]
<1>1. s.peers \in Seq(Peer)
  BY DEF State
<1>2. ps \in Seq(Peer)
  <2>1. \A n \in 1 .. Len(s.peers) : Unresolved(s.peers[n]) \in Peer
    BY <1>1, SameUnresolved
  <2> QED BY <1>1, <2>1
<1>3. Identity(s) = [s EXCEPT !.section = "none", !.peers = ps]
  BY DEF Identity, Unresolved
<1> HIDE DEF ps
<1>4. /\ Identity(s) \in State /\ Identity(s).ok = s.ok /\ Identity(s).section = "none"
      /\ Identity(s).private_key = s.private_key /\ Identity(s).mtu = s.mtu
      /\ Identity(s).address = s.address /\ Identity(s).dns = s.dns
      /\ Identity(s).hooks = s.hooks /\ Identity(s).peer = s.peer /\ Identity(s).peers = ps
  BY <1>2, <1>3 DEF State
<1> QED BY <1>4 DEF ps

\* Configurations that are alike have the same identity.
LEMMA SameIdentity ==
  ASSUME NEW c \in State, NEW d \in State, c.ok = d.ok, c.peer = d.peer,
         c.private_key = d.private_key, c.mtu = d.mtu, c.address = d.address, c.dns = d.dns,
         c.hooks = d.hooks, Len(c.peers) = Len(d.peers),
         \A n \in 1 .. Len(c.peers) : SamePeer(c.peers[n], d.peers[n])
  PROVE  Identity(c) = Identity(d)
<1>1. /\ c.peers \in Seq(Peer) /\ d.peers \in Seq(Peer)
      /\ DOMAIN c.peers = 1 .. Len(c.peers) /\ DOMAIN d.peers = 1 .. Len(c.peers)
  BY DEF State
<1>2. \A n \in 1 .. Len(c.peers) : Unresolved(c.peers[n]) = Unresolved(d.peers[n])
  BY <1>1, SameUnresolved
<1>3. [n \in DOMAIN c.peers |-> Unresolved(c.peers[n])] = [n \in DOMAIN d.peers |-> Unresolved(d.peers[n])]
  BY <1>1, <1>2
<1> DEFINE x == Identity(c)  y == Identity(d)
<1>4. /\ x.ok = y.ok /\ x.section = y.section /\ x.private_key = y.private_key /\ x.mtu = y.mtu
      /\ x.address = y.address /\ x.dns = y.dns /\ x.hooks = y.hooks /\ x.peers = y.peers
      /\ x.peer = y.peer
  <2>1. /\ x.ok = c.ok /\ x.section = "none" /\ x.private_key = c.private_key /\ x.mtu = c.mtu
        /\ x.address = c.address /\ x.dns = c.dns /\ x.hooks = c.hooks /\ x.peer = c.peer
        /\ x.peers = [n \in DOMAIN c.peers |-> Unresolved(c.peers[n])]
    BY IdentityFields
  <2>2. /\ y.ok = d.ok /\ y.section = "none" /\ y.private_key = d.private_key /\ y.mtu = d.mtu
        /\ y.address = d.address /\ y.dns = d.dns /\ y.hooks = d.hooks /\ y.peer = d.peer
        /\ y.peers = [n \in DOMAIN d.peers |-> Unresolved(d.peers[n])]
    BY IdentityFields
  <2> HIDE DEF x, y
  <2> QED BY <1>3, <2>1, <2>2, Zenon
<1>5. x \in State /\ y \in State
  BY IdentityFields
<1> HIDE DEF x, y
<1>6. x = y
  BY <1>4, <1>5, StateFields
<1> QED BY <1>6 DEF x, y

\* What the fingerprint stands for says how configurations are alike.
LEMMA SameParts ==
  ASSUME NEW c \in State, NEW d \in State, ConfigParts(c) = ConfigParts(d)
  PROVE  /\ c.private_key = d.private_key /\ c.mtu = d.mtu /\ c.address = d.address
         /\ c.dns = d.dns /\ c.hooks = d.hooks /\ Len(c.peers) = Len(d.peers)
         /\ \A n \in 1 .. Len(c.peers) : SamePeer(c.peers[n], d.peers[n])
<1> DEFINE a == [i \in DOMAIN c.peers |-> PeerParts(c.peers[i])]
           b == [i \in DOMAIN d.peers |-> PeerParts(d.peers[i])]
<1>1. /\ c.private_key = d.private_key /\ c.address = d.address /\ c.dns = d.dns /\ c.mtu = d.mtu
      /\ c.hooks["preup"] = d.hooks["preup"] /\ c.hooks["postup"] = d.hooks["postup"]
      /\ c.hooks["predown"] = d.hooks["predown"] /\ c.hooks["postdown"] = d.hooks["postdown"]
      /\ a = b
  <2> HIDE DEF a, b
  <2> QED BY DEF ConfigParts, a, b
<1>2. c.hooks = d.hooks
  <2>1. c.hooks \in [HookKeys -> Seq(Values)] /\ d.hooks \in [HookKeys -> Seq(Values)]
    BY DEF State
  <2>2. \A k \in HookKeys : c.hooks[k] = d.hooks[k]
    BY <1>1 DEF HookKeys
  <2> QED BY <2>1, <2>2
<1>3. c.peers \in Seq(Peer) /\ d.peers \in Seq(Peer)
  BY DEF State
<1>4. DOMAIN c.peers = DOMAIN d.peers
  BY <1>1
<1>5. Len(c.peers) = Len(d.peers) /\ DOMAIN c.peers = 1 .. Len(c.peers)
  BY <1>3, <1>4
<1>6. \A i \in DOMAIN c.peers : PeerParts(c.peers[i]) = PeerParts(d.peers[i])
  BY <1>1, <1>4
<1>7. \A n \in 1 .. Len(c.peers) : SamePeer(c.peers[n], d.peers[n])
  BY <1>5, <1>6 DEF SamePeer, PeerParts
<1> QED BY <1>1, <1>2, <1>5, <1>7

\* A configuration as a pass over a text returns it.
Config(c) == c \in State /\ c.ok /\ c.peer = NoPeer /\ Sized(c, MaxLength)

\* Equal fingerprints, equal configurations, but for resolved addresses.
LEMMA PrintIdentifies ==
  ASSUME NEW c, NEW d, Config(c), Config(d), fingerprint(c) = fingerprint(d)
  PROVE  Identity(c) = Identity(d)
<1>1. /\ c \in State /\ d \in State /\ Sized(c, MaxLength) /\ Sized(d, MaxLength)
      /\ c.ok = d.ok /\ c.peer = d.peer
  BY DEF Config, State
<1>2. ConfigParts(c) = ConfigParts(d)
  BY <1>1, ConfigReadable
<1> QED BY <1>1, <1>2, SameParts, SameIdentity

\* Each line adds at most so much.
MaxEntries == 65535

\* The state has room for the peer under way, and between sections there is none.
Within(s, n) ==
  /\ Sized(s, n)
  /\ s.section = "peer" => Len(s.peers) + 1 <= n
  /\ s.section # "peer" => s.peer = NoPeer

\* What fits in one bound fits in a larger one.
LEMMA SizedMore ==
  ASSUME NEW s \in State, NEW m \in Nat, NEW n \in Nat, m <= n, Sized(s, m)
  PROVE  Sized(s, n)
<1>1. ASSUME NEW q \in Peer, SizedPeer(q, m) PROVE SizedPeer(q, n)
  <2>1. /\ Len(q.public_key) \in Nat /\ Len(q.preshared_key) \in Nat
        /\ Len(q.allowed_ips) \in Nat /\ Len(q.endpoint_literal) \in Nat
    BY DEF Peer, Values
  <2> QED BY <1>1, <2>1 DEF SizedPeer
<1>2. /\ s.private_key \in Seq(Nat) /\ s.address \in Seq(Networks) /\ s.dns \in Seq(Addresses)
      /\ s.peers \in Seq(Peer) /\ s.hooks \in [HookKeys -> Seq(Seq(Nat))] /\ s.peer \in Peer
  BY DEF State, Values
<1>3. /\ Len(s.private_key) \in Nat /\ Len(s.address) \in Nat /\ Len(s.dns) \in Nat /\ Len(s.peers) \in Nat
  BY <1>2
<1>4. ASSUME NEW k \in HookKeys
      PROVE  Len(s.hooks[k]) <= n /\ \A i \in DOMAIN s.hooks[k] : Len(s.hooks[k][i]) <= n
  <2> DEFINE h == s.hooks[k]
  <2>1. h \in Seq(Seq(Nat))
    BY <1>2
  <2>2. Len(h) <= m /\ \A i \in DOMAIN h : Len(h[i]) <= m
    BY DEF Sized
  <2> HIDE DEF h
  <2>3. Len(h) \in Nat /\ \A i \in DOMAIN h : Len(h[i]) \in Nat
    BY <2>1
  <2>4. Len(h) <= n /\ \A i \in DOMAIN h : Len(h[i]) <= n
    BY <2>2, <2>3
  <2> QED BY <2>4 DEF h
<1>5. \A i \in DOMAIN s.peers : SizedPeer(s.peers[i], n)
  BY <1>1, <1>2 DEF Sized
<1>6. SizedPeer(s.peer, n)
  BY <1>1, <1>2 DEF Sized
<1>7. Len(s.private_key) <= n /\ Len(s.address) <= n /\ Len(s.dns) <= n /\ Len(s.peers) <= n
  BY <1>3 DEF Sized
<1> QED BY <1>4, <1>5, <1>6, <1>7 DEF Sized

\* A directive of [Interface] adds one line's worth.
LEMMA InterfaceWithin ==
  ASSUME NEW s \in State, NEW n \in Nat, Within(s, n), NEW l \in Line, l.kind = "set",
         s.section = "interface", NEW t, t = InterfaceLine(s, l.key, l.value), t.ok
  PROVE  Within(t, n + MaxEntries)
<1> DEFINE m == n + MaxEntries  k == l.key  v == l.value
<1>1. m \in Nat /\ n <= m /\ m = n + 65535
  BY DEF MaxEntries
<1>2. v \in Seq(Nat) /\ Len(v) \in Nat /\ Len(v) <= 65535
  <2>1. v \in Seq(Nat) /\ Len(v) < 65536
    BY ValueType DEF Values, MAX_CONF_TEXT_BYTES
  <2>2. Len(v) \in Nat
    BY <2>1
  <2> QED BY <2>1, <2>2
<1>3. Sized(s, m) /\ s.peer = NoPeer
  BY <1>1, SizedMore DEF Within
<1>4. /\ s.private_key \in Seq(Nat) /\ s.address \in Seq(Networks) /\ s.dns \in Seq(Addresses)
      /\ s.hooks \in [HookKeys -> Seq(Seq(Nat))]
  BY DEF State, Values
<1>5. InterfaceOutcome(s, k, v, t) /\ t # Fail(s)
  BY InterfaceCases, LeftType
<1>6. CASE t = s \/ t = [s EXCEPT !.mtu = v]
  BY <1>3, <1>6 DEF Within, Sized, State
<1>7. CASE t = [s EXCEPT !.private_key = v]
  <2>1. /\ t.private_key = v /\ t.address = s.address /\ t.dns = s.dns /\ t.peers = s.peers
        /\ t.hooks = s.hooks /\ t.peer = s.peer /\ t.section = s.section
    BY <1>7 DEF State
  <2>2. Len(v) <= m
    BY <1>1, <1>2
  <2> QED BY <1>3, <2>1, <2>2 DEF Within, Sized
<1>8. CASE t = [s EXCEPT !.address = s.address \o v] /\ v \in Seq(Networks)
  <2>1. /\ t.private_key = s.private_key /\ t.address = s.address \o v /\ t.dns = s.dns
        /\ t.peers = s.peers /\ t.hooks = s.hooks /\ t.peer = s.peer /\ t.section = s.section
    BY <1>8 DEF State
  <2>2. Len(s.address \o v) <= m
    <3>1. Len(s.address \o v) = Len(s.address) + Len(v) /\ Len(s.address) \in Nat
      BY <1>4, <1>8, ConcatProperties
    <3>2. Len(s.address) <= n
      BY DEF Within, Sized
    <3> DEFINE i == Len(s.address)  j == Len(v)
    <3>3. Len(s.address \o v) = i + j /\ i \in Nat /\ j \in Nat /\ i <= n /\ j <= 65535
      BY <1>2, <3>1, <3>2
    <3> HIDE DEF i, j
    <3>4. i + j <= n + 65535
      BY <3>3
    <3> QED BY <1>1, <3>3, <3>4
  <2> QED BY <1>3, <2>1, <2>2 DEF Within, Sized
<1>9. CASE t = [s EXCEPT !.dns = s.dns \o v] /\ v \in Seq(Addresses)
  <2>1. /\ t.private_key = s.private_key /\ t.address = s.address /\ t.dns = s.dns \o v
        /\ t.peers = s.peers /\ t.hooks = s.hooks /\ t.peer = s.peer /\ t.section = s.section
    BY <1>9 DEF State
  <2>2. Len(s.dns \o v) <= m
    <3>1. Len(s.dns \o v) = Len(s.dns) + Len(v) /\ Len(s.dns) \in Nat
      BY <1>4, <1>9, ConcatProperties
    <3>2. Len(s.dns) <= n
      BY DEF Within, Sized
    <3> DEFINE i == Len(s.dns)  j == Len(v)
    <3>3. Len(s.dns \o v) = i + j /\ i \in Nat /\ j \in Nat /\ i <= n /\ j <= 65535
      BY <1>2, <3>1, <3>2
    <3> HIDE DEF i, j
    <3>4. i + j <= n + 65535
      BY <3>3
    <3> QED BY <1>1, <3>3, <3>4
  <2> QED BY <1>3, <2>1, <2>2 DEF Within, Sized
<1>10. CASE k \in HookKeys /\ t = [s EXCEPT !.hooks = [s.hooks EXCEPT ![k] = Append(s.hooks[k], v)]]
  <2> DEFINE h == s.hooks[k]  g == Append(h, v)
  <2>1. /\ t.private_key = s.private_key /\ t.address = s.address /\ t.dns = s.dns
        /\ t.peers = s.peers /\ t.peer = s.peer /\ t.section = s.section
        /\ t.hooks = [s.hooks EXCEPT ![k] = g]
    BY <1>10 DEF State
  <2>2. h \in Seq(Seq(Nat)) /\ Len(h) <= n
    BY <1>4, <1>10 DEF Within, Sized
  <2>3. \A i \in DOMAIN h : Len(h[i]) <= m
    BY <1>3, <1>10 DEF Sized
  <2>4. t.hooks[k] = g /\ \A j \in HookKeys : j # k => t.hooks[j] = s.hooks[j]
    BY <1>4, <1>10, <2>1
  <2> HIDE DEF h
  <2>5. Len(g) = Len(h) + 1 /\ Len(h) \in Nat /\ DOMAIN g = 1 .. Len(h) + 1 /\ DOMAIN h = 1 .. Len(h)
        /\ g[Len(h) + 1] = v /\ \A i \in 1 .. Len(h) : g[i] = h[i]
    BY <1>2, <2>2
  <2> HIDE DEF g
  <2>6. Len(g) <= m
    BY <1>1, <2>2, <2>5
  <2>7. ASSUME NEW i \in DOMAIN g PROVE Len(g[i]) <= m
    <3>1. i \in 1 .. Len(h) \/ i = Len(h) + 1
      BY <2>5
    <3>2. CASE i \in 1 .. Len(h)
      BY <2>3, <2>5, <3>2
    <3>3. CASE i = Len(h) + 1
      BY <1>1, <1>2, <2>5, <3>3
    <3> QED BY <3>1, <3>2, <3>3
  <2>8. ASSUME NEW j \in HookKeys
        PROVE  Len(t.hooks[j]) <= m /\ \A i \in DOMAIN t.hooks[j] : Len(t.hooks[j][i]) <= m
    <3>1. CASE j = k
      BY <2>4, <2>6, <2>7, <3>1
    <3>2. CASE j # k
      <4>1. t.hooks[j] = s.hooks[j]
        BY <2>4, <3>2
      <4>2. Len(s.hooks[j]) <= m /\ \A i \in DOMAIN s.hooks[j] : Len(s.hooks[j][i]) <= m
        BY <1>3 DEF Sized
      <4> QED BY <4>1, <4>2
    <3> QED BY <3>1, <3>2
  <2>9. /\ Len(s.private_key) <= m /\ Len(s.address) <= m /\ Len(s.dns) <= m /\ Len(s.peers) <= m
        /\ (\A i \in DOMAIN s.peers : SizedPeer(s.peers[i], m)) /\ SizedPeer(s.peer, m)
    BY <1>3 DEF Sized
  <2> QED BY <1>3, <2>1, <2>8, <2>9 DEF Within, Sized
<1>11. k = "address" /\ ParsesAll(v) => v \in Seq(Networks)
  BY ValueType
<1>12. k = "dns" /\ ParsesAll(v) => v \in Seq(Addresses)
  BY ValueType
<1> HIDE DEF k, v
<1> QED BY <1>5, <1>6, <1>7, <1>8, <1>9, <1>10, <1>11, <1>12, Zenon DEF InterfaceOutcome

\* A directive of [Peer] adds one line's worth.
LEMMA PeerWithin ==
  ASSUME NEW s \in State, NEW n \in Nat, Within(s, n), NEW l \in Line, l.kind = "set",
         s.section = "peer", NEW answer \in Answers, NEW t, t = PeerLine(s, l.key, l.value, answer), t.ok
  PROVE  Within(t, n + MaxEntries)
<1> DEFINE m == n + MaxEntries  k == l.key  v == l.value  q == s.peer
           e == parse_endpoint(v, answer)
<1>1. m \in Nat /\ n <= m /\ m = n + 65535
  BY DEF MaxEntries
<1>2. v \in Seq(Nat) /\ Len(v) \in Nat /\ Len(v) <= 65535 /\ Len(v) <= m
  <2>1. v \in Seq(Nat) /\ Len(v) < 65536
    BY ValueType DEF Values, MAX_CONF_TEXT_BYTES
  <2>2. Len(v) \in Nat
    BY <2>1
  <2>3. ASSUME NEW i \in Nat, i < 65536 PROVE i <= 65535 /\ i <= m
    BY <1>1, <2>3
  <2> HIDE DEF m
  <2> QED BY <2>1, <2>2, <2>3
<1>3. Sized(s, m) /\ Len(s.peers) + 1 <= m
  <2>1. Len(s.peers) \in Nat /\ Len(s.peers) + 1 <= n
    BY DEF State, Within
  <2> QED BY <1>1, <2>1, SizedMore DEF Within
<1>4. q \in Peer /\ q.allowed_ips \in Seq(Networks) /\ SizedPeer(q, m)
  BY <1>3 DEF State, Peer, Sized
<1>5. PeerOutcome(s, q, k, v, e, t) /\ t # Fail(s)
  BY PeerCases, LeftType
<1>6. ASSUME NEW r, SizedPeer(r, m), t = [s EXCEPT !.peer = r] PROVE Within(t, m)
  <2>1. /\ t.private_key = s.private_key /\ t.address = s.address /\ t.dns = s.dns
        /\ t.peers = s.peers /\ t.hooks = s.hooks /\ t.section = s.section /\ t.peer = r
    BY <1>6 DEF State
  <2> QED BY <1>3, <1>6, <2>1 DEF Within, Sized
<1>7. /\ SizedPeer([q EXCEPT !.public_key = v], m) /\ SizedPeer([q EXCEPT !.preshared_key = v], m)
      /\ SizedPeer([q EXCEPT !.persistent_keepalive = v], m)
      /\ SizedPeer([q EXCEPT !.endpoint = e, !.endpoint_literal = v], m)
  BY <1>2, <1>4 DEF SizedPeer, Peer
<1>8. ASSUME v \in Seq(Networks) PROVE SizedPeer([q EXCEPT !.allowed_ips = q.allowed_ips \o v], m)
  <2>1. Len(q.allowed_ips \o v) = Len(q.allowed_ips) + Len(v) /\ Len(q.allowed_ips) \in Nat
    BY <1>4, <1>8, ConcatProperties
  <2>2. Len(q.allowed_ips) <= n
    BY DEF Within, Sized, SizedPeer
  <2> DEFINE w == q.allowed_ips \o v  i == Len(q.allowed_ips)  j == Len(v)
  <2>3. Len(w) = i + j /\ i \in Nat /\ j \in Nat /\ i <= n /\ j <= 65535
    BY <1>2, <2>1, <2>2
  <2> HIDE DEF w, i, j
  <2>4. Len(w) <= m
    BY <1>1, <2>3
  <2>5. SizedPeer([q EXCEPT !.allowed_ips = w], m)
    BY <1>4, <2>4 DEF SizedPeer, Peer
  <2> QED BY <2>5 DEF w
<1>9. k = "allowedips" /\ ParsesAll(v) => v \in Seq(Networks)
  BY ValueType
<1> HIDE DEF k, v, e, q
<1> QED BY <1>5, <1>6, <1>7, <1>8, <1>9, Zenon DEF PeerOutcome

\* Completing a peer makes use of the room kept for it.
LEMMA LeftWithin ==
  ASSUME NEW s \in State, NEW n \in Nat, Within(s, n), Left(s).ok
  PROVE  Sized(Left(s), n) /\ Left(s).peer = NoPeer
<1>1. CASE s.section # "peer"
  BY <1>1 DEF Left, Within
<1>2. CASE s.section = "peer"
  <2> DEFINE ps == Append(s.peers, s.peer)
  <2>1. Left(s) = [s EXCEPT !.peers = ps, !.peer = NoPeer]
    BY <1>2, LeftType DEF Left, flush_peer
  <2>2. /\ Left(s).private_key = s.private_key /\ Left(s).address = s.address /\ Left(s).dns = s.dns
        /\ Left(s).hooks = s.hooks /\ Left(s).peer = NoPeer /\ Left(s).peers = ps
    BY <2>1 DEF State
  <2>3. s.peers \in Seq(Peer)
    BY DEF State
  <2>4. /\ Len(ps) = Len(s.peers) + 1 /\ Len(s.peers) \in Nat /\ ps[Len(s.peers) + 1] = s.peer
        /\ DOMAIN ps = 1 .. Len(s.peers) + 1 /\ DOMAIN s.peers = 1 .. Len(s.peers)
        /\ \A i \in 1 .. Len(s.peers) : ps[i] = s.peers[i]
    BY <2>3
  <2>5. Len(s.peers) + 1 <= n /\ Sized(s, n)
    BY <1>2 DEF Within
  <2> HIDE DEF ps
  <2>6. ASSUME NEW i \in DOMAIN ps PROVE SizedPeer(ps[i], n)
    <3>1. i \in 1 .. Len(s.peers) \/ i = Len(s.peers) + 1
      BY <2>4
    <3> QED BY <2>4, <2>5, <3>1 DEF Sized
  <2>7. SizedPeer(NoPeer, n)
    BY DEF SizedPeer, NoPeer, None
  <2> QED BY <2>2, <2>4, <2>5, <2>6, <2>7 DEF Sized
<1> QED BY <1>1, <1>2

\* A line adds one line's worth.
LEMMA LineWithin ==
  ASSUME NEW s \in State, NEW n \in Nat, Within(s, n), NEW l \in Line, NEW t, LineStep(s, l, t), t.ok
  PROVE  Within(t, n + MaxEntries)
<1>1. n + MaxEntries \in Nat /\ n <= n + MaxEntries
  BY DEF MaxEntries
<1>2. t # Fail(s)
  BY LeftType
<1>3. CASE t = s
  <2>1. Sized(s, n + MaxEntries)
    BY <1>1, SizedMore DEF Within
  <2>2. s.section = "peer" => Len(s.peers) + 1 <= n /\ Len(s.peers) \in Nat
    BY DEF Within, State
  <2>3. s.section = "peer" => Len(s.peers) + 1 <= n + MaxEntries
    BY <2>2 DEF MaxEntries
  <2> QED BY <1>3, <2>1, <2>3 DEF Within
<1>4. CASE t = Header(s, l.key)
  <2>1. l.key \in {"interface", "peer"} /\ t = [Left(s) EXCEPT !.section = l.key]
    BY <1>2, <1>4 DEF Header
  <2> DEFINE r == Left(s)
  <2>2. r \in State
    BY LeftType
  <2>3. r.ok
    BY <2>1, <2>2 DEF State
  <2>4. Sized(r, n) /\ r.peer = NoPeer
    BY <2>3, LeftWithin
  <2> HIDE DEF r
  <2>5. Sized(r, n + MaxEntries)
    BY <1>1, <2>2, <2>4, SizedMore
  <2>6. Len(r.peers) + 1 <= n + MaxEntries
    <3>1. Len(r.peers) \in Nat /\ Len(r.peers) <= n
      BY <2>2, <2>4 DEF Sized, State
    <3> QED BY <3>1 DEF MaxEntries
  <2>7. /\ t.private_key = r.private_key /\ t.address = r.address /\ t.dns = r.dns
        /\ t.hooks = r.hooks /\ t.peer = r.peer /\ t.peers = r.peers
    BY <2>1, <2>2 DEF State, r
  <2> QED BY <2>4, <2>5, <2>6, <2>7 DEF Within, Sized
<1>5. CASE l.kind = "set" /\ s.section = "interface" /\ t = InterfaceLine(s, l.key, l.value)
  BY <1>5, InterfaceWithin
<1>6. ASSUME l.kind = "set", s.section = "peer", NEW answer \in Answers,
             t = PeerLine(s, l.key, l.value, answer)
      PROVE  Within(t, n + MaxEntries)
  BY <1>6, PeerWithin
<1> QED BY <1>2, <1>3, <1>4, <1>5, <1>6 DEF LineStep

\* The states of a pass stay within what the lines read so far can add.
LEMMA TraceWithin ==
  ASSUME NEW t \in Seq(Line), NEW tr, NEW n \in Nat, n <= Len(t), Trace(t, tr, n), tr[n].ok
  PROVE  Within(tr[n], n * MaxEntries)
<1> DEFINE T == {k \in Nat : k <= n /\ ~Within(tr[k], k * MaxEntries)}
<1>1. SUFFICES ASSUME T # {} PROVE FALSE
  OBVIOUS
<1>2. PICK x \in T : \A y \in T : x <= y
  <2>1. T \subseteq Nat
    OBVIOUS
  <2> HIDE DEF T
  <2> QED BY <1>1, <2>1, LeastOf
<1>3. x # 0
  <2>1. Within(Start, 0)
    BY DEF Within, Sized, SizedPeer, Start, NoPeer, None
  <2>2. 0 * MaxEntries = 0 /\ tr[0] = Start
    BY DEF MaxEntries, Trace
  <2> QED BY <1>2, <2>1, <2>2
<1>4. /\ x - 1 \in Nat /\ x - 1 <= n /\ ~(x <= x - 1) /\ x - 1 \in 0 .. n - 1 /\ (x - 1) + 1 = x
      /\ x \in 1 .. Len(t) /\ x - 1 \in 0 .. n /\ x \in 0 .. n
  BY <1>3
<1>5. Within(tr[x - 1], (x - 1) * MaxEntries)
  BY <1>2, <1>4
<1>6. LineStep(tr[x - 1], t[x], tr[x]) /\ tr[x - 1] \in State /\ t[x] \in Line
  BY <1>4 DEF Trace
<1>7. tr[x].ok
  <2>1. CASE x = n
    BY <2>1
  <2>2. CASE x # n
    <3>1. x \in 0 .. n - 1
      BY <1>4, <2>2
    <3> QED BY <3>1 DEF Trace
  <2> QED BY <2>1, <2>2
<1>8. (x - 1) * MaxEntries \in Nat /\ (x - 1) * MaxEntries + MaxEntries = x * MaxEntries
  BY <1>4 DEF MaxEntries
<1>9. Within(tr[x], (x - 1) * MaxEntries + MaxEntries)
  BY <1>5, <1>6, <1>7, <1>8, LineWithin
<1> QED BY <1>2, <1>8, <1>9

\* What a pass over a stored text returns is a configuration whose parts the encoding
\* can measure.  The --mtu override may have put in one line.
LEMMA ParsedConfig ==
  ASSUME NEW t \in Seq(Line), Len(t) <= MAX_CONF_TEXT_BYTES + 1, NEW c, Parsed(t, c)
  PROVE  Config(c)
<1> DEFINE n == Len(t)
<1>1. PICK tr : Trace(t, tr, n) /\ tr[n].ok /\ c = Finished(tr[n]) /\ c.ok
  BY DEF Parsed
<1>2. n \in Nat /\ n <= Len(t) /\ n <= 65537 /\ n \in 0 .. n
  BY DEF MAX_CONF_TEXT_BYTES
<1> DEFINE s == tr[n]
<1>3. s \in State /\ Within(s, n * MaxEntries)
  BY <1>1, <1>2, TraceWithin, SMTT(60) DEF Trace
<1> HIDE DEF n, s
<1>4. n * MaxEntries \in Nat /\ n * MaxEntries <= MaxLength /\ MaxLength \in Nat
  BY <1>2 DEF MaxEntries, MaxLength
<1>5. c \in State /\ c = Left(s)
  <2>1. Left(s) \in State /\ c = EndOfInput(Left(s))
    BY <1>1, <1>3, LeftType DEF Finished, s
  <2>2. ~Fail(Left(s)).ok
    BY <2>1, LeftType
  <2> QED BY <1>1, <2>1, <2>2 DEF EndOfInput
<1>6. Sized(Left(s), n * MaxEntries) /\ Left(s).peer = NoPeer
  BY <1>1, <1>3, <1>4, <1>5, LeftWithin
<1>7. Sized(c, MaxLength)
  BY <1>4, <1>5, <1>6, SizedMore
<1> QED BY <1>1, <1>5, <1>6, <1>7 DEF Config

-----------------------------------------------------------------------------
(* What a text says, line by line.                                         *)

\* The lines of t up to n that are headers of peers, that belong to an interface, that
\* stand under the header h.
Heads(t, n) == InOrder({i \in 1 .. n : t[i].kind \in Headers /\ t[i].key = "peer"})

InterfaceUpTo(t, n) == {i \in 1 .. n : Section(t, i) = "interface"}

Under(t, n, h) == {i \in 1 .. n : HeaderOf(t, i) = <<h>>}

\* The header above a line is the last one.
LEMMA HeaderAbove ==
  ASSUME NEW t \in Seq(Line), NEW n \in Nat
  PROVE  \/ /\ HeaderOf(t, n) = None
            /\ \A k \in 1 .. n : t[k].kind \notin Headers
         \/ \E h \in 1 .. n : /\ HeaderOf(t, n) = <<h>> /\ t[h].kind \in Headers
                              /\ \A k \in h + 1 .. n : t[k].kind \notin Headers
<1> DEFINE above == {j \in 1 .. n : t[j].kind \in Headers}
           h == CHOOSE j \in above : \A k \in above : k <= j
<1>1. CASE above = {}
  <2>1. HeaderOf(t, n) = None
    BY <1>1 DEF HeaderOf
  <2> QED BY <1>1, <2>1
<1>2. CASE above # {}
  <2>1. PICK j \in above : \A k \in above : k <= j
    <3> DEFINE T == {i \in Nat : \A k \in above : k <= i}
    <3>1. T \subseteq Nat /\ n \in T
      OBVIOUS
    <3>2. PICK x \in T : \A y \in T : x <= y
      <4> HIDE DEF T
      <4> QED BY <3>1, LeastOf
    <3>3. x \in above
      <4> SUFFICES ASSUME x \notin above PROVE FALSE
        OBVIOUS
      <4>1. x \in Nat /\ \A k \in above : k <= x /\ k # x
        BY <3>2
      <4>2. PICK k \in above : TRUE
        BY <1>2
      <4>3. k \in Nat /\ 1 <= k
        OBVIOUS
      <4>4. x - 1 \in Nat /\ ~(x <= x - 1)
        BY <4>1, <4>2, <4>3
      <4>5. x - 1 \in T
        BY <4>1, <4>4
      <4> QED BY <3>2, <4>4, <4>5
    <3> QED BY <3>2, <3>3
  <2>2. h \in above /\ \A k \in above : k <= h
    BY <2>1
  <2>3. HeaderOf(t, n) = <<h>>
    BY <1>2 DEF HeaderOf
  <2> HIDE DEF h
  <2>4. h \in 1 .. n /\ t[h].kind \in Headers
    BY <2>2
  <2>5. ASSUME NEW k \in h + 1 .. n PROVE t[k].kind \notin Headers
    <3>1. k \in 1 .. n /\ ~(k <= h)
      BY <2>4
    <3> QED BY <2>2, <3>1
  <2> QED BY <2>3, <2>4, <2>5
<1> QED BY <1>1, <1>2

\* A header is its own; another line has that of the line before.
LEMMA HeaderStep ==
  ASSUME NEW t \in Seq(Line), NEW n \in Nat, n + 1 <= Len(t)
  PROVE  /\ t[n + 1].kind \in Headers => HeaderOf(t, n + 1) = <<n + 1>>
         /\ t[n + 1].kind \notin Headers => HeaderOf(t, n + 1) = HeaderOf(t, n)
<1>1. ASSUME t[n + 1].kind \in Headers PROVE HeaderOf(t, n + 1) = <<n + 1>>
  <2>1. n + 1 \in Nat /\ n + 1 \in 1 .. n + 1
    OBVIOUS
  <2>2. PICK h \in 1 .. n + 1 : /\ HeaderOf(t, n + 1) = <<h>> /\ t[h].kind \in Headers
                                /\ \A k \in h + 1 .. n + 1 : t[k].kind \notin Headers
    BY <1>1, <2>1, HeaderAbove
  <2>3. h = n + 1
    <3> SUFFICES ASSUME h # n + 1 PROVE FALSE
      OBVIOUS
    <3>1. n + 1 \in h + 1 .. n + 1
      OBVIOUS
    <3> QED BY <1>1, <2>2, <3>1
  <2> QED BY <2>2, <2>3
<1>2. ASSUME t[n + 1].kind \notin Headers PROVE HeaderOf(t, n + 1) = HeaderOf(t, n)
  <2>1. {j \in 1 .. n + 1 : t[j].kind \in Headers} = {j \in 1 .. n : t[j].kind \in Headers}
    <3>1. \A j \in 1 .. n + 1 : j \in 1 .. n \/ j = n + 1
      OBVIOUS
    <3>2. \A j \in 1 .. n : j \in 1 .. n + 1
      OBVIOUS
    <3> QED BY <1>2, <3>1, <3>2
  <2> DEFINE last(S) == IF S = {} THEN None ELSE <<CHOOSE j \in S : \A k \in S : k <= j>>
  <2>2. /\ HeaderOf(t, n) = last({j \in 1 .. n : t[j].kind \in Headers})
        /\ HeaderOf(t, n + 1) = last({j \in 1 .. n + 1 : t[j].kind \in Headers})
    BY DEF HeaderOf
  <2> HIDE DEF last
  <2> QED BY <2>1, <2>2
<1> QED BY <1>1, <1>2

-----------------------------------------------------------------------------
(* Numbers in order.                                                       *)

\* There are finitely many numbers up to n.
LEMMA FiniteUpTo ==
  ASSUME NEW A, NEW n \in Nat, A \subseteq 1 .. n
  PROVE  IsFiniteSet(A)
<1>1. IsFiniteSet(1 .. n)
  BY FS_Interval
<1> QED BY <1>1, FS_Subset

\* s lists the elements of A.
Lists(s, A) == s \in Seq(A) /\ \A a \in A : \E j \in 1 .. Len(s) : s[j] = a

\* A larger number comes last.
LEMMA OrderAppend ==
  ASSUME NEW A, IsFiniteSet(A), A \subseteq Nat, NEW m \in Nat, \A a \in A : a < m,
         InOrder(A) \in Seq(A)
  PROVE  InOrder(A \cup {m}) = Append(InOrder(A), m)
<1> DEFINE B == A \cup {m}  c == Cardinality(A)
           e(n) == CHOOSE i \in A : Cardinality({j \in A : j < i}) = n - 1
           f(n) == CHOOSE i \in B : Cardinality({j \in B : j < i}) = n - 1
<1>1. c \in Nat /\ Cardinality(B) = c + 1
  <2>1. m \notin A
    OBVIOUS
  <2> QED BY <2>1, FS_AddElement, FS_CardinalityType
<1>2. {j \in B : j < m} = A /\ \A i \in A : {j \in B : j < i} = {j \in A : j < i}
  <2>1. \A j \in A : j \in Nat /\ j < m /\ ~(m < j)
    OBVIOUS
  <2>2. ~(m < m)
    OBVIOUS
  <2> QED BY <2>1, <2>2
<1>3. ASSUME NEW i \in A
      PROVE  /\ Cardinality({j \in A : j < i}) \in Nat
             /\ Cardinality({j \in A : j < i}) < c
  <2> DEFINE C == {j \in A : j < i}
  <2>1. C \subseteq A /\ i \notin C /\ i \in A
    OBVIOUS
  <2> HIDE DEF C
  <2>2. Cardinality(C) \in Nat /\ Cardinality(C) <= c /\ (Cardinality(C) = c => C = A)
    BY <2>1, FS_Subset, FS_CardinalityType
  <2>3. C # A
    BY <2>1
  <2> HIDE DEF c
  <2>4. Cardinality(C) \in Nat /\ Cardinality(C) < c
    BY <1>1, <2>2, <2>3
  <2> QED BY <2>4 DEF C
<1>4. ASSUME NEW n \in 1 .. c PROVE f(n) = e(n)
  <2>1. n - 1 # c /\ n - 1 \in Nat
    BY <1>1
  <2>2. \A i : (i \in B /\ Cardinality({j \in B : j < i}) = n - 1)
               <=> (i \in A /\ Cardinality({j \in A : j < i}) = n - 1)
    <3>1. Cardinality({j \in B : j < m}) # n - 1
      BY <1>2, <2>1
    <3> HIDE DEF c
    <3> QED BY <1>2, <3>1
  <2> HIDE DEF B, c
  <2> QED BY <2>2, Zenon
<1>5. f(c + 1) = m
  <2>1. (c + 1) - 1 = c
    BY <1>1
  <2>2. m \in B /\ Cardinality({j \in B : j < m}) = c
    BY <1>2
  <2>3. ASSUME NEW i \in B, Cardinality({j \in B : j < i}) = c PROVE i = m
    <3> SUFFICES ASSUME i \in A PROVE FALSE
      OBVIOUS
    <3>1. Cardinality({j \in A : j < i}) = c
      BY <1>2, <2>3
    <3> HIDE DEF c
    <3> QED BY <1>1, <1>3, <3>1
  <2> HIDE DEF B, c
  <2> QED BY <2>1, <2>2, <2>3
<1>6. InOrder(A) = [n \in 1 .. c |-> e(n)] /\ InOrder(B) = [n \in 1 .. c + 1 |-> f(n)]
  BY <1>1 DEF InOrder
<1> DEFINE s == InOrder(A)  r == InOrder(B)
<1>7. /\ s \in Seq(A) /\ DOMAIN s = 1 .. c /\ \A n \in 1 .. c : s[n] = f(n)
      /\ r = [n \in 1 .. c + 1 |-> f(n)]
  BY <1>4, <1>6
<1> HIDE DEF s, r, e, f, c, B
<1>8. Len(s) = c
  BY <1>1, <1>7
<1>9. \A n \in 1 .. c + 1 : r[n] = IF n <= c THEN s[n] ELSE m
  <2>1. \A n \in 1 .. c + 1 : n \in 1 .. c \/ (n = c + 1 /\ ~(n <= c))
    BY <1>1
  <2> QED BY <1>1, <1>5, <1>7, <2>1
<1>10. s \in Seq(Nat) /\ \A n \in 1 .. c : s[n] \in Nat
  <2>1. s \in Seq(Nat)
    BY <1>7, SeqMonotonic
  <2> QED BY <1>8, <2>1
<1>11. r \in Seq(Nat) /\ Len(r) = c + 1
  <2>1. \A n \in 1 .. c + 1 : r[n] \in Nat
    <3>1. \A n \in 1 .. c + 1 : n <= c => n \in 1 .. c
      BY <1>1
    <3> QED BY <1>9, <1>10, <3>1
  <2>2. r = [n \in 1 .. c + 1 |-> r[n]]
    BY <1>7
  <2>3. c + 1 \in Nat /\ r \in [1 .. c + 1 -> Nat]
    BY <1>1, <2>1, <2>2
  <2>4. r \in Seq(Nat)
    BY <2>3, SeqDef
  <2> QED BY <2>3, <2>4
<1>12. /\ Append(s, m) \in Seq(Nat) /\ Len(Append(s, m)) = c + 1
       /\ \A n \in 1 .. c + 1 : Append(s, m)[n] = IF n <= c THEN s[n] ELSE m
  BY <1>1, <1>8, <1>10
<1>13. r = Append(s, m)
  <2> DEFINE q == Append(s, m)
  <2>1. q \in Seq(Nat) /\ Len(r) = Len(q) /\ \A n \in 1 .. Len(r) : r[n] = q[n]
    BY <1>9, <1>11, <1>12
  <2> HIDE DEF q
  <2>2. r = q
    BY <1>11, <2>1, SeqEqual
  <2> QED BY <2>2 DEF q
<1> QED BY <1>13 DEF r, s, B

\* Nothing is in order.
LEMMA OrderEmpty == InOrder({}) = <<>>
<1>1. Cardinality({}) = 0
  BY FS_EmptySet
<1> QED BY <1>1 DEF InOrder

\* Every element of a set has its place.
LEMMA OrderLists ==
  ASSUME NEW A, NEW n \in Nat, A \subseteq 1 .. n
  PROVE  Lists(InOrder(A), A)
<1> DEFINE P(k) == {i \in A : i <= k}
           T == {k \in Nat : k <= n /\ ~Lists(InOrder(P(k)), P(k))}
<1>1. ASSUME T # {} PROVE FALSE
  <2>1. PICK x \in T : \A y \in T : x <= y
    <3>1. T \subseteq Nat
      OBVIOUS
    <3> HIDE DEF T
    <3> QED BY <1>1, <3>1, LeastOf
  <2>2. x # 0
    <3>1. P(0) = {}
      <4> SUFFICES ASSUME NEW i \in A, i <= 0 PROVE FALSE
        OBVIOUS
      <4>1. i \in 1 .. n
        OBVIOUS
      <4> QED BY <4>1
    <3>2. Lists(<<>>, {})
      BY DEF Lists
    <3> HIDE DEF P
    <3> QED BY <2>1, <3>1, <3>2, OrderEmpty
  <2>3. x - 1 \in Nat /\ ~(x <= x - 1) /\ x - 1 <= n /\ x \in Nat
    BY <2>2
  <2> DEFINE C == P(x - 1)  s == InOrder(C)
  <2>4. Lists(s, C)
    BY <2>1, <2>3
  <2>5. IsFiniteSet(C) /\ C \subseteq Nat /\ \A a \in C : a < x
    <3>1. C \subseteq 1 .. n
      OBVIOUS
    <3>2. IsFiniteSet(C)
      <4> HIDE DEF C
      <4> QED BY <3>1, FiniteUpTo
    <3> QED BY <2>3, <3>1, <3>2
  <2>6. CASE x \in A
    <3>1. P(x) = C \cup {x}
      <4>1. \A i \in A : i <= x <=> i <= x - 1 \/ i = x
        BY <2>3
      <4> QED BY <2>6, <4>1
    <3> HIDE DEF C
    <3>2. InOrder(C \cup {x}) = Append(s, x)
      BY <2>3, <2>4, <2>5, OrderAppend DEF Lists
    <3> HIDE DEF s
    <3>3. s \in Seq(C) /\ \A a \in C : \E j \in 1 .. Len(s) : s[j] = a
      BY <2>4 DEF Lists
    <3>4. /\ Append(s, x) \in Seq(C \cup {x}) /\ Len(Append(s, x)) = Len(s) + 1
          /\ Append(s, x)[Len(s) + 1] = x /\ Len(s) \in Nat
          /\ \A j \in 1 .. Len(s) : Append(s, x)[j] = s[j]
      <4>1. s \in Seq(C \cup {x})
        BY <3>3
      <4> QED BY <4>1
    <3>5. ASSUME NEW a \in C \cup {x}
          PROVE  \E j \in 1 .. Len(Append(s, x)) : Append(s, x)[j] = a
      <4>1. CASE a = x
        BY <3>4, <4>1
      <4>2. CASE a \in C
        <5>1. PICK j \in 1 .. Len(s) : s[j] = a
          BY <3>3, <4>2
        <5>2. j \in 1 .. Len(s) + 1
          BY <3>4
        <5> QED BY <3>4, <5>1, <5>2
      <4> QED BY <4>1, <4>2
    <3>6. Lists(Append(s, x), C \cup {x})
      BY <3>4, <3>5 DEF Lists
    <3> QED BY <2>1, <3>1, <3>2, <3>6
  <2>7. CASE x \notin A
    <3>1. P(x) = C
      <4>1. \A i \in A : i <= x <=> i <= x - 1
        BY <2>3, <2>7
      <4> QED BY <4>1
    <3> QED BY <2>1, <2>4, <3>1
  <2> QED BY <2>6, <2>7
<1>2. n \notin T
  BY <1>1
<1>3. P(n) = A
  <2>1. \A i \in A : i <= n
    OBVIOUS
  <2> QED BY <2>1
<1> HIDE DEF P
<1> QED BY <1>2, <1>3

\* One more number at the end, if it is there.
LEMMA OrderMore ==
  ASSUME NEW A, NEW n \in Nat, A \subseteq 1 .. n
  PROVE  /\ InOrder(A) \in Seq(A) /\ InOrder(A) \in Seq(1 .. n)
         /\ InOrder(A \cup {n + 1}) = Append(InOrder(A), n + 1)
<1>1. Lists(InOrder(A), A)
  BY OrderLists
<1>2. InOrder(A) \in Seq(A)
  BY <1>1 DEF Lists
<1>3. IsFiniteSet(A)
  BY FiniteUpTo
<1>4. n + 1 \in Nat /\ A \subseteq Nat /\ \A a \in A : a < n + 1
  OBVIOUS
<1>5. InOrder(A \cup {n + 1}) = Append(InOrder(A), n + 1)
  BY <1>2, <1>3, <1>4, OrderAppend
<1>6. InOrder(A) \in Seq(1 .. n)
  BY <1>2, SeqMonotonic
<1> QED BY <1>2, <1>5, <1>6

-----------------------------------------------------------------------------
(* What the lines read so far say.                                         *)

\* R has the lines of S, which are among the first n, and perhaps the next one.
OneMore(S, R, n) == S \subseteq 1 .. n /\ (R = S \/ R = S \cup {n + 1})

\* The values for k in R are those in S and that of the next line, if it is a directive
\* of that key.
GivenGrows(t, S, R, n, k) ==
  /\ Given(t, S, k) \in Seq(Seq(Nat))
  /\ n + 1 \in R /\ t[n + 1].kind = "set" /\ t[n + 1].key = k =>
       Given(t, R, k) = Append(Given(t, S, k), t[n + 1].value)
  /\ ~(n + 1 \in R /\ t[n + 1].kind = "set" /\ t[n + 1].key = k) =>
       Given(t, R, k) = Given(t, S, k)

\* A line in the set adds its value.
LEMMA GivenMore ==
  ASSUME NEW t \in Seq(Line), NEW n \in Nat, n + 1 <= Len(t), NEW S, NEW R, OneMore(S, R, n), NEW k
  PROVE  GivenGrows(t, S, R, n, k)
<1>0. S \subseteq 1 .. n /\ (R = S \/ R = S \cup {n + 1})
  BY DEF OneMore
<1> DEFINE m == n + 1
           of(U) == {i \in U : t[i].kind = "set" /\ t[i].key = k}
           A == of(S)  at == InOrder(A)
<1>1. A \subseteq 1 .. n /\ m \in Nat /\ m \notin S
  <2>1. m \in Nat /\ m \notin 1 .. n
    OBVIOUS
  <2> HIDE DEF m
  <2> QED BY <1>0, <2>1
<1>2. at \in Seq(A) /\ at \in Seq(1 .. n) /\ InOrder(A \cup {m}) = Append(at, m)
  <2> HIDE DEF A
  <2> QED BY <1>1, OrderMore
<1>3. \A U : Given(t, U, k) = [j \in DOMAIN InOrder(of(U)) |-> t[InOrder(of(U))[j]].value]
  BY DEF Given
<1>4. \A i \in 1 .. m : t[i].value \in Seq(Nat)
  <2>1. \A i \in 1 .. m : t[i] \in Line
    OBVIOUS
  <2> QED BY <2>1 DEF Line, Values
<1> DEFINE g == Given(t, S, k)
<1>5. /\ g = [j \in 1 .. Len(at) |-> t[at[j]].value] /\ g \in Seq(Seq(Nat)) /\ Len(g) = Len(at)
      /\ Len(at) \in Nat
  <2>1. g = [j \in DOMAIN at |-> t[at[j]].value]
    BY <1>3
  <2> HIDE DEF at, g, of
  <2>2. Len(at) \in Nat /\ DOMAIN at = 1 .. Len(at) /\ \A j \in 1 .. Len(at) : at[j] \in 1 .. n
    BY <1>2
  <2>3. \A j \in 1 .. Len(at) : t[at[j]].value \in Seq(Nat)
    <3>1. \A i \in 1 .. n : i \in 1 .. m
      OBVIOUS
    <3> QED BY <1>4, <2>2, <3>1
  <2> QED BY <2>1, <2>2, <2>3
<1>6. CASE m \in R /\ t[m].kind = "set" /\ t[m].key = k
  <2>1. of(R) = A \cup {m}
    BY <1>0, <1>1, <1>6
  <2> DEFINE b == Append(at, m)
  <2>2. Given(t, R, k) = [j \in DOMAIN b |-> t[b[j]].value]
    <3> HIDE DEF A, of, at
    <3>1. InOrder(of(R)) = b
      BY <1>2, <2>1 DEF at
    <3> HIDE DEF b
    <3> QED BY <1>3, <3>1
  <2> HIDE DEF of, at, g
  <2>3. /\ DOMAIN b = 1 .. Len(at) + 1 /\ b[Len(at) + 1] = m
        /\ \A j \in 1 .. Len(at) : b[j] = at[j]
    BY <1>2
  <2> HIDE DEF b
  <2> DEFINE r == Given(t, R, k)  v == t[m].value  c == Len(at)  q == Append(g, v)
  <2>4. v \in Seq(Nat)
    BY <1>1, <1>4
  <2>5. /\ q \in Seq(Seq(Nat)) /\ Len(q) = c + 1 /\ q[c + 1] = v
        /\ \A j \in 1 .. c : q[j] = g[j]
    <3> HIDE DEF v
    <3> QED BY <1>5, <2>4
  <2>6. DOMAIN r = 1 .. c + 1 /\ r = [j \in 1 .. c + 1 |-> r[j]]
    BY <2>2, <2>3
  <2>7. \A j \in 1 .. c + 1 : r[j] = t[b[j]].value
    BY <2>2, <2>3
  <2> HIDE DEF r, v, q, m
  <2>8. ASSUME NEW j \in 1 .. c + 1 PROVE r[j] = q[j]
    <3>1. CASE j \in 1 .. c
      <4>1. r[j] = t[at[j]].value
        BY <2>3, <2>7, <3>1
      <4>2. g[j] = t[at[j]].value
        BY <1>5, <3>1
      <4> QED BY <2>5, <3>1, <4>1, <4>2
    <3>2. CASE j = c + 1
      <4>1. r[j] = t[m].value
        BY <2>3, <2>7, <3>2
      <4> QED BY <2>5, <3>2, <4>1 DEF v
    <3>3. j \in 1 .. c \/ j = c + 1
      BY <1>5
    <3> QED BY <3>1, <3>2, <3>3
  <2>9. r = q
    <3>1. DOMAIN q = 1 .. c + 1 /\ q = [j \in 1 .. c + 1 |-> q[j]]
      BY <2>5
    <3> QED BY <2>6, <2>8, <3>1
  <2>10. g \in Seq(Seq(Nat)) /\ r = Append(g, v) /\ m \in R /\ t[m].kind = "set" /\ t[m].key = k
    BY <1>5, <1>6, <2>9 DEF q
  <2> QED BY <2>10, Zenon DEF r, v, g, m, GivenGrows
<1>7. CASE ~(m \in R /\ t[m].kind = "set" /\ t[m].key = k)
  <2>1. of(R) = A
    BY <1>0, <1>1, <1>7
  <2> HIDE DEF A, of
  <2>2. Given(t, R, k) = Given(t, S, k)
    BY <1>3, <2>1 DEF A
  <2>3. g \in Seq(Seq(Nat))
    BY <1>5
  <2> HIDE DEF at
  <2> QED BY <1>7, <2>2, <2>3, Zenon DEF GivenGrows
<1> QED BY <1>6, <1>7

\* No line, no value.
LEMMA GivenNothing ==
  ASSUME NEW t \in Seq(Line), NEW k
  PROVE  Given(t, {}, k) = <<>>
<1>1. {i \in {} : t[i].kind = "set" /\ t[i].key = k} = {}
  OBVIOUS
<1>2. InOrder({i \in {} : t[i].kind = "set" /\ t[i].key = k}) = <<>>
  BY <1>1, OrderEmpty
<1> QED BY <1>2 DEF Given

\* The last of the values and all of them, with one more.
LEMMA ValuesMore ==
  ASSUME NEW g \in Seq(Seq(Nat)), NEW v \in Seq(Nat)
  PROVE  LastOf(Append(g, v)) = v /\ FlattenSeq(Append(g, v)) = FlattenSeq(g) \o v
<1>1. Append(g, v) # <<>> /\ Append(g, v)[Len(Append(g, v))] = v
  <2>1. Len(Append(g, v)) = Len(g) + 1 /\ Len(g) \in Nat /\ Append(g, v)[Len(g) + 1] = v
    OBVIOUS
  <2> DEFINE h == Append(g, v)
  <2>2. Len(h) = Len(g) + 1 /\ Len(g) \in Nat /\ h[Len(g) + 1] = v
    BY <2>1
  <2> HIDE DEF h
  <2>3. h # <<>> /\ h[Len(h)] = v
    <3>1. ASSUME h = <<>> PROVE FALSE
      <4>1. Len(h) = 0
        BY <3>1
      <4> QED BY <2>2, <4>1
    <3> QED BY <2>2, <3>1
  <2> QED BY <2>3 DEF h
<1>2. LastOf(Append(g, v)) = v
  BY <1>1 DEF LastOf
<1>3. FlattenSeq(Append(g, v)) = FlattenSeq(g) \o v
  BY FlattenAppend
<1> QED BY <1>2, <1>3

\* What the parser holds of a peer is what the lines in S say, apart from the address that
\* the resolver gave.
PeerSays(q, t, S) ==
  /\ q.public_key = LastOf(Given(t, S, "publickey"))
  /\ q.preshared_key = LastOf(Given(t, S, "presharedkey"))
  /\ q.allowed_ips = FlattenSeq(Given(t, S, "allowedips"))
  /\ q.endpoint_literal = LastOf(Given(t, S, "endpoint"))
  /\ q.persistent_keepalive = LastOf(Given(t, S, "persistentkeepalive"))
  /\ (q.endpoint = None) <=> (q.endpoint_literal = None)

\* What it holds of [Interface] is what the lines in S say.
InterfaceSays(s, t, S) ==
  /\ s.private_key = LastOf(Given(t, S, "privatekey"))
  /\ s.mtu = LastOf(Given(t, S, "mtu"))
  /\ s.address = FlattenSeq(Given(t, S, "address"))
  /\ s.dns = FlattenSeq(Given(t, S, "dns"))
  /\ \A k \in HookKeys : s.hooks[k] = Given(t, S, k)

\* No line says nothing.
LEMMA SaysNothing ==
  ASSUME NEW t \in Seq(Line)
  PROVE  PeerSays(NoPeer, t, {}) /\ InterfaceSays(Start, t, {})
<1>1. \A k : Given(t, {}, k) = <<>>
  BY GivenNothing
<1>2. LastOf(<<>>) = <<>> /\ FlattenSeq(<<>>) = <<>>
  BY Zenon DEF LastOf, FlattenSeq, None
<1> QED BY <1>1, <1>2 DEF PeerSays, InterfaceSays, NoPeer, Start, None

\* A line outside the set or without a directive changes nothing.
LEMMA SaysStill ==
  ASSUME NEW t \in Seq(Line), NEW n \in Nat, n + 1 <= Len(t), NEW S, S \subseteq 1 .. n,
         NEW R, R = S \/ (R = S \cup {n + 1} /\ t[n + 1].kind # "set")
  PROVE  /\ \A q : PeerSays(q, t, S) => PeerSays(q, t, R)
         /\ \A s : InterfaceSays(s, t, S) => InterfaceSays(s, t, R)
<1>1. n + 1 \notin S
  OBVIOUS
<1>2. \A k : Given(t, R, k) = Given(t, S, k)
  <2> SUFFICES ASSUME NEW k PROVE Given(t, R, k) = Given(t, S, k)
    OBVIOUS
  <2>1. OneMore(S, R, n)
    BY DEF OneMore
  <2>2. ~(n + 1 \in R /\ t[n + 1].kind = "set" /\ t[n + 1].key = k)
    BY <1>1
  <2>3. GivenGrows(t, S, R, n, k)
    BY <2>1, GivenMore
  <2> QED BY <2>2, <2>3 DEF GivenGrows
<1>3. ASSUME NEW q, PeerSays(q, t, S) PROVE PeerSays(q, t, R)
  BY <1>2, <1>3, Zenon DEF PeerSays
<1>4. ASSUME NEW s, InterfaceSays(s, t, S) PROVE InterfaceSays(s, t, R)
  BY <1>2, <1>4, Zenon DEF InterfaceSays
<1> QED BY <1>3, <1>4

\* A directive of [Interface].
LEMMA InterfaceSaysMore ==
  ASSUME NEW t \in Seq(Line), NEW n \in Nat, n + 1 <= Len(t), NEW S, S \subseteq 1 .. n,
         NEW s \in State, InterfaceSays(s, t, S), t[n + 1].kind = "set",
         NEW u, u.ok, u = InterfaceLine(s, t[n + 1].key, t[n + 1].value)
  PROVE  InterfaceSays(u, t, S \cup {n + 1})
<1> DEFINE R == S \cup {n + 1}  k == t[n + 1].key  v == t[n + 1].value
           old(x) == Given(t, S, x)  new(x) == Given(t, R, x)
<1>1. t[n + 1] \in Line
  OBVIOUS
<1>2. v \in Seq(Nat)
  BY <1>1, ValueType DEF Values
<1>3. ASSUME NEW x
      PROVE  old(x) \in Seq(Seq(Nat)) /\ new(x) = IF x = k THEN Append(old(x), v) ELSE old(x)
  <2>1. n + 1 \in R /\ OneMore(S, R, n)
    BY DEF OneMore
  <2> HIDE DEF R
  <2>2. GivenGrows(t, S, R, n, x)
    BY <2>1, GivenMore
  <2> QED BY <2>1, <2>2 DEF GivenGrows
<1>4. InterfaceOutcome(s, k, v, u) /\ u # Fail(s)
  BY <1>1, InterfaceCases, LeftType
<1>5. /\ s.private_key = LastOf(old("privatekey")) /\ s.mtu = LastOf(old("mtu"))
      /\ s.address = FlattenSeq(old("address")) /\ s.dns = FlattenSeq(old("dns"))
      /\ \A x \in HookKeys : s.hooks[x] = old(x)
  BY DEF InterfaceSays
<1>6. LastOf(Append(old(k), v)) = v /\ FlattenSeq(Append(old(k), v)) = FlattenSeq(old(k)) \o v
  BY <1>2, <1>3, ValuesMore
<1>7. SUFFICES /\ u.private_key = LastOf(new("privatekey")) /\ u.mtu = LastOf(new("mtu"))
               /\ u.address = FlattenSeq(new("address")) /\ u.dns = FlattenSeq(new("dns"))
               /\ \A x \in HookKeys : u.hooks[x] = new(x)
  BY DEF InterfaceSays
<1> HIDE DEF k, v, old, new
<1>8. CASE k \in IgnoredKeys /\ u = s
  <2>1. k \notin {"privatekey", "mtu", "address", "dns"} \cup HookKeys
    BY <1>8 DEF IgnoredKeys, HookKeys
  <2> QED BY <1>3, <1>5, <1>8, <2>1
<1>9. CASE k = "privatekey" /\ u = [s EXCEPT !.private_key = v]
  <2>1. /\ u.private_key = v /\ u.mtu = s.mtu /\ u.address = s.address /\ u.dns = s.dns
        /\ u.hooks = s.hooks /\ k \notin {"mtu", "address", "dns"} \cup HookKeys
    BY <1>9 DEF State, HookKeys
  <2> QED BY <1>3, <1>5, <1>6, <1>9, <2>1
<1>10. CASE k = "mtu" /\ u = [s EXCEPT !.mtu = v]
  <2>1. /\ u.private_key = s.private_key /\ u.mtu = v /\ u.address = s.address /\ u.dns = s.dns
        /\ u.hooks = s.hooks /\ k \notin {"privatekey", "address", "dns"} \cup HookKeys
    BY <1>10 DEF State, HookKeys
  <2> QED BY <1>3, <1>5, <1>6, <1>10, <2>1
<1>11. CASE k = "address" /\ u = [s EXCEPT !.address = s.address \o v]
  <2>1. /\ u.private_key = s.private_key /\ u.mtu = s.mtu /\ u.address = s.address \o v
        /\ u.dns = s.dns /\ u.hooks = s.hooks /\ k \notin {"privatekey", "mtu", "dns"} \cup HookKeys
    BY <1>11 DEF State, HookKeys
  <2> QED BY <1>3, <1>5, <1>6, <1>11, <2>1
<1>12. CASE k = "dns" /\ u = [s EXCEPT !.dns = s.dns \o v]
  <2>1. /\ u.private_key = s.private_key /\ u.mtu = s.mtu /\ u.address = s.address
        /\ u.dns = s.dns \o v /\ u.hooks = s.hooks
        /\ k \notin {"privatekey", "mtu", "address"} \cup HookKeys
    BY <1>12 DEF State, HookKeys
  <2> QED BY <1>3, <1>5, <1>6, <1>12, <2>1
<1>13. CASE k \in HookKeys /\ u = [s EXCEPT !.hooks = [s.hooks EXCEPT ![k] = Append(s.hooks[k], v)]]
  <2> DEFINE h == Append(s.hooks[k], v)
  <2>1. /\ u.private_key = s.private_key /\ u.mtu = s.mtu /\ u.address = s.address
        /\ u.dns = s.dns /\ u.hooks = [s.hooks EXCEPT ![k] = h]
        /\ s.hooks \in [HookKeys -> Seq(Values)]
        /\ k \notin {"privatekey", "mtu", "address", "dns"}
    BY <1>13 DEF State, HookKeys
  <2>2. h = Append(old(k), v)
    BY <1>5, <1>13
  <2> HIDE DEF h
  <2>3. \A x \in HookKeys : u.hooks[x] = IF x = k THEN h ELSE s.hooks[x]
    BY <2>1
  <2> QED BY <1>3, <1>5, <2>1, <2>2, <2>3
<1> QED BY <1>4, <1>8, <1>9, <1>10, <1>11, <1>12, <1>13 DEF InterfaceOutcome

\* A directive of [Peer].
LEMMA PeerSaysMore ==
  ASSUME NEW t \in Seq(Line), NEW n \in Nat, n + 1 <= Len(t), NEW S, S \subseteq 1 .. n,
         NEW s \in State, PeerSays(s.peer, t, S), t[n + 1].kind = "set",
         NEW answer \in Answers,
         NEW u, u.ok, u = PeerLine(s, t[n + 1].key, t[n + 1].value, answer)
  PROVE  PeerSays(u.peer, t, S \cup {n + 1})
<1> DEFINE R == S \cup {n + 1}  k == t[n + 1].key  v == t[n + 1].value  q == s.peer  r == u.peer
           e == parse_endpoint(v, answer)
           old(x) == Given(t, S, x)  new(x) == Given(t, R, x)
<1>1. t[n + 1] \in Line
  OBVIOUS
<1>2. v \in Seq(Nat) /\ (k = "endpoint" => Len(v) = 1)
  BY <1>1, ValueType DEF Values
<1>3. ASSUME NEW x
      PROVE  old(x) \in Seq(Seq(Nat)) /\ new(x) = IF x = k THEN Append(old(x), v) ELSE old(x)
  <2>1. n + 1 \in R /\ OneMore(S, R, n)
    BY DEF OneMore
  <2> HIDE DEF R
  <2>2. GivenGrows(t, S, R, n, x)
    BY <2>1, GivenMore
  <2> QED BY <2>1, <2>2 DEF GivenGrows
<1>4. PeerOutcome(s, q, k, v, e, u) /\ u # Fail(s) /\ q \in Peer
  BY <1>1, PeerCases, LeftType DEF State
<1>5. /\ q.public_key = LastOf(old("publickey")) /\ q.preshared_key = LastOf(old("presharedkey"))
      /\ q.allowed_ips = FlattenSeq(old("allowedips"))
      /\ q.endpoint_literal = LastOf(old("endpoint"))
      /\ q.persistent_keepalive = LastOf(old("persistentkeepalive"))
      /\ (q.endpoint = None) <=> (q.endpoint_literal = None)
  BY DEF PeerSays
<1>6. LastOf(Append(old(k), v)) = v /\ FlattenSeq(Append(old(k), v)) = FlattenSeq(old(k)) \o v
  BY <1>2, <1>3, ValuesMore
<1>7. SUFFICES
        /\ r.public_key = LastOf(new("publickey")) /\ r.preshared_key = LastOf(new("presharedkey"))
        /\ r.allowed_ips = FlattenSeq(new("allowedips"))
        /\ r.endpoint_literal = LastOf(new("endpoint"))
        /\ r.persistent_keepalive = LastOf(new("persistentkeepalive"))
        /\ (r.endpoint = None) <=> (r.endpoint_literal = None)
  BY DEF PeerSays
<1>8. ASSUME NEW w, u = [s EXCEPT !.peer = w] PROVE r = w
  BY <1>8 DEF State
<1> HIDE DEF k, v, e, q, r, old, new
<1>9. CASE k = "publickey" /\ u = [s EXCEPT !.peer = [q EXCEPT !.public_key = v]]
  <2>1. r = [q EXCEPT !.public_key = v]
    BY <1>8, <1>9
  <2>2. /\ r.public_key = v /\ r.preshared_key = q.preshared_key /\ r.allowed_ips = q.allowed_ips
        /\ r.endpoint = q.endpoint /\ r.endpoint_literal = q.endpoint_literal
        /\ r.persistent_keepalive = q.persistent_keepalive
    BY <1>4, <2>1 DEF Peer
  <2> QED BY <1>3, <1>5, <1>6, <1>9, <2>2
<1>10. CASE k = "presharedkey" /\ u = [s EXCEPT !.peer = [q EXCEPT !.preshared_key = v]]
  <2>1. r = [q EXCEPT !.preshared_key = v]
    BY <1>8, <1>10
  <2>2. /\ r.public_key = q.public_key /\ r.preshared_key = v /\ r.allowed_ips = q.allowed_ips
        /\ r.endpoint = q.endpoint /\ r.endpoint_literal = q.endpoint_literal
        /\ r.persistent_keepalive = q.persistent_keepalive
    BY <1>4, <2>1 DEF Peer
  <2> QED BY <1>3, <1>5, <1>6, <1>10, <2>2
<1>11. CASE k = "allowedips" /\ u = [s EXCEPT !.peer = [q EXCEPT !.allowed_ips = q.allowed_ips \o v]]
  <2>1. r = [q EXCEPT !.allowed_ips = q.allowed_ips \o v]
    BY <1>8, <1>11
  <2>2. /\ r.public_key = q.public_key /\ r.preshared_key = q.preshared_key
        /\ r.allowed_ips = q.allowed_ips \o v
        /\ r.endpoint = q.endpoint /\ r.endpoint_literal = q.endpoint_literal
        /\ r.persistent_keepalive = q.persistent_keepalive
    BY <1>4, <2>1 DEF Peer
  <2> QED BY <1>3, <1>5, <1>6, <1>11, <2>2
<1>12. CASE k = "persistentkeepalive" /\ u = [s EXCEPT !.peer = [q EXCEPT !.persistent_keepalive = v]]
  <2>1. r = [q EXCEPT !.persistent_keepalive = v]
    BY <1>8, <1>12
  <2>2. /\ r.public_key = q.public_key /\ r.preshared_key = q.preshared_key
        /\ r.allowed_ips = q.allowed_ips
        /\ r.endpoint = q.endpoint /\ r.endpoint_literal = q.endpoint_literal
        /\ r.persistent_keepalive = v
    BY <1>4, <2>1 DEF Peer
  <2> QED BY <1>3, <1>5, <1>6, <1>12, <2>2
<1>13. CASE /\ k = "endpoint" /\ e # None
            /\ u = [s EXCEPT !.peer = [q EXCEPT !.endpoint = e, !.endpoint_literal = v]]
  <2>1. r = [q EXCEPT !.endpoint = e, !.endpoint_literal = v]
    BY <1>8, <1>13
  <2>2. /\ r.public_key = q.public_key /\ r.preshared_key = q.preshared_key
        /\ r.allowed_ips = q.allowed_ips /\ r.endpoint = e /\ r.endpoint_literal = v
        /\ r.persistent_keepalive = q.persistent_keepalive
    BY <1>4, <2>1 DEF Peer
  <2>3. v # None
    <3> SUFFICES ASSUME v = <<>> PROVE FALSE
      BY DEF None
    <3>1. Len(v) = 0
      OBVIOUS
    <3> QED BY <1>2, <1>13, <3>1
  <2> QED BY <1>3, <1>5, <1>6, <1>13, <2>2, <2>3
<1> QED BY <1>4, <1>9, <1>10, <1>11, <1>12, <1>13, Zenon DEF PeerOutcome

-----------------------------------------------------------------------------
(* The parser holds what the lines say.                                    *)

\* A peer that may be completed.
Complete(q) == q.public_key # None /\ q.allowed_ips # <<>>

\* The peers so far are complete and stand under the first headers; the one under way
\* stands under the last.
PeersSay(s, t, n) ==
  /\ \A j \in 1 .. Len(s.peers) :
       /\ PeerSays(s.peers[j], t, Under(t, n, Heads(t, n)[j])) /\ Complete(s.peers[j])
       /\ HeaderOf(t, n) # <<Heads(t, n)[j]>>
  /\ s.section = "peer" =>
       /\ Len(Heads(t, n)) = Len(s.peers) + 1
       /\ HeaderOf(t, n) = <<Heads(t, n)[Len(s.peers) + 1]>>
       /\ PeerSays(s.peer, t, Under(t, n, Heads(t, n)[Len(s.peers) + 1]))
  /\ s.section # "peer" => Len(Heads(t, n)) = Len(s.peers) /\ s.peer = NoPeer

\* The first n lines are legal, and s is what they say.
Partial(t, n, s) ==
  /\ s.section = Section(t, n)
  /\ InterfaceSays(s, t, InterfaceUpTo(t, n))
  /\ PeersSay(s, t, n)
  /\ \A i \in 1 .. n : LegalLine(t, i)

\* The headers of peers, with one more line.
LEMMA HeadsStep ==
  ASSUME NEW t \in Seq(Line), NEW n \in Nat, n + 1 <= Len(t)
  PROVE  /\ Heads(t, n) \in Seq(1 .. n)
         /\ t[n + 1].kind \in Headers /\ t[n + 1].key = "peer" =>
              Heads(t, n + 1) = Append(Heads(t, n), n + 1)
         /\ ~(t[n + 1].kind \in Headers /\ t[n + 1].key = "peer") => Heads(t, n + 1) = Heads(t, n)
<1> DEFINE is(i) == t[i].kind \in Headers /\ t[i].key = "peer"
           A == {i \in 1 .. n : is(i)}  B == {i \in 1 .. n + 1 : is(i)}
<1>1. Heads(t, n) = InOrder(A) /\ Heads(t, n + 1) = InOrder(B)
  BY DEF Heads
<1>2. \A i : i \in 1 .. n + 1 <=> i \in 1 .. n \/ i = n + 1
  OBVIOUS
<1>3. A \subseteq 1 .. n
  OBVIOUS
<1>4. is(n + 1) => B = A \cup {n + 1}
  <2> HIDE DEF is
  <2> QED BY <1>2
<1>5. ~is(n + 1) => B = A
  <2> HIDE DEF is
  <2> QED BY <1>2
<1> HIDE DEF A, B
<1>6. InOrder(A) \in Seq(1 .. n) /\ InOrder(A \cup {n + 1}) = Append(InOrder(A), n + 1)
  BY <1>3, OrderMore
<1> QED BY <1>1, <1>4, <1>5, <1>6

\* The lines under a header, with one more line.
LEMMA UnderStep ==
  ASSUME NEW t \in Seq(Line), NEW n \in Nat, n + 1 <= Len(t)
  PROVE  /\ t[n + 1].kind \in Headers =>
              /\ \A h \in 1 .. n : Under(t, n + 1, h) = Under(t, n, h) /\ HeaderOf(t, n + 1) # <<h>>
              /\ Under(t, n + 1, n + 1) = {} \cup {n + 1}
         /\ t[n + 1].kind \notin Headers =>
              \A h : Under(t, n + 1, h) = IF HeaderOf(t, n) = <<h>>
                                            THEN Under(t, n, h) \cup {n + 1}
                                            ELSE Under(t, n, h)
<1>1. \A i : i \in 1 .. n + 1 <=> i \in 1 .. n \/ i = n + 1
  OBVIOUS
<1>2. ASSUME t[n + 1].kind \in Headers
      PROVE  /\ \A h \in 1 .. n : Under(t, n + 1, h) = Under(t, n, h) /\ HeaderOf(t, n + 1) # <<h>>
             /\ Under(t, n + 1, n + 1) = {} \cup {n + 1}
  <2>1. HeaderOf(t, n + 1) = <<n + 1>>
    BY <1>2, HeaderStep
  <2>2. \A h \in 1 .. n : h # n + 1 /\ <<h>> # <<n + 1>>
    OBVIOUS
  <2>3. \A h \in 1 .. n : Under(t, n + 1, h) = Under(t, n, h)
    BY <1>1, <2>1, <2>2 DEF Under
  <2>4. ASSUME NEW i \in 1 .. n PROVE HeaderOf(t, i) # <<n + 1>>
    <3>1. HeaderOf(t, i) = None \/ \E h \in 1 .. i : HeaderOf(t, i) = <<h>>
      BY HeaderAbove
    <3>2. None # <<n + 1>>
      BY DEF None
    <3>3. \A h \in 1 .. i : <<h>> # <<n + 1>>
      <4>1. \A h \in 1 .. i : h # n + 1
        OBVIOUS
      <4> QED BY <4>1
    <3> QED BY <3>1, <3>2, <3>3
  <2>5. Under(t, n + 1, n + 1) = {n + 1}
    BY <1>1, <2>1, <2>4 DEF Under
  <2> QED BY <2>1, <2>2, <2>3, <2>5
<1>3. ASSUME t[n + 1].kind \notin Headers, NEW h
      PROVE  Under(t, n + 1, h) = IF HeaderOf(t, n) = <<h>>
                                    THEN Under(t, n, h) \cup {n + 1}
                                    ELSE Under(t, n, h)
  <2>1. HeaderOf(t, n + 1) = HeaderOf(t, n)
    BY <1>3, HeaderStep
  <2>2. CASE HeaderOf(t, n) = <<h>>
    <3>1. Under(t, n + 1, h) = Under(t, n, h) \cup {n + 1}
      BY <1>1, <2>1, <2>2 DEF Under
    <3> QED BY <2>2, <3>1
  <2>3. CASE HeaderOf(t, n) # <<h>>
    <3>1. Under(t, n + 1, h) = Under(t, n, h)
      BY <1>1, <2>1, <2>3 DEF Under
    <3> QED BY <2>3, <3>1
  <2> QED BY <2>2, <2>3
<1> QED BY <1>2, <1>3

\* The section, and the lines of interfaces, with one more line.
LEMMA SectionStep ==
  ASSUME NEW t \in Seq(Line), NEW n \in Nat, n + 1 <= Len(t)
  PROVE  /\ t[n + 1].kind \in Headers => Section(t, n + 1) = t[n + 1].key
         /\ t[n + 1].kind \notin Headers => Section(t, n + 1) = Section(t, n)
         /\ InterfaceUpTo(t, n + 1) = IF Section(t, n + 1) = "interface"
                                        THEN InterfaceUpTo(t, n) \cup {n + 1}
                                        ELSE InterfaceUpTo(t, n)
         /\ InterfaceUpTo(t, n) \subseteq 1 .. n
<1>1. \A i : i \in 1 .. n + 1 <=> i \in 1 .. n \/ i = n + 1
  OBVIOUS
<1>2. t[n + 1].kind \in Headers => Section(t, n + 1) = t[n + 1].key
  <2> SUFFICES ASSUME t[n + 1].kind \in Headers PROVE Section(t, n + 1) = t[n + 1].key
    OBVIOUS
  <2>1. HeaderOf(t, n + 1) = <<n + 1>>
    BY HeaderStep
  <2>2. <<n + 1>> # None /\ <<n + 1>>[1] = n + 1
    BY DEF None
  <2> QED BY <2>1, <2>2 DEF Section
<1>3. t[n + 1].kind \notin Headers => Section(t, n + 1) = Section(t, n)
  BY HeaderStep DEF Section
<1>4. Section(t, n + 1) = "interface" => InterfaceUpTo(t, n + 1) = InterfaceUpTo(t, n) \cup {n + 1}
  BY <1>1 DEF InterfaceUpTo
<1>5. Section(t, n + 1) # "interface" => InterfaceUpTo(t, n + 1) = InterfaceUpTo(t, n)
  BY <1>1 DEF InterfaceUpTo
<1>6. InterfaceUpTo(t, n) \subseteq 1 .. n
  BY DEF InterfaceUpTo
<1> QED BY <1>2, <1>3, <1>4, <1>5, <1>6

\* A line that leaves the peers so far alone.
LEMMA PeersStill ==
  ASSUME NEW t \in Seq(Line), NEW n \in Nat, n + 1 <= Len(t), t[n + 1].kind \notin Headers,
         NEW s \in State, PeersSay(s, t, n), NEW u,
         u.peers = s.peers, u.section = s.section,
         s.section # "peer" => u.peer = s.peer,
         s.section = "peer" =>
           PeerSays(u.peer, t, Under(t, n + 1, Heads(t, n)[Len(s.peers) + 1]))
  PROVE  PeersSay(u, t, n + 1)
<1>1. Heads(t, n + 1) = Heads(t, n) /\ HeaderOf(t, n + 1) = HeaderOf(t, n)
  BY HeadsStep, HeaderStep
<1>2. ASSUME NEW j \in 1 .. Len(s.peers)
      PROVE  /\ PeerSays(s.peers[j], t, Under(t, n + 1, Heads(t, n)[j])) /\ Complete(s.peers[j])
             /\ HeaderOf(t, n) # <<Heads(t, n)[j]>>
  <2>1. /\ PeerSays(s.peers[j], t, Under(t, n, Heads(t, n)[j])) /\ Complete(s.peers[j])
        /\ HeaderOf(t, n) # <<Heads(t, n)[j]>>
    BY DEF PeersSay
  <2>2. Under(t, n + 1, Heads(t, n)[j]) = Under(t, n, Heads(t, n)[j])
    BY <2>1, UnderStep
  <2> QED BY <2>1, <2>2
<1>3. s.section = "peer" =>
        /\ Len(Heads(t, n)) = Len(s.peers) + 1
        /\ HeaderOf(t, n) = <<Heads(t, n)[Len(s.peers) + 1]>>
  BY DEF PeersSay
<1>4. s.section # "peer" => Len(Heads(t, n)) = Len(s.peers) /\ s.peer = NoPeer
  BY DEF PeersSay
<1> QED BY <1>1, <1>2, <1>3, <1>4 DEF PeersSay

\* A blank line, or a directive that is passed over.
LEMMA PartialStill ==
  ASSUME NEW t \in Seq(Line), NEW n \in Nat, n + 1 <= Len(t), NEW s \in State, Partial(t, n, s),
         t[n + 1].kind \in {"blank", "empty"}
  PROVE  Partial(t, n + 1, s)
<1>0. t[n + 1].kind \notin Headers
  BY DEF Headers
<1>1. s.section = Section(t, n + 1)
  BY <1>0, SectionStep DEF Partial
<1>2. InterfaceSays(s, t, InterfaceUpTo(t, n + 1))
  <2> DEFINE S == InterfaceUpTo(t, n)  R == InterfaceUpTo(t, n + 1)
  <2>1. S \subseteq 1 .. n /\ (R = S \/ (R = S \cup {n + 1} /\ t[n + 1].kind # "set"))
    BY SectionStep
  <2>2. InterfaceSays(s, t, S)
    BY DEF Partial
  <2> HIDE DEF S, R
  <2>3. InterfaceSays(s, t, R)
    BY <2>1, <2>2, SaysStill
  <2> QED BY <2>3 DEF R
<1>3. PeersSay(s, t, n + 1)
  <2>1. PeersSay(s, t, n)
    BY DEF Partial
  <2>2. ASSUME s.section = "peer"
        PROVE  PeerSays(s.peer, t, Under(t, n + 1, Heads(t, n)[Len(s.peers) + 1]))
    <3> DEFINE h == Heads(t, n)[Len(s.peers) + 1]  S == Under(t, n, h)  R == Under(t, n + 1, h)
    <3>1. S \subseteq 1 .. n
      BY DEF Under
    <3>2. R = S \/ (R = S \cup {n + 1} /\ t[n + 1].kind # "set")
      BY <1>0, UnderStep
    <3>3. PeerSays(s.peer, t, S)
      BY <2>1, <2>2 DEF PeersSay
    <3> HIDE DEF S, R, h
    <3>4. PeerSays(s.peer, t, R)
      BY <3>1, <3>2, <3>3, SaysStill
    <3> QED BY <3>4 DEF R, h
  <2> QED BY <1>0, <2>1, <2>2, PeersStill
<1>4. \A i \in 1 .. n + 1 : LegalLine(t, i)
  <2>1. \A i \in 1 .. n + 1 : i \in 1 .. n \/ i = n + 1
    OBVIOUS
  <2>2. LegalLine(t, n + 1)
    BY DEF LegalLine, Headers
  <2> QED BY <2>1, <2>2 DEF Partial
<1> QED BY <1>1, <1>2, <1>3, <1>4 DEF Partial

\* A directive of [Interface].
LEMMA PartialInterface ==
  ASSUME NEW t \in Seq(Line), NEW n \in Nat, n + 1 <= Len(t), NEW s \in State, Partial(t, n, s),
         t[n + 1].kind = "set", s.section = "interface",
         NEW u, u.ok, u = InterfaceLine(s, t[n + 1].key, t[n + 1].value)
  PROVE  Partial(t, n + 1, u)
<1>0. t[n + 1].kind \notin Headers /\ t[n + 1] \in Line
  <2>1. n + 1 \in 1 .. Len(t)
    OBVIOUS
  <2> QED BY <2>1 DEF Headers
<1>1. /\ InterfaceOutcome(s, t[n + 1].key, t[n + 1].value, u) /\ u # Fail(s)
      /\ u.peers = s.peers /\ u.section = s.section /\ u.peer = s.peer
  <2>1. InterfaceOutcome(s, t[n + 1].key, t[n + 1].value, u) /\ u # Fail(s)
    BY <1>0, InterfaceCases, LeftType
  <2> DEFINE k == t[n + 1].key  v == t[n + 1].value
  <2>2. InterfaceOutcome(s, k, v, u)
    BY <2>1
  <2> HIDE DEF k, v
  <2>3. u.peers = s.peers /\ u.section = s.section /\ u.peer = s.peer
    BY <2>1, <2>2 DEF InterfaceOutcome, State
  <2> QED BY <2>1, <2>3
<1>2. u.section = Section(t, n + 1) /\ Section(t, n + 1) = "interface"
  BY <1>0, <1>1, SectionStep DEF Partial
<1>3. InterfaceSays(u, t, InterfaceUpTo(t, n + 1))
  <2> DEFINE S == InterfaceUpTo(t, n)
  <2>1. S \subseteq 1 .. n /\ InterfaceUpTo(t, n + 1) = S \cup {n + 1}
    BY <1>2, SectionStep
  <2>2. InterfaceSays(s, t, S)
    BY DEF Partial
  <2> HIDE DEF S
  <2>3. InterfaceSays(u, t, S \cup {n + 1})
    BY <2>1, <2>2, InterfaceSaysMore
  <2> QED BY <2>1, <2>3
<1>4. PeersSay(u, t, n + 1)
  <2>1. PeersSay(s, t, n)
    BY DEF Partial
  <2> QED BY <1>0, <1>1, <2>1, PeersStill
<1>5. \A i \in 1 .. n + 1 : LegalLine(t, i)
  <2>1. \A i \in 1 .. n + 1 : i \in 1 .. n \/ i = n + 1
    OBVIOUS
  <2>2. LegalLine(t, n + 1)
    <3> DEFINE k == t[n + 1].key  v == t[n + 1].value
    <3>1. \/ k \in HookKeys \cup IgnoredKeys
          \/ k \in ListKeys \cup {"privatekey"} /\ ParsesAll(v)
          \/ k = "mtu" /\ parse_mtu(v) # None
      <4>1. InterfaceOutcome(s, k, v, u) /\ u # Fail(s)
        BY <1>1
      <4> HIDE DEF k, v
      <4> QED BY <4>1, Zenon DEF InterfaceOutcome, ListKeys
    <3> QED BY <1>2, <3>1 DEF LegalLine, Headers
  <2> QED BY <2>1, <2>2 DEF Partial
<1> QED BY <1>2, <1>3, <1>4, <1>5 DEF Partial

\* A directive of [Peer].
LEMMA PartialPeer ==
  ASSUME NEW t \in Seq(Line), NEW n \in Nat, n + 1 <= Len(t), NEW s \in State, Partial(t, n, s),
         t[n + 1].kind = "set", s.section = "peer", NEW answer \in Answers,
         NEW u, u.ok, u = PeerLine(s, t[n + 1].key, t[n + 1].value, answer)
  PROVE  Partial(t, n + 1, u)
<1> DEFINE k == t[n + 1].key  v == t[n + 1].value
<1>0. t[n + 1].kind \notin Headers /\ t[n + 1] \in Line
  <2>1. n + 1 \in 1 .. Len(t)
    OBVIOUS
  <2> QED BY <2>1 DEF Headers
<1>1. PeerOutcome(s, s.peer, k, v, parse_endpoint(v, answer), u) /\ u # Fail(s)
  BY <1>0, PeerCases, LeftType
<1>2. /\ u.peers = s.peers /\ u.section = s.section /\ u.private_key = s.private_key
      /\ u.mtu = s.mtu /\ u.address = s.address /\ u.dns = s.dns /\ u.hooks = s.hooks
  <2> DEFINE e == parse_endpoint(v, answer)  q == s.peer
  <2>1. PeerOutcome(s, q, k, v, e, u)
    BY <1>1
  <2> HIDE DEF k, v, e, q
  <2>2. \E r : u = [s EXCEPT !.peer = r]
    BY <1>1, <2>1, Zenon DEF PeerOutcome
  <2> QED BY <2>2 DEF State
<1>3. u.section = Section(t, n + 1) /\ Section(t, n + 1) = "peer"
  BY <1>0, <1>2, SectionStep DEF Partial
<1>4. InterfaceSays(u, t, InterfaceUpTo(t, n + 1))
  <2>1. InterfaceUpTo(t, n + 1) = InterfaceUpTo(t, n)
    BY <1>3, SectionStep
  <2>2. InterfaceSays(s, t, InterfaceUpTo(t, n))
    BY DEF Partial
  <2> QED BY <1>2, <2>1, <2>2 DEF InterfaceSays
<1>5. PeersSay(u, t, n + 1)
  <2>1. PeersSay(s, t, n)
    BY DEF Partial
  <2> DEFINE h == Heads(t, n)[Len(s.peers) + 1]  S == Under(t, n, h)
  <2>2. S \subseteq 1 .. n
    BY DEF Under
  <2>3. HeaderOf(t, n) = <<h>> /\ PeerSays(s.peer, t, S)
    BY <2>1 DEF PeersSay
  <2>4. Under(t, n + 1, h) = S \cup {n + 1}
    BY <1>0, <2>3, UnderStep
  <2> HIDE DEF S, h
  <2>5. PeerSays(u.peer, t, S \cup {n + 1})
    BY <2>2, <2>3, PeerSaysMore
  <2>6. PeerSays(u.peer, t, Under(t, n + 1, h))
    BY <2>4, <2>5
  <2> QED BY <1>0, <1>2, <2>1, <2>6, PeersStill DEF h
<1>6. \A i \in 1 .. n + 1 : LegalLine(t, i)
  <2>1. \A i \in 1 .. n + 1 : i \in 1 .. n \/ i = n + 1
    OBVIOUS
  <2>2. k \in KNOWN_PEER_KEYS /\ ParsesAll(v)
    <3>1. k = "endpoint" => v \in Seq(Nat) /\ Len(v) = 1
      BY <1>0, ValueType DEF Values
    <3>2. k = "endpoint" /\ v[1] # Bad => ParsesAll(v)
      <4> SUFFICES ASSUME k = "endpoint", v[1] # Bad PROVE ParsesAll(v)
        OBVIOUS
      <4>1. DOMAIN v = 1 .. 1
        BY <3>1
      <4>2. \A i \in DOMAIN v : i = 1
        BY <4>1
      <4> QED BY <4>2 DEF ParsesAll
    <3> HIDE DEF k, v
    <3> QED BY <1>1, <3>2, Zenon DEF PeerOutcome, KNOWN_PEER_KEYS
  <2>3. LegalLine(t, n + 1)
    BY <1>3, <2>2 DEF LegalLine, Headers
  <2> QED BY <2>1, <2>3 DEF Partial
<1> QED BY <1>3, <1>4, <1>5, <1>6 DEF Partial

\* The peers, with the one under way, once it is complete.
LEMMA LeftSays ==
  ASSUME NEW t \in Seq(Line), NEW n \in Nat, n <= Len(t), NEW s \in State, PeersSay(s, t, n),
         Left(s).ok
  PROVE  /\ Left(s).peer = NoPeer /\ Len(Left(s).peers) = Len(Heads(t, n))
         /\ \A j \in 1 .. Len(Heads(t, n)) :
              /\ PeerSays(Left(s).peers[j], t, Under(t, n, Heads(t, n)[j]))
              /\ Complete(Left(s).peers[j])
         /\ Left(s).private_key = s.private_key /\ Left(s).mtu = s.mtu
         /\ Left(s).address = s.address /\ Left(s).dns = s.dns /\ Left(s).hooks = s.hooks
         /\ Left(s).section = s.section
<1>1. CASE s.section # "peer"
  BY <1>1 DEF Left, PeersSay
<1>2. CASE s.section = "peer"
  <2> DEFINE ps == Append(s.peers, s.peer)  hs == Heads(t, n)  c == Len(s.peers)
  <2>1. /\ Left(s) = [s EXCEPT !.peers = ps, !.peer = NoPeer]
        /\ Complete(s.peer)
    BY <1>2, LeftType DEF Left, flush_peer, Complete
  <2>2. /\ Left(s).private_key = s.private_key /\ Left(s).address = s.address
        /\ Left(s).dns = s.dns /\ Left(s).hooks = s.hooks /\ Left(s).peer = NoPeer
        /\ Left(s).peers = ps /\ Left(s).mtu = s.mtu /\ Left(s).section = s.section
    BY <2>1 DEF State
  <2>3. s.peers \in Seq(Peer)
    BY DEF State
  <2>4. /\ Len(ps) = c + 1 /\ c \in Nat /\ ps[c + 1] = s.peer /\ \A j \in 1 .. c : ps[j] = s.peers[j]
    BY <2>3
  <2>5. /\ Len(hs) = c + 1 /\ PeerSays(s.peer, t, Under(t, n, hs[c + 1]))
        /\ \A j \in 1 .. c : PeerSays(s.peers[j], t, Under(t, n, hs[j])) /\ Complete(s.peers[j])
    BY <1>2 DEF PeersSay
  <2> HIDE DEF ps, hs, c
  <2>6. ASSUME NEW j \in 1 .. c + 1 PROVE PeerSays(ps[j], t, Under(t, n, hs[j])) /\ Complete(ps[j])
    <3>1. CASE j \in 1 .. c
      BY <2>4, <2>5, <3>1
    <3>2. CASE j = c + 1
      BY <2>1, <2>4, <2>5, <3>2
    <3>3. j \in 1 .. c \/ j = c + 1
      BY <2>4
    <3> QED BY <3>1, <3>2, <3>3
  <2> QED BY <2>2, <2>4, <2>5, <2>6 DEF hs
<1> QED BY <1>1, <1>2

\* A header.
LEMMA PartialHeader ==
  ASSUME NEW t \in Seq(Line), NEW n \in Nat, n + 1 <= Len(t), NEW s \in State, Partial(t, n, s),
         t[n + 1].kind \in Headers, NEW u, u.ok, u = Header(s, t[n + 1].key)
  PROVE  Partial(t, n + 1, u)
<1> DEFINE k == t[n + 1].key  r == Left(s)  m == n + 1  hs == Heads(t, n)  gs == Heads(t, m)
<1>1. k \in {"interface", "peer"} /\ u = [r EXCEPT !.section = k] /\ r \in State
  BY LeftType DEF Header
<1>2. r.ok
  BY <1>1 DEF State
<1>3. /\ u.private_key = r.private_key /\ u.mtu = r.mtu /\ u.address = r.address /\ u.dns = r.dns
      /\ u.hooks = r.hooks /\ u.peers = r.peers /\ u.peer = r.peer /\ u.section = k
  <2> HIDE DEF r, k
  <2> QED BY <1>1 DEF State
<1>4. /\ r.peer = NoPeer /\ Len(r.peers) = Len(hs)
      /\ \A j \in 1 .. Len(hs) : PeerSays(r.peers[j], t, Under(t, n, hs[j])) /\ Complete(r.peers[j])
      /\ r.private_key = s.private_key /\ r.mtu = s.mtu
      /\ r.address = s.address /\ r.dns = s.dns /\ r.hooks = s.hooks
  <2>1. PeersSay(s, t, n) /\ n <= Len(t)
    BY DEF Partial
  <2> QED BY <1>2, <2>1, LeftSays
<1>5. u.section = Section(t, m)
  BY <1>3, SectionStep
<1>6. InterfaceSays(u, t, InterfaceUpTo(t, m))
  <2> DEFINE S == InterfaceUpTo(t, n)  R == InterfaceUpTo(t, m)
  <2>1. S \subseteq 1 .. n /\ (R = S \/ R = S \cup {n + 1})
    BY SectionStep
  <2>2. t[n + 1].kind # "set"
    BY DEF Headers
  <2>3. InterfaceSays(s, t, S)
    BY DEF Partial
  <2> HIDE DEF S, R, r, m
  <2>4. InterfaceSays(s, t, R)
    BY <2>1, <2>2, <2>3, SaysStill
  <2>5. InterfaceSays(u, t, R)
    BY <1>3, <1>4, <2>4 DEF InterfaceSays
  <2> QED BY <2>5 DEF R
<1>7. hs \in Seq(1 .. n) /\ gs = IF k = "peer" THEN Append(hs, m) ELSE hs
  <2>1. /\ k = "peer" => gs = Append(hs, m)
        /\ k # "peer" => gs = hs
        /\ hs \in Seq(1 .. n)
    BY HeadsStep
  <2> QED BY <2>1
<1>8. /\ \A h \in 1 .. n : Under(t, m, h) = Under(t, n, h) /\ HeaderOf(t, m) # <<h>>
      /\ Under(t, m, m) = {} \cup {n + 1} /\ HeaderOf(t, m) = <<m>>
  BY UnderStep, HeaderStep
<1>9. PeerSays(NoPeer, t, {} \cup {n + 1})
  <2> DEFINE R == {} \cup {n + 1}
  <2>1. PeerSays(NoPeer, t, {}) /\ {} \subseteq 1 .. n /\ R = {} \cup {n + 1}
    BY SaysNothing
  <2>2. t[n + 1].kind # "set"
    BY DEF Headers
  <2> HIDE DEF R
  <2>3. PeerSays(NoPeer, t, R)
    BY <2>1, <2>2, SaysStill
  <2> QED BY <2>3 DEF R
<1> HIDE DEF r, hs, gs, k
<1>10. /\ Len(hs) \in Nat /\ \A j \in 1 .. Len(hs) : gs[j] = hs[j] /\ hs[j] \in 1 .. n
       /\ k = "peer" => Len(gs) = Len(hs) + 1 /\ gs[Len(hs) + 1] = m
       /\ k # "peer" => Len(gs) = Len(hs)
  <2>1. \A j \in 1 .. Len(hs) : hs[j] \in 1 .. n
    BY <1>7
  <2>2. hs \in Seq(Nat)
    BY <1>7, SeqMonotonic
  <2>3. CASE k = "peer"
    <3>1. gs = Append(hs, m)
      BY <1>7, <2>3
    <3> HIDE DEF m
    <3>2. /\ Len(gs) = Len(hs) + 1 /\ gs[Len(hs) + 1] = m
          /\ \A j \in 1 .. Len(hs) : gs[j] = hs[j]
      BY <2>2, <3>1
    <3> QED BY <2>1, <2>2, <2>3, <3>2
  <2>4. CASE k # "peer"
    BY <1>7, <2>1, <2>2, <2>4
  <2> QED BY <2>3, <2>4
<1>11. ASSUME NEW j \in 1 .. Len(u.peers)
       PROVE  /\ PeerSays(u.peers[j], t, Under(t, m, gs[j])) /\ Complete(u.peers[j])
              /\ HeaderOf(t, m) # <<gs[j]>>
  <2>1. j \in 1 .. Len(hs) /\ u.peers[j] = r.peers[j]
    BY <1>3, <1>4
  <2>2. gs[j] = hs[j] /\ hs[j] \in 1 .. n
    BY <1>10, <2>1
  <2>3. Under(t, m, gs[j]) = Under(t, n, hs[j]) /\ HeaderOf(t, m) # <<gs[j]>>
    BY <1>8, <2>2
  <2> QED BY <1>4, <2>1, <2>3
<1>12. PeersSay(u, t, m)
  <2>1. Len(u.peers) = Len(hs) /\ u.section = k /\ u.peer = NoPeer
    BY <1>3, <1>4
  <2>2. k = "peer" => /\ Len(gs) = Len(u.peers) + 1 /\ HeaderOf(t, m) = <<gs[Len(u.peers) + 1]>>
                      /\ PeerSays(u.peer, t, Under(t, m, gs[Len(u.peers) + 1]))
    BY <1>8, <1>9, <1>10, <2>1
  <2>3. k # "peer" => Len(gs) = Len(u.peers) /\ u.peer = NoPeer
    BY <1>10, <2>1
  <2> QED BY <1>11, <2>1, <2>2, <2>3 DEF PeersSay, gs
<1>13. \A i \in 1 .. m : LegalLine(t, i)
  <2>1. \A i \in 1 .. m : i \in 1 .. n \/ i = m
    OBVIOUS
  <2>2. LegalLine(t, m)
    BY <1>1 DEF LegalLine, Headers, k
  <2> QED BY <2>1, <2>2 DEF Partial
<1> QED BY <1>5, <1>6, <1>12, <1>13 DEF Partial

\* Nothing has been read.
LEMMA PartialStart ==
  ASSUME NEW t \in Seq(Line)
  PROVE  Partial(t, 0, Start)
<1>1. 1 .. 0 = {}
  OBVIOUS
<1>2. HeaderOf(t, 0) = None
  BY <1>1, HeaderAbove
<1>3. Start.section = Section(t, 0)
  BY <1>2 DEF Start, Section
<1>4. InterfaceUpTo(t, 0) = {}
  BY <1>1 DEF InterfaceUpTo
<1>5. Heads(t, 0) = <<>>
  <2>1. {i \in 1 .. 0 : t[i].kind \in Headers /\ t[i].key = "peer"} = {}
    BY <1>1
  <2> QED BY <2>1, OrderEmpty DEF Heads
<1>6. PeersSay(Start, t, 0)
  <2>1. Start.peers = <<>> /\ Start.section = "none" /\ Start.peer = NoPeer
    BY DEF Start
  <2>2. Len(<<>>) = 0
    OBVIOUS
  <2> QED BY <1>1, <1>5, <2>1, <2>2 DEF PeersSay
<1> QED BY <1>1, <1>3, <1>4, <1>6, SaysNothing DEF Partial

\* A line that is accepted.
LEMMA PartialStep ==
  ASSUME NEW t \in Seq(Line), NEW n \in Nat, n + 1 <= Len(t), NEW s \in State, Partial(t, n, s),
         NEW u, u.ok, LineStep(s, t[n + 1], u)
  PROVE  Partial(t, n + 1, u)
<1>1. u # Fail(s)
  BY LeftType
<1>2. CASE t[n + 1].kind \in Headers /\ u = Header(s, t[n + 1].key)
  BY <1>2, PartialHeader
<1>3. CASE t[n + 1].kind \in {"blank", "empty"} /\ u = s
  BY <1>3, PartialStill
<1>4. CASE t[n + 1].kind = "set" /\ s.section = "interface"
           /\ u = InterfaceLine(s, t[n + 1].key, t[n + 1].value)
  BY <1>4, PartialInterface
<1>5. ASSUME t[n + 1].kind = "set", s.section = "peer", NEW answer \in Answers,
             u = PeerLine(s, t[n + 1].key, t[n + 1].value, answer)
      PROVE  Partial(t, n + 1, u)
  BY <1>5, PartialPeer
<1> QED BY <1>1, <1>2, <1>3, <1>4, <1>5 DEF LineStep

\* A pass in good order holds what the lines read so far say, and they are legal.
LEMMA TraceSays ==
  ASSUME NEW t \in Seq(Line), NEW tr, NEW n \in Nat, n <= Len(t), Trace(t, tr, n), tr[n].ok
  PROVE  Partial(t, n, tr[n])
<1> DEFINE T == {k \in Nat : k <= n /\ ~Partial(t, k, tr[k])}
<1>1. SUFFICES ASSUME T # {} PROVE FALSE
  OBVIOUS
<1>2. PICK x \in T : \A y \in T : x <= y
  <2>1. T \subseteq Nat
    OBVIOUS
  <2> HIDE DEF T
  <2> QED BY <1>1, <2>1, LeastOf
<1>3. x # 0
  BY <1>2, PartialStart DEF Trace
<1>4. /\ x - 1 \in Nat /\ x - 1 <= n /\ ~(x <= x - 1) /\ x - 1 \in 0 .. n - 1 /\ (x - 1) + 1 = x
      /\ x \in 1 .. Len(t) /\ x - 1 \in 0 .. n /\ x \in 0 .. n /\ (x - 1) + 1 <= Len(t)
  BY <1>3
<1>5. Partial(t, x - 1, tr[x - 1])
  BY <1>2, <1>4
<1>6. LineStep(tr[x - 1], t[x], tr[x]) /\ tr[x - 1] \in State
  BY <1>4 DEF Trace
<1>7. tr[x].ok
  <2>1. CASE x = n
    BY <2>1
  <2>2. CASE x # n
    <3>1. x \in 0 .. n - 1
      BY <1>4, <2>2
    <3> QED BY <3>1 DEF Trace
  <2> QED BY <2>1, <2>2
<1> DEFINE y == x - 1
<1>8. /\ y \in Nat /\ y + 1 <= Len(t) /\ y + 1 = x /\ Partial(t, y, tr[y]) /\ tr[y] \in State
      /\ LineStep(tr[y], t[y + 1], tr[x])
  BY <1>4, <1>5, <1>6
<1> HIDE DEF y
<1>9. Partial(t, y + 1, tr[x])
  BY <1>7, <1>8, PartialStep
<1> QED BY <1>2, <1>8, <1>9

\* The parts of what a text means, by the lines up to the last.
LEMMA MeaningParts ==
  ASSUME NEW t \in Seq(Line)
  PROVE  /\ InterfaceLines(t) = InterfaceUpTo(t, Len(t))
         /\ PeerHeaders(t) = Heads(t, Len(t))
         /\ \A h : LinesUnder(t, h) = Under(t, Len(t), h)
         /\ Heads(t, Len(t)) \in Seq(Nat)
<1>1. DOMAIN t = 1 .. Len(t) /\ Len(t) \in Nat
  OBVIOUS
<1>2. InterfaceLines(t) = InterfaceUpTo(t, Len(t))
  BY <1>1, Zenon DEF InterfaceLines, InterfaceUpTo
<1>3. PeerHeaders(t) = Heads(t, Len(t))
  BY <1>1, Zenon DEF PeerHeaders, Heads
<1>4. \A h : LinesUnder(t, h) = Under(t, Len(t), h)
  BY <1>1, Zenon DEF LinesUnder, Under
<1>5. Heads(t, Len(t)) \in Seq(Nat)
  <2> DEFINE A == {i \in 1 .. Len(t) : t[i].kind \in Headers /\ t[i].key = "peer"}
  <2>1. A \subseteq 1 .. Len(t)
    OBVIOUS
  <2>2. Heads(t, Len(t)) = InOrder(A)
    BY DEF Heads
  <2> HIDE DEF A
  <2>3. InOrder(A) \in Seq(1 .. Len(t))
    BY <1>1, <2>1, OrderMore
  <2>4. 1 .. Len(t) \subseteq Nat
    BY <1>1
  <2> QED BY <2>2, <2>3, <2>4, SeqMonotonic
<1> QED BY <1>2, <1>3, <1>4, <1>5

\* A peer that says what the lines say is what they mean, but for its resolved address.
LEMMA PeerMeans ==
  ASSUME NEW t, NEW S, NEW q \in Peer, PeerSays(q, t, S)
  PROVE  Unresolved(q) = MeaningOfPeer(t, S)
<1> DEFINE r == Unresolved(q)
<1>1. /\ r \in Peer /\ r.public_key = q.public_key /\ r.preshared_key = q.preshared_key
      /\ r.allowed_ips = q.allowed_ips /\ r.endpoint = None
      /\ r.endpoint_literal = q.endpoint_literal
      /\ r.persistent_keepalive = q.persistent_keepalive
  <2>1. r \in Peer
    BY SameUnresolved
  <2> QED BY <2>1 DEF Unresolved, Peer
<1> HIDE DEF r
<1>2. r = [public_key |-> r.public_key, preshared_key |-> r.preshared_key,
           allowed_ips |-> r.allowed_ips, endpoint |-> r.endpoint,
           endpoint_literal |-> r.endpoint_literal,
           persistent_keepalive |-> r.persistent_keepalive]
  BY <1>1, PeerFields
<1>3. r = MeaningOfPeer(t, S)
  BY <1>1, <1>2, Zenon DEF PeerSays, MeaningOfPeer
<1> QED BY <1>3 DEF r

\* The fields of what a text means.
LEMMA MeaningFields ==
  ASSUME NEW t
  PROVE  /\ Meaning(t).private_key = LastOf(Given(t, InterfaceLines(t), "privatekey"))
         /\ Meaning(t).mtu = LastOf(Given(t, InterfaceLines(t), "mtu"))
         /\ Meaning(t).address = FlattenSeq(Given(t, InterfaceLines(t), "address"))
         /\ Meaning(t).dns = FlattenSeq(Given(t, InterfaceLines(t), "dns"))
         /\ Meaning(t).hooks = [k \in HookKeys |-> Given(t, InterfaceLines(t), k)]
         /\ Meaning(t).peers = [n \in DOMAIN PeerHeaders(t) |->
                                  MeaningOfPeer(t, LinesUnder(t, PeerHeaders(t)[n]))]
         /\ Meaning(t) = [ok |-> TRUE, section |-> "none", private_key |-> Meaning(t).private_key,
                          mtu |-> Meaning(t).mtu, address |-> Meaning(t).address,
                          dns |-> Meaning(t).dns, hooks |-> Meaning(t).hooks,
                          peers |-> Meaning(t).peers, peer |-> NoPeer]
BY DEF Meaning

\* At the end of a text the parser holds its meaning.
LEMMA EndSays ==
  ASSUME NEW t \in Seq(Line), NEW s \in State, Partial(t, Len(t), s), Left(s).ok
  PROVE  /\ Identity(Left(s)) = Meaning(t)
         /\ \A j \in DOMAIN Left(s).peers :
              /\ Complete(Left(s).peers[j])
              /\ (Left(s).peers[j].endpoint = None) <=> (Left(s).peers[j].endpoint_literal = None)
<1> DEFINE c == Left(s)  hs == Heads(t, Len(t))  x == Identity(c)  m == Meaning(t)
           S == InterfaceLines(t)
<1>0. Len(t) \in Nat /\ Len(t) <= Len(t) /\ c \in State /\ c.ok /\ c.peers \in Seq(Peer)
  BY LeftType DEF State
<1>1. PeersSay(s, t, Len(t)) /\ InterfaceSays(s, t, S)
  BY MeaningParts DEF Partial
<1>2. /\ c.peer = NoPeer /\ Len(c.peers) = Len(hs)
      /\ \A j \in 1 .. Len(hs) : PeerSays(c.peers[j], t, Under(t, Len(t), hs[j])) /\ Complete(c.peers[j])
      /\ c.private_key = s.private_key /\ c.mtu = s.mtu
      /\ c.address = s.address /\ c.dns = s.dns /\ c.hooks = s.hooks
  BY <1>0, <1>1, LeftSays
<1>3. /\ PeerHeaders(t) = hs /\ DOMAIN hs = 1 .. Len(hs) /\ DOMAIN c.peers = 1 .. Len(hs)
      /\ \A j \in 1 .. Len(hs) : /\ c.peers[j] \in Peer
                                 /\ PeerSays(c.peers[j], t, LinesUnder(t, hs[j]))
  <2>1. PeerHeaders(t) = hs /\ hs \in Seq(Nat) /\ \A h : LinesUnder(t, h) = Under(t, Len(t), h)
    BY MeaningParts
  <2> HIDE DEF hs, c
  <2> QED BY <1>0, <1>2, <2>1
<1>4. [n \in DOMAIN c.peers |-> Unresolved(c.peers[n])]
        = [n \in DOMAIN PeerHeaders(t) |-> MeaningOfPeer(t, LinesUnder(t, PeerHeaders(t)[n]))]
  <2> HIDE DEF c, hs
  <2>1. \A n \in 1 .. Len(hs) : Unresolved(c.peers[n]) = MeaningOfPeer(t, LinesUnder(t, hs[n]))
    BY <1>3, PeerMeans
  <2> QED BY <1>3, <2>1
<1>5. /\ x \in State /\ x.ok = c.ok /\ x.section = "none" /\ x.private_key = c.private_key
      /\ x.mtu = c.mtu /\ x.address = c.address /\ x.dns = c.dns
      /\ x.hooks = c.hooks /\ x.peer = c.peer
      /\ x.peers = [n \in DOMAIN c.peers |-> Unresolved(c.peers[n])]
  BY <1>0, IdentityFields
<1>6. /\ m.private_key = LastOf(Given(t, S, "privatekey")) /\ m.mtu = LastOf(Given(t, S, "mtu"))
      /\ m.address = FlattenSeq(Given(t, S, "address"))
      /\ m.dns = FlattenSeq(Given(t, S, "dns"))
      /\ m.hooks = [k \in HookKeys |-> Given(t, S, k)]
      /\ m.peers = [n \in DOMAIN PeerHeaders(t) |->
                      MeaningOfPeer(t, LinesUnder(t, PeerHeaders(t)[n]))]
      /\ m = [ok |-> TRUE, section |-> "none", private_key |-> m.private_key, mtu |-> m.mtu,
              address |-> m.address, dns |-> m.dns, hooks |-> m.hooks, peers |-> m.peers,
              peer |-> NoPeer]
  BY MeaningFields
<1>7. s.hooks = [k \in HookKeys |-> Given(t, S, k)]
  <2>1. \A k \in HookKeys : s.hooks[k] = Given(t, S, k)
    BY <1>1 DEF InterfaceSays
  <2>2. s.hooks \in [HookKeys -> Seq(Values)]
    BY DEF State
  <2> QED BY <2>1, <2>2
<1> HIDE DEF c, x, m, S, hs
<1>8. /\ x.private_key = m.private_key /\ x.mtu = m.mtu /\ x.address = m.address /\ x.dns = m.dns
      /\ x.hooks = m.hooks /\ x.peers = m.peers /\ x.peer = NoPeer /\ x.ok = TRUE
  <2>1. x.private_key = m.private_key /\ x.mtu = m.mtu /\ x.address = m.address /\ x.dns = m.dns
    BY <1>1, <1>2, <1>5, <1>6 DEF InterfaceSays
  <2>2. x.hooks = m.hooks
    BY <1>2, <1>5, <1>6, <1>7
  <2>3. x.peers = m.peers
    BY <1>4, <1>5, <1>6
  <2>4. x.peer = NoPeer
    BY <1>2, <1>5
  <2>5. x.ok = TRUE
    BY <1>0, <1>5 DEF State
  <2> QED BY <2>1, <2>2, <2>3, <2>4, <2>5
<1>9. x = [ok |-> x.ok, section |-> x.section, private_key |-> x.private_key, mtu |-> x.mtu,
           address |-> x.address, dns |-> x.dns, hooks |-> x.hooks, peers |-> x.peers,
           peer |-> x.peer]
  BY <1>5, StateFields
<1>10. x = m
  BY <1>5, <1>6, <1>8, <1>9, Zenon
<1>11. \A j \in DOMAIN c.peers :
         Complete(c.peers[j]) /\ ((c.peers[j].endpoint = None) <=> (c.peers[j].endpoint_literal = None))
  BY <1>2, <1>3 DEF PeerSays
<1> QED BY <1>10, <1>11 DEF c, x, m

\* What is accepted is legal, and is what the text says.
LEMMA EndLegal ==
  ASSUME NEW t \in Seq(Line), NEW s \in State, Partial(t, Len(t), s), Finished(s).ok
  PROVE  /\ Legal(t) /\ Identity(Finished(s)) = Meaning(t)
         /\ \A j \in DOMAIN Finished(s).peers :
              (Finished(s).peers[j].endpoint = None) <=> (Finished(s).peers[j].endpoint_literal = None)
<1> DEFINE c == Left(s)  m == Meaning(t)
<1>1. c \in State /\ Finished(s) = c /\ c.ok /\ c.private_key # None /\ c.address # <<>> /\ c.peers # <<>>
  <2>1. c \in State /\ Finished(s) = EndOfInput(c) /\ ~Fail(c).ok
    BY LeftType DEF Finished
  <2> HIDE DEF c
  <2> QED BY <2>1 DEF EndOfInput
<1>2. /\ Identity(c) = m
      /\ \A j \in DOMAIN c.peers :
           /\ Complete(c.peers[j])
           /\ (c.peers[j].endpoint = None) <=> (c.peers[j].endpoint_literal = None)
  BY <1>1, EndSays
<1>3. /\ m.private_key = c.private_key /\ m.address = c.address
      /\ m.peers = [n \in DOMAIN c.peers |-> Unresolved(c.peers[n])]
  <2>1. /\ Identity(c).private_key = c.private_key /\ Identity(c).address = c.address
        /\ Identity(c).peers = [n \in DOMAIN c.peers |-> Unresolved(c.peers[n])]
    BY <1>1, IdentityFields
  <2> QED BY <1>2, <2>1
<1> HIDE DEF m, c
<1>4. ASSUME NEW n \in DOMAIN c.peers
      PROVE  Unresolved(c.peers[n]).public_key # None /\ Unresolved(c.peers[n]).allowed_ips # <<>>
  <2>1. c.peers[n] \in Peer
    BY <1>1 DEF State
  <2>2. Complete(c.peers[n])
    BY <1>2
  <2> QED BY <2>1, <2>2 DEF Unresolved, Complete, Peer
<1>5. m.peers # <<>>
  <2>1. c.peers \in Seq(Peer)
    BY <1>1 DEF State
  <2>2. DOMAIN m.peers = DOMAIN c.peers
    BY <1>3
  <2> SUFFICES ASSUME m.peers = <<>> PROVE FALSE
    OBVIOUS
  <2>3. DOMAIN c.peers = {}
    BY <2>2
  <2> DEFINE d == c.peers
  <2>4. d \in Seq(Peer) /\ DOMAIN d = {}
    BY <2>1, <2>3
  <2> HIDE DEF d
  <2>5. Len(d) = 0
    BY <2>4
  <2>6. d = <<>>
    BY <2>4, <2>5
  <2> QED BY <1>1, <2>6 DEF d
<1>6. \A n \in DOMAIN m.peers : m.peers[n].public_key # None /\ m.peers[n].allowed_ips # <<>>
  BY <1>3, <1>4
<1>7. \A i \in DOMAIN t : LegalLine(t, i)
  <2>1. DOMAIN t = 1 .. Len(t)
    OBVIOUS
  <2> QED BY <2>1 DEF Partial
<1>8. Legal(t)
  BY <1>1, <1>3, <1>5, <1>6, <1>7 DEF Legal, m
<1> QED BY <1>1, <1>2, <1>8 DEF m

\* A peer that cannot be completed, at the next header or at the end: the text is not legal.
LEMMA LeftIllegal ==
  ASSUME NEW t \in Seq(Line), NEW n \in Nat, n <= Len(t), NEW s \in State, s.ok, Partial(t, n, s),
         n = Len(t) \/ (n + 1 <= Len(t) /\ t[n + 1].kind \in Headers),
         ~Left(s).ok
  PROVE  ~Legal(t)
<1>1. s.section = "peer" /\ ~Complete(s.peer)
  <2>1. s.section = "peer"
    BY DEF Left
  <2>2. [s EXCEPT !.peers = Append(@, s.peer), !.peer = NoPeer].ok = s.ok
    BY DEF State
  <2> QED BY <2>1, <2>2 DEF Left, flush_peer, Complete
<1> DEFINE A == {i \in 1 .. n : t[i].kind \in Headers /\ t[i].key = "peer"}
           B == {i \in 1 .. Len(t) : t[i].kind \in Headers /\ t[i].key = "peer"}
           hs == Heads(t, n)  gs == Heads(t, Len(t))  c == Len(s.peers)  h == hs[c + 1]
<1>2. /\ Len(hs) = c + 1 /\ HeaderOf(t, n) = <<h>> /\ PeerSays(s.peer, t, Under(t, n, h))
      /\ c \in Nat
  BY <1>1 DEF Partial, PeersSay, State
<1>3. h \in A
  <2>1. A \subseteq 1 .. n /\ hs = InOrder(A)
    BY DEF Heads
  <2> HIDE DEF A, hs, h
  <2>2. hs \in Seq(A)
    BY <2>1, OrderMore
  <2> HIDE DEF c
  <2>3. c + 1 \in 1 .. Len(hs)
    BY <1>2
  <2> QED BY <2>2, <2>3 DEF h
<1>4. PICK j \in 1 .. Len(gs) : gs[j] = h
  <2>1. B \subseteq 1 .. Len(t) /\ gs = InOrder(B) /\ Len(t) \in Nat
    BY DEF Heads
  <2>2. h \in B
    <3> HIDE DEF h
    <3> QED BY <1>3
  <2> HIDE DEF B, gs, h
  <2>3. Lists(gs, B)
    BY <2>1, OrderLists
  <2> QED BY <2>2, <2>3 DEF Lists
<1>5. Under(t, Len(t), h) = Under(t, n, h)
  <2> HIDE DEF h
  <2>1. ASSUME NEW i \in 1 .. Len(t), ~(i <= n) PROVE HeaderOf(t, i) # <<h>>
    <3> SUFFICES ASSUME HeaderOf(t, i) = <<h>> PROVE FALSE
      OBVIOUS
    <3>1. /\ i \in Nat /\ n + 1 <= Len(t) /\ t[n + 1].kind \in Headers /\ n + 1 <= i /\ h \in 1 .. n
      BY <1>3, <2>1
    <3>2. <<h>> # None
      BY DEF None
    <3>3. PICK g \in 1 .. i : <<h>> = <<g>> /\ \A k \in g + 1 .. i : t[k].kind \notin Headers
      BY <3>1, <3>2, HeaderAbove
    <3>4. g = h
      BY <3>3
    <3>5. n + 1 \in h + 1 .. i
      BY <3>1
    <3> QED BY <3>1, <3>3, <3>4, <3>5
  <2>2. \A i : i \in 1 .. n <=> i \in 1 .. Len(t) /\ i <= n
    OBVIOUS
  <2> QED BY <2>1, <2>2 DEF Under
<1>6. /\ PeerHeaders(t) = gs /\ LinesUnder(t, h) = Under(t, n, h) /\ DOMAIN gs = 1 .. Len(gs)
  <2>1. PeerHeaders(t) = gs /\ gs \in Seq(Nat) /\ LinesUnder(t, h) = Under(t, Len(t), h)
    BY MeaningParts
  <2> HIDE DEF gs, h
  <2> QED BY <1>5, <2>1
<1>7. j \in DOMAIN Meaning(t).peers /\ Meaning(t).peers[j] = MeaningOfPeer(t, Under(t, n, h))
  <2>1. Meaning(t).peers = [i \in DOMAIN PeerHeaders(t) |->
                              MeaningOfPeer(t, LinesUnder(t, PeerHeaders(t)[i]))]
    BY MeaningFields
  <2> HIDE DEF gs, h
  <2> QED BY <1>4, <1>6, <2>1
<1>8. /\ MeaningOfPeer(t, Under(t, n, h)).public_key = s.peer.public_key
      /\ MeaningOfPeer(t, Under(t, n, h)).allowed_ips = s.peer.allowed_ips
  <2> HIDE DEF h
  <2> QED BY <1>2 DEF PeerSays, MeaningOfPeer
<1> HIDE DEF h
<1> QED BY <1>1, <1>7, <1>8 DEF Legal, Complete

\* What is refused at the end is not legal.
LEMMA EndIllegal ==
  ASSUME NEW t \in Seq(Line), NEW s \in State, s.ok, Partial(t, Len(t), s), ~Finished(s).ok
  PROVE  ~Legal(t)
<1> DEFINE c == Left(s)  m == Meaning(t)
<1>1. CASE ~c.ok
  <2>1. Len(t) \in Nat /\ Len(t) <= Len(t)
    OBVIOUS
  <2> QED BY <1>1, <2>1, LeftIllegal
<1>2. CASE c.ok
  <2>1. c \in State /\ (c.private_key = None \/ c.address = <<>> \/ c.peers = <<>>)
    <3>1. c \in State /\ Finished(s) = EndOfInput(c)
      BY LeftType DEF Finished
    <3> HIDE DEF c
    <3> QED BY <1>2, <3>1 DEF EndOfInput
  <2>2. Identity(c) = m
    BY <1>2, EndSays
  <2>3. /\ m.private_key = c.private_key /\ m.address = c.address
        /\ m.peers = [n \in DOMAIN c.peers |-> Unresolved(c.peers[n])]
    <3>1. /\ Identity(c).private_key = c.private_key /\ Identity(c).address = c.address
          /\ Identity(c).peers = [n \in DOMAIN c.peers |-> Unresolved(c.peers[n])]
      BY <2>1, IdentityFields
    <3> QED BY <2>2, <3>1
  <2> HIDE DEF c, m
  <2>4. c.peers = <<>> => m.peers = <<>>
    <3> SUFFICES ASSUME c.peers = <<>> PROVE m.peers = <<>>
      OBVIOUS
    <3>1. DOMAIN c.peers = {}
      OBVIOUS
    <3>2. m.peers = [n \in {} |-> Unresolved(c.peers[n])]
      BY <2>3, <3>1
    <3>3. m.peers \in Seq(Peer) /\ Len(m.peers) = 0
      BY <3>2
    <3> QED BY <3>3
  <2> QED BY <2>1, <2>3, <2>4 DEF Legal, m
<1> QED BY <1>1, <1>2

\* What a pass over the whole of a text returns is what the text says, and it is legal.
LEMMA ParsedSays ==
  ASSUME NEW t \in Seq(Line), NEW c, Parsed(t, c)
  PROVE  /\ Legal(t) /\ Identity(c) = Meaning(t)
         /\ \A j \in DOMAIN c.peers : (c.peers[j].endpoint = None) <=> (c.peers[j].endpoint_literal = None)
<1>1. PICK tr : Trace(t, tr, Len(t)) /\ tr[Len(t)].ok /\ c = Finished(tr[Len(t)]) /\ c.ok
  BY DEF Parsed
<1>2. Len(t) \in Nat /\ Len(t) <= Len(t) /\ Len(t) \in 0 .. Len(t)
  OBVIOUS
<1> DEFINE s == tr[Len(t)]
<1>3. s \in State /\ Partial(t, Len(t), s) /\ c = Finished(s) /\ c.ok
  BY <1>1, <1>2, TraceSays DEF Trace
<1> HIDE DEF s
<1> QED BY <1>3, EndLegal

\* One line that is not legal.
LEMMA LineIllegal ==
  ASSUME NEW t \in Seq(Line), NEW n \in Nat, n + 1 <= Len(t), ~LegalLine(t, n + 1)
  PROVE  ~Legal(t)
<1>1. n + 1 \in DOMAIN t
  OBVIOUS
<1> QED BY <1>1 DEF Legal

\* A header that is refused: its name is not known, or the peer above it is not complete.
LEMMA HeaderRefused ==
  ASSUME NEW t \in Seq(Line), NEW n \in Nat, n + 1 <= Len(t), NEW s \in State, s.ok,
         Partial(t, n, s), t[n + 1].kind \in Headers, ~Header(s, t[n + 1].key).ok
  PROVE  ~Legal(t)
<1> DEFINE k == t[n + 1].key
<1>1. CASE k \notin {"interface", "peer"}
  <2>1. ~LegalLine(t, n + 1)
    BY <1>1 DEF LegalLine, Headers
  <2> QED BY <2>1, LineIllegal
<1>2. CASE k \in {"interface", "peer"}
  <2>1. Header(s, k) = [Left(s) EXCEPT !.section = k] /\ Left(s) \in State
    BY <1>2, LeftType DEF Header
  <2>2. ~Left(s).ok
    BY <2>1 DEF State
  <2>3. n <= Len(t)
    OBVIOUS
  <2> QED BY <2>2, <2>3, LeftIllegal
<1> QED BY <1>1, <1>2

\* A line that is neither directive, header, comment nor blank, or a directive above the
\* first header.
LEMMA OutsideRefused ==
  ASSUME NEW t \in Seq(Line), NEW n \in Nat, n + 1 <= Len(t), NEW s \in State,
         Partial(t, n, s),
         t[n + 1].kind = "malformed" \/ (t[n + 1].kind = "set" /\ s.section = "none")
  PROVE  ~Legal(t)
<1>1. t[n + 1].kind \notin Headers
  BY DEF Headers
<1>2. Section(t, n + 1) = s.section
  BY <1>1, SectionStep DEF Partial
<1>3. ~LegalLine(t, n + 1)
  BY <1>1, <1>2 DEF LegalLine
<1> QED BY <1>3, LineIllegal

\* A directive of [Interface] that is refused.
LEMMA InterfaceRefused ==
  ASSUME NEW t \in Seq(Line), NEW n \in Nat, n + 1 <= Len(t), NEW s \in State, s.ok,
         Partial(t, n, s), t[n + 1].kind = "set", s.section = "interface",
         ~InterfaceLine(s, t[n + 1].key, t[n + 1].value).ok
  PROVE  ~Legal(t)
<1> DEFINE k == t[n + 1].key  v == t[n + 1].value
<1>1. t[n + 1].kind \notin Headers
  BY DEF Headers
<1>2. Section(t, n + 1) = "interface"
  BY <1>1, SectionStep DEF Partial
<1>3. ~(k \in HookKeys \cup IgnoredKeys)
  <2> SUFFICES ASSUME k \in HookKeys \cup IgnoredKeys PROVE InterfaceLine(s, k, v).ok
    OBVIOUS
  <2>1. CASE k \in IgnoredKeys
    <3>1. InterfaceLine(s, k, v) = s
      BY <2>1 DEF InterfaceLine, KNOWN_INTERFACE_KEYS, ListKeys, HookKeys, IgnoredKeys
    <3> QED BY <3>1
  <2>2. CASE k \in HookKeys
    <3>1. InterfaceLine(s, k, v) = [s EXCEPT !.hooks[k] = Append(@, v)]
      BY <2>2 DEF InterfaceLine, KNOWN_INTERFACE_KEYS, ListKeys, HookKeys, IgnoredKeys
    <3> QED BY <3>1 DEF State
  <2> QED BY <2>1, <2>2
<1>4. ~(k \in ListKeys \cup {"privatekey"} /\ ParsesAll(v))
  <2> SUFFICES ASSUME k \in ListKeys \cup {"privatekey"}, ParsesAll(v) PROVE InterfaceLine(s, k, v).ok
    OBVIOUS
  <2>1. \/ InterfaceLine(s, k, v) = [s EXCEPT !.private_key = v]
        \/ InterfaceLine(s, k, v) = [s EXCEPT !.address = @ \o v]
        \/ InterfaceLine(s, k, v) = [s EXCEPT !.dns = @ \o v]
    BY DEF InterfaceLine, KNOWN_INTERFACE_KEYS, ListKeys, HookKeys, IgnoredKeys
  <2> QED BY <2>1 DEF State
<1>5. ~(k = "mtu" /\ parse_mtu(v) # None)
  <2> SUFFICES ASSUME k = "mtu", parse_mtu(v) # None PROVE InterfaceLine(s, k, v).ok
    OBVIOUS
  <2>1. InterfaceLine(s, k, v) = [s EXCEPT !.mtu = v]
    BY DEF InterfaceLine, KNOWN_INTERFACE_KEYS, ListKeys, HookKeys, IgnoredKeys
  <2> QED BY <2>1 DEF State
<1>6. ~LegalLine(t, n + 1)
  BY <1>1, <1>2, <1>3, <1>4, <1>5 DEF LegalLine
<1> QED BY <1>6, LineIllegal

\* A directive of [Peer] that is refused, though no lookup failed.
LEMMA PeerRefused ==
  ASSUME NEW t \in Seq(Line), NEW n \in Nat, n + 1 <= Len(t), NEW s \in State, s.ok,
         Partial(t, n, s), t[n + 1].kind = "set", s.section = "peer",
         NEW answer,
         ~(t[n + 1].key = "endpoint" /\ t[n + 1].value[1] \in Hostnames /\ answer = None),
         ~PeerLine(s, t[n + 1].key, t[n + 1].value, answer).ok
  PROVE  ~Legal(t)
<1> DEFINE k == t[n + 1].key  v == t[n + 1].value  u == PeerLine(s, k, v, answer)
<1>1. t[n + 1].kind \notin Headers /\ t[n + 1] \in Line /\ n + 1 \in DOMAIN t
  BY DEF Headers
<1>2. Section(t, n + 1) = "peer"
  BY <1>1, SectionStep DEF Partial
<1>3. ~(k \in KNOWN_PEER_KEYS /\ ParsesAll(v))
  <2> SUFFICES ASSUME k \in KNOWN_PEER_KEYS, ParsesAll(v) PROVE u.ok
    OBVIOUS
  <2>1. CASE k # "endpoint"
    <3>1. \/ u = [s EXCEPT !.peer.public_key = v] \/ u = [s EXCEPT !.peer.preshared_key = v]
          \/ u = [s EXCEPT !.peer.allowed_ips = @ \o v]
          \/ u = [s EXCEPT !.peer.persistent_keepalive = v]
      BY <2>1 DEF PeerLine, KNOWN_PEER_KEYS
    <3> HIDE DEF u, v
    <3> QED BY <3>1 DEF State
  <2>2. CASE k = "endpoint"
    <3>1. Len(v) = 1 /\ v \in Seq(Nat)
      BY <1>1, <2>2 DEF Line, WellSpelled, Values
    <3>2. v[1] # Bad /\ v # None
      <4> HIDE DEF v
      <4>1. 1 \in DOMAIN v
        BY <3>1
      <4>2. v[1] # Bad
        BY <4>1 DEF ParsesAll
      <4>3. v # <<>>
        BY <4>1
      <4> QED BY <4>2, <4>3 DEF None
    <3>3. parse_endpoint(v, answer) # None
      BY <2>2, <3>2 DEF parse_endpoint
    <3> DEFINE e == parse_endpoint(v, answer)
    <3> HIDE DEF e
    <3>4. u = [s EXCEPT !.peer.endpoint = e, !.peer.endpoint_literal = v]
      BY <2>2, <3>3 DEF PeerLine, KNOWN_PEER_KEYS, e
    <3> HIDE DEF u, v
    <3> QED BY <3>4 DEF State
  <2> QED BY <2>1, <2>2
<1>4. ~LegalLine(t, n + 1)
  BY <1>1, <1>2, <1>3 DEF LegalLine
<1> QED BY <1>4, LineIllegal

-----------------------------------------------------------------------------
(* The text with the --mtu override.                                       *)

\* A line put in below line n.
LEMMA Inserted ==
  ASSUME NEW t \in Seq(Line), NEW n \in 1 .. Len(t), NEW l \in Line
  PROVE  /\ InsertAt(t, n + 1, l) \in Seq(Line) /\ Len(InsertAt(t, n + 1, l)) = Len(t) + 1
         /\ \A i \in 1 .. n : InsertAt(t, n + 1, l)[i] = t[i]
         /\ InsertAt(t, n + 1, l)[n + 1] = l
         /\ \A i \in n + 1 .. Len(t) : InsertAt(t, n + 1, l)[i + 1] = t[i]
<1> DEFINE m == Len(t)  a == SubSeq(t, 1, n)  b == <<l>>  e == SubSeq(t, n + 1, m)
           q == InsertAt(t, n + 1, l)
<1>1. /\ m \in Nat /\ n \in Nat /\ 1 <= n /\ n <= m /\ (n + 1) - 1 = n /\ DOMAIN t = 1 .. m
      /\ \A i \in 1 .. m : t[i] \in Line
  OBVIOUS
<1>2. q = (a \o b) \o e
  BY <1>1 DEF InsertAt
<1>3. a \in Seq(Line) /\ Len(a) = n /\ \A i \in 1 .. n : a[i] = t[i]
  <2> HIDE DEF m, q
  <2>1. /\ \A i \in 1 .. n : t[i] \in Line
        /\ 1 \in Int /\ n \in Int /\ 1 <= n /\ (n - 1) + 1 = n
        /\ \A i \in 1 .. n : (1 + i) - 1 = i
    BY <1>1
  <2>2. /\ a \in Seq(Line) /\ Len(a) = (n - 1) + 1
        /\ \A i \in 1 .. (n - 1) + 1 : a[i] = t[(1 + i) - 1]
    BY <2>1, SubSeqProperties
  <2> HIDE DEF a
  <2> QED BY <2>1, <2>2
<1>4. e \in Seq(Line) /\ Len(e) = m - n /\ \A i \in 1 .. m - n : e[i] = t[n + i]
  <2> HIDE DEF m, q
  <2>1. CASE n = m
    <3>1. e = <<>>
      <4>1. m < n + 1 /\ n + 1 \in Int /\ m \in Int
        BY <1>1, <2>1
      <4> QED BY <4>1, SubSeqEmpty
    <3> HIDE DEF e
    <3> QED BY <1>1, <2>1, <3>1
  <2>2. CASE n # m
    <3>1. /\ \A i \in n + 1 .. m : t[i] \in Line
          /\ n + 1 \in Int /\ m \in Int /\ n + 1 <= m /\ (m - (n + 1)) + 1 = m - n
          /\ \A i \in 1 .. m - n : ((n + 1) + i) - 1 = n + i
      BY <1>1, <2>2
    <3>2. /\ e \in Seq(Line) /\ Len(e) = (m - (n + 1)) + 1
          /\ \A i \in 1 .. (m - (n + 1)) + 1 : e[i] = t[((n + 1) + i) - 1]
      BY <3>1, SubSeqProperties
    <3> HIDE DEF e
    <3> QED BY <3>1, <3>2
  <2> QED BY <2>1, <2>2
<1>5. b \in Seq(Line) /\ Len(b) = 1 /\ b[1] = l
  OBVIOUS
<1> HIDE DEF a, b, e, q, m
<1> DEFINE c == a \o b
<1>6. /\ c \in Seq(Line) /\ Len(c) = n + 1 /\ c[n + 1] = l
      /\ \A i \in 1 .. n : c[i] = t[i]
  <2>1. /\ c \in Seq(Line) /\ Len(c) = Len(a) + Len(b)
        /\ \A i \in 1 .. Len(a) + Len(b) : c[i] = IF i <= Len(a) THEN a[i] ELSE b[i - Len(a)]
    BY <1>3, <1>5, ConcatProperties
  <2> HIDE DEF c
  <2> QED BY <1>1, <1>3, <1>5, <2>1
<1> HIDE DEF c
<1>7. /\ q \in Seq(Line) /\ Len(q) = Len(c) + Len(e)
      /\ \A i \in 1 .. Len(c) + Len(e) : q[i] = IF i <= Len(c) THEN c[i] ELSE e[i - Len(c)]
  <2>1. q = c \o e
    BY <1>2 DEF c
  <2> QED BY <1>4, <1>6, <2>1, ConcatProperties
<1>8. q \in Seq(Line) /\ Len(q) = m + 1
  BY <1>1, <1>4, <1>6, <1>7
<1>9. \A i \in 1 .. n : q[i] = t[i]
  BY <1>1, <1>4, <1>6, <1>7
<1>10. q[n + 1] = l
  BY <1>1, <1>4, <1>6, <1>7
<1>11. ASSUME NEW i \in n + 1 .. m PROVE q[i + 1] = t[i]
  <2>1. /\ i - n \in 1 .. m - n /\ n + (i - n) = i /\ i + 1 \in 1 .. (n + 1) + (m - n)
        /\ ~(i + 1 <= n + 1) /\ (i + 1) - (n + 1) = i - n
    BY <1>1
  <2>2. q[i + 1] = e[i - n]
    BY <1>4, <1>6, <1>7, <2>1
  <2> QED BY <1>4, <2>1, <2>2
<1> QED BY <1>8, <1>9, <1>10, <1>11 DEF q, m

\* The line that is written is a line.
LEMMA MtuLineType ==
  ASSUME NEW m \in U16
  PROVE  MtuLine(m) \in Line
<1>1. m \in Nat
  BY DEF U16
<1>2. <<m>> \in Seq(Nat) /\ Len(<<m>>) = 1 /\ <<m>>[1] = m
  BY <1>1
<1>3. "mtu" \in Keys
  BY DEF Keys, KNOWN_INTERFACE_KEYS
<1>4. WellSpelled("mtu", <<m>>)
  BY <1>2 DEF WellSpelled, U16, Bad
<1>5. [kind |-> "set", key |-> "mtu", value |-> <<m>>] \in [kind : Kinds, key : Keys, value : Values]
  BY <1>2, <1>3 DEF Values
<1>6. 1 < MAX_CONF_TEXT_BYTES
  BY DEF MAX_CONF_TEXT_BYTES
<1> QED BY <1>2, <1>4, <1>5, <1>6 DEF MtuLine, Line

\* The text with the --mtu override is made of lines, one more at most.
LEMMA OverrideType ==
  ASSUME NEW t \in Seq(Line), NEW m \in U16
  PROVE  /\ apply_mtu_override_to_conf_text(t, m) \in Seq(Line)
         /\ Len(apply_mtu_override_to_conf_text(t, m)) <= Len(t) + 1
<1> DEFINE at == MtuLines(t)
           plain == {i \in DOMAIN t : PlainInterface(t[i])}
           top == CHOOSE i \in plain : \A j \in plain : i <= j
<1>1. MtuLine(m) \in Line
  BY MtuLineType
<1>2. DOMAIN t = 1 .. Len(t) /\ Len(t) \in Nat
  OBVIOUS
<1> DEFINE r == [i \in DOMAIN t |-> IF i \in at THEN MtuLine(m) ELSE t[i]]
           q == InsertAt(t, top + 1, MtuLine(m))
<1>3. r \in Seq(Line) /\ Len(r) = Len(t)
  <2> HIDE DEF at
  <2> QED BY <1>1, <1>2
<1>4. ASSUME plain # {} PROVE q \in Seq(Line) /\ Len(q) = Len(t) + 1
  <2>1. top \in 1 .. Len(t)
    <3>1. plain \subseteq Nat
      BY <1>2
    <3>2. \E i \in plain : \A j \in plain : i <= j
      <4> HIDE DEF plain
      <4> QED BY <1>4, <3>1, LeastOf
    <3>3. top \in plain
      BY <3>2
    <3> QED BY <1>2, <3>3
  <2> HIDE DEF top, plain
  <2> QED BY <1>1, <2>1, Inserted
<1> HIDE DEF at, top, r, q
<1> DEFINE u == apply_mtu_override_to_conf_text(t, m)
<1>5. u = r \/ u = t \/ (plain # {} /\ u = q)
  BY DEF apply_mtu_override_to_conf_text, at, top, r, q
<1> HIDE DEF u
<1>6. u \in Seq(Line) /\ Len(u) <= Len(t) + 1
  BY <1>2, <1>3, <1>4, <1>5
<1> QED BY <1>6 DEF u

\* A state of the parser without its MTU.
NoMtu(s) == [s EXCEPT !.mtu = None]

\* A state without its MTU is a state.
LEMMA NoMtuType ==
  ASSUME NEW s \in State
  PROVE  /\ NoMtu(s) \in State /\ NoMtu(s).ok = s.ok /\ NoMtu(s).section = s.section
         /\ NoMtu(s).peer = s.peer /\ NoMtu(s).peers = s.peers /\ NoMtu(s).hooks = s.hooks
         /\ NoMtu(s).private_key = s.private_key /\ NoMtu(s).address = s.address
         /\ NoMtu(s).dns = s.dns /\ NoMtu(s).mtu = None
         /\ Fail(NoMtu(s)) = NoMtu(Fail(s))
<1>1. None \in U16Option
  BY DEF U16Option
<1>2. Fail(NoMtu(s)) = NoMtu(Fail(s))
  BY DEF NoMtu, Fail, State
<1> QED BY <1>1, <1>2 DEF NoMtu, State

\* Completing a peer does not look at the MTU.
LEMMA NoMtuLeft ==
  ASSUME NEW s \in State
  PROVE  Left(NoMtu(s)) = NoMtu(Left(s)) /\ Left(s).mtu = s.mtu
<1> DEFINE r == NoMtu(s)  ps == Append(s.peers, s.peer)
<1>1. /\ r \in State /\ r.section = s.section /\ r.peer = s.peer /\ r.peers = s.peers
      /\ Fail(r) = NoMtu(Fail(s)) /\ Fail(s).mtu = s.mtu
  BY NoMtuType DEF Fail, State
<1>2. [r EXCEPT !.peers = ps, !.peer = NoPeer] = NoMtu([s EXCEPT !.peers = ps, !.peer = NoPeer])
  BY DEF NoMtu, State
<1>3. [s EXCEPT !.peers = ps, !.peer = NoPeer].mtu = s.mtu
  BY DEF State
<1> HIDE DEF r
<1>4. flush_peer(r) = IF s.peer.public_key = None \/ s.peer.allowed_ips = <<>>
                        THEN Fail(r) ELSE [r EXCEPT !.peers = ps, !.peer = NoPeer]
  BY <1>1, Zenon DEF flush_peer
<1>5. flush_peer(s) = IF s.peer.public_key = None \/ s.peer.allowed_ips = <<>>
                        THEN Fail(s) ELSE [s EXCEPT !.peers = ps, !.peer = NoPeer]
  BY Zenon DEF flush_peer
<1> HIDE DEF ps
<1>6. flush_peer(r) = NoMtu(flush_peer(s)) /\ flush_peer(s).mtu = s.mtu
  BY <1>1, <1>2, <1>3, <1>4, <1>5, Zenon
<1> QED BY <1>1, <1>6, Zenon DEF Left, r

\* A line that does not set the MTU of an interface does not look at it either.
LEMMA NoMtuStep ==
  ASSUME NEW s \in State, NEW l \in Line, NEW u, u.ok, LineStep(s, l, u),
         ~(l.kind = "set" /\ s.section = "interface" /\ l.key = "mtu")
  PROVE  LineStep(NoMtu(s), l, NoMtu(u)) /\ u.mtu = s.mtu /\ u \in State
<1> DEFINE r == NoMtu(s)  k == l.key  v == l.value
<1>0. /\ r \in State /\ r.section = s.section /\ r.peer = s.peer
      /\ u \in State /\ u # Fail(s)
  BY LineType, NoMtuType, LeftType
<1>1. CASE l.kind \in Headers /\ u = Header(s, k)
  <2>1. k \in {"interface", "peer"} /\ u = [Left(s) EXCEPT !.section = k]
    BY <1>0, <1>1 DEF Header
  <2>2. Header(r, k) = [NoMtu(Left(s)) EXCEPT !.section = k]
    BY <2>1, NoMtuLeft DEF Header
  <2>3. Left(s) \in State /\ Left(s).mtu = s.mtu
    BY LeftType, NoMtuLeft
  <2> DEFINE x == Left(s)
  <2>4. x \in State
    BY <2>3
  <2> HIDE DEF x
  <2>5. [NoMtu(x) EXCEPT !.section = k] = NoMtu([x EXCEPT !.section = k])
        /\ [x EXCEPT !.section = k].mtu = x.mtu
    BY <2>4 DEF NoMtu, State
  <2>6. Header(r, k) = NoMtu(u) /\ u.mtu = s.mtu
    BY <2>1, <2>2, <2>3, <2>5 DEF x
  <2> QED BY <1>0, <1>1, <2>6 DEF LineStep
<1>2. CASE l.kind \in {"blank", "empty"} /\ u = s
  BY <1>0, <1>2 DEF LineStep
<1>3. CASE l.kind = "set" /\ s.section = "interface" /\ u = InterfaceLine(s, k, v)
  <2>1. InterfaceLine(r, k, v) = NoMtu(u) /\ u.mtu = s.mtu
    <3> USE DEF KNOWN_INTERFACE_KEYS, ListKeys, HookKeys, IgnoredKeys
    <3>1. k \in KNOWN_INTERFACE_KEYS /\ k # "mtu"
      BY <1>0, <1>3 DEF InterfaceLine
    <3>2. CASE k = "privatekey"
      <4>1. u = [s EXCEPT !.private_key = v] /\ InterfaceLine(r, k, v) = [r EXCEPT !.private_key = v]
        BY <1>0, <1>3, <3>2 DEF InterfaceLine
      <4> HIDE DEF k, v
      <4> QED BY <4>1 DEF NoMtu, State
    <3>3. CASE k = "address"
      <4>1. u = [s EXCEPT !.address = @ \o v] /\ InterfaceLine(r, k, v) = [r EXCEPT !.address = @ \o v]
        BY <1>0, <1>3, <3>3 DEF InterfaceLine
      <4> HIDE DEF k, v
      <4> QED BY <4>1 DEF NoMtu, State
    <3>4. CASE k = "dns"
      <4>1. u = [s EXCEPT !.dns = @ \o v] /\ InterfaceLine(r, k, v) = [r EXCEPT !.dns = @ \o v]
        BY <1>0, <1>3, <3>4 DEF InterfaceLine
      <4> HIDE DEF k, v
      <4> QED BY <4>1 DEF NoMtu, State
    <3>5. CASE k \in HookKeys
      <4>1. /\ u = [s EXCEPT !.hooks[k] = Append(@, v)]
            /\ InterfaceLine(r, k, v) = [r EXCEPT !.hooks[k] = Append(@, v)]
        BY <1>0, <1>3, <3>5 DEF InterfaceLine
      <4> HIDE DEF k, v
      <4> QED BY <4>1 DEF NoMtu, State
    <3>6. CASE k \in IgnoredKeys
      <4>1. u = s /\ InterfaceLine(r, k, v) = r
        BY <1>0, <1>3, <3>6 DEF InterfaceLine
      <4> QED BY <4>1
    <3> QED BY <3>1, <3>2, <3>3, <3>4, <3>5, <3>6
  <2> QED BY <1>0, <1>3, <2>1 DEF LineStep
<1>4. ASSUME l.kind = "set", s.section = "peer", NEW answer \in Answers, u = PeerLine(s, k, v, answer)
      PROVE  LineStep(r, l, NoMtu(u)) /\ u.mtu = s.mtu
  <2> DEFINE e == parse_endpoint(v, answer)
  <2>1. PeerLine(r, k, v, answer) = NoMtu(u) /\ u.mtu = s.mtu
    <3>1. k \in KNOWN_PEER_KEYS /\ (k # "endpoint" => ParsesAll(v))
      BY <1>0, <1>4 DEF PeerLine
    <3>2. CASE k = "publickey"
      <4>1. u = [s EXCEPT !.peer.public_key = v] /\ PeerLine(r, k, v, answer) = [r EXCEPT !.peer.public_key = v]
        BY <1>0, <1>4, <3>1, <3>2 DEF PeerLine
      <4> HIDE DEF k, v
      <4> QED BY <4>1 DEF NoMtu, State
    <3>3. CASE k = "presharedkey"
      <4>1. /\ u = [s EXCEPT !.peer.preshared_key = v]
            /\ PeerLine(r, k, v, answer) = [r EXCEPT !.peer.preshared_key = v]
        BY <1>0, <1>4, <3>1, <3>3 DEF PeerLine
      <4> HIDE DEF k, v
      <4> QED BY <4>1 DEF NoMtu, State
    <3>4. CASE k = "allowedips"
      <4>1. /\ u = [s EXCEPT !.peer.allowed_ips = @ \o v]
            /\ PeerLine(r, k, v, answer) = [r EXCEPT !.peer.allowed_ips = @ \o v]
        BY <1>0, <1>4, <3>1, <3>4 DEF PeerLine
      <4> HIDE DEF k, v
      <4> QED BY <4>1 DEF NoMtu, State
    <3>5. CASE k = "persistentkeepalive"
      <4>1. /\ u = [s EXCEPT !.peer.persistent_keepalive = v]
            /\ PeerLine(r, k, v, answer) = [r EXCEPT !.peer.persistent_keepalive = v]
        BY <1>0, <1>4, <3>1, <3>5 DEF PeerLine
      <4> HIDE DEF k, v
      <4> QED BY <4>1 DEF NoMtu, State
    <3>6. CASE k = "endpoint"
      <4>1. /\ PeerLine(s, k, v, answer) = IF e = None THEN Fail(s)
                 ELSE [s EXCEPT !.peer.endpoint = e, !.peer.endpoint_literal = v]
            /\ PeerLine(r, k, v, answer) = IF e = None THEN Fail(r)
                 ELSE [r EXCEPT !.peer.endpoint = e, !.peer.endpoint_literal = v]
        BY <3>6 DEF PeerLine, KNOWN_PEER_KEYS
      <4> HIDE DEF k, v, e
      <4>2. /\ u = [s EXCEPT !.peer.endpoint = e, !.peer.endpoint_literal = v]
            /\ PeerLine(r, k, v, answer) = [r EXCEPT !.peer.endpoint = e, !.peer.endpoint_literal = v]
        BY <1>0, <1>4, <4>1
      <4> QED BY <4>2 DEF NoMtu, State
    <3> QED BY <3>1, <3>2, <3>3, <3>4, <3>5, <3>6 DEF KNOWN_PEER_KEYS
  <2> QED BY <1>0, <1>4, <2>1 DEF LineStep
<1> QED BY <1>0, <1>1, <1>2, <1>3, <1>4 DEF LineStep

\* Line i sets the MTU of an interface.
SetsMtu(t, i) == t[i].kind = "set" /\ Section(t, i) = "interface" /\ t[i].key = "mtu"

\* A line that does not set an MTU, read by a state whose MTU is left out.
LEMMA NoMtuPartial ==
  ASSUME NEW t \in Seq(Line), NEW n \in Nat, n + 1 <= Len(t), NEW s \in State,
         Partial(t, n, NoMtu(s)), NEW u, u.ok, LineStep(s, t[n + 1], u), ~SetsMtu(t, n + 1)
  PROVE  Partial(t, n + 1, NoMtu(u)) /\ u.mtu = s.mtu /\ u \in State
<1>1. t[n + 1] \in Line /\ NoMtu(s) \in State /\ NoMtu(s).section = s.section
  BY NoMtuType
<1>2. ~(t[n + 1].kind = "set" /\ s.section = "interface" /\ t[n + 1].key = "mtu")
  <2> SUFFICES ASSUME t[n + 1].kind = "set", s.section = "interface", t[n + 1].key = "mtu"
               PROVE  FALSE
    OBVIOUS
  <2>1. t[n + 1].kind \notin Headers
    BY DEF Headers
  <2>2. Section(t, n + 1) = "interface"
    BY <1>1, <2>1, SectionStep DEF Partial
  <2> QED BY <2>2 DEF SetsMtu
<1>3. LineStep(NoMtu(s), t[n + 1], NoMtu(u)) /\ u.mtu = s.mtu /\ u \in State
  BY <1>1, <1>2, NoMtuStep
<1>4. NoMtu(u).ok
  BY <1>3, NoMtuType
<1> QED BY <1>1, <1>3, <1>4, PartialStep

\* q is t with the line l put in below line n.
Extended(t, n, l, q) ==
  /\ q \in Seq(Line) /\ Len(q) = Len(t) + 1
  /\ \A i \in 1 .. n : q[i] = t[i]
  /\ q[n + 1] = l
  /\ \A i \in n + 1 .. Len(t) : q[i + 1] = t[i]

\* A pass over the text with the line put in is, apart from the MTU, one over the text
\* without it.
LEMMA ExtendedSays ==
  ASSUME NEW t \in Seq(Line), NEW top \in 1 .. Len(t), PlainInterface(t[top]), NEW m \in U16,
         NEW q, Extended(t, top, MtuLine(m), q), \A i \in 1 .. Len(t) : ~SetsMtu(t, i),
         NEW tr, Trace(q, tr, Len(q)), tr[Len(q)].ok
  PROVE  Partial(t, Len(t), NoMtu(tr[Len(q)])) /\ tr[Len(q)].mtu = <<m>> /\ tr[Len(q)] \in State
<1> DEFINE h(n) == IF n < top THEN tr[n] ELSE tr[n + 1]
           P(n) == Partial(t, n, NoMtu(h(n))) /\ (top <= n => h(n).mtu = <<m>>)
           T == {n \in Nat : n <= Len(t) /\ ~P(n)}
<1>0. /\ Len(t) \in Nat /\ top \in Nat /\ 1 <= top /\ top <= Len(t) /\ Len(q) = Len(t) + 1
      /\ \A i \in 1 .. top : q[i] = t[i]
      /\ q[top + 1] = MtuLine(m)
      /\ \A i \in top + 1 .. Len(t) : q[i + 1] = t[i]
  BY DEF Extended
<1>1. /\ tr \in [0 .. Len(t) + 1 -> State] /\ tr[0] = Start
      /\ \A k \in 0 .. Len(t) : tr[k].ok /\ LineStep(tr[k], q[k + 1], tr[k + 1])
  BY <1>0 DEF Trace
<1>2. \A k \in 0 .. Len(t) + 1 : tr[k] \in State /\ tr[k].ok
  <2>1. \A n \in Nat : \A k \in 0 .. n + 1 : k \in 0 .. n \/ k = n + 1
    OBVIOUS
  <2> QED BY <1>0, <1>1, <2>1
<1>3. P(0)
  <2>1. h(0) = Start /\ ~(top <= 0)
    BY <1>0, <1>1
  <2>2. NoMtu(Start) = Start
    <3> DEFINE x == Start
    <3>1. x \in State /\ x.mtu = None
      BY StartType DEF Start
    <3> HIDE DEF x
    <3>2. NoMtu(x) = x
      BY <3>1 DEF NoMtu, State
    <3> QED BY <3>2 DEF x
  <2> HIDE DEF h
  <2> QED BY <2>1, <2>2, PartialStart
<1>4. ASSUME NEW n \in Nat, n + 1 <= Len(t), P(n) PROVE P(n + 1)
  <2>0. /\ n + 1 \in 1 .. Len(t) /\ ~SetsMtu(t, n + 1) /\ n \in 0 .. Len(t) /\ n + 1 \in 0 .. Len(t)
        /\ n \in 0 .. Len(t) + 1 /\ n + 1 \in 0 .. Len(t) + 1 /\ n + 2 \in 0 .. Len(t) + 1
        /\ (n + 1) + 1 = n + 2
    BY <1>0, <1>4
  <2>1. CASE n + 1 < top
    <3>1. h(n) = tr[n] /\ h(n + 1) = tr[n + 1] /\ n + 1 \in 1 .. top /\ ~(top <= n + 1)
      BY <1>0, <2>1
    <3> HIDE DEF h
    <3>2. LineStep(tr[n], t[n + 1], tr[n + 1])
      BY <1>0, <1>1, <2>0, <3>1
    <3>3. Partial(t, n + 1, NoMtu(tr[n + 1]))
      BY <1>2, <1>4, <2>0, <3>1, <3>2, NoMtuPartial
    <3> QED BY <3>1, <3>3
  <2>2. CASE n + 1 = top
    <3>1. h(n) = tr[n] /\ h(n + 1) = tr[n + 2] /\ n + 1 \in 1 .. top
      BY <1>0, <2>0, <2>2
    <3> HIDE DEF h
    <3>2. LineStep(tr[n], t[n + 1], tr[n + 1]) /\ LineStep(tr[n + 1], MtuLine(m), tr[n + 2])
      BY <1>0, <1>1, <2>0, <2>2, <3>1
    <3>3. Partial(t, n + 1, NoMtu(tr[n + 1]))
      BY <1>2, <1>4, <2>0, <3>1, <3>2, NoMtuPartial
    <3>4. tr[n + 1].section = "interface"
      <4>1. t[n + 1].kind \in Headers /\ t[n + 1].key = "interface"
        BY <2>2 DEF PlainInterface, Headers
      <4>2. Section(t, n + 1) = "interface"
        BY <1>4, <2>0, <4>1, SectionStep
      <4> QED BY <1>2, <2>0, <3>3, <4>2, NoMtuType DEF Partial
    <3>5. tr[n + 2] = InterfaceLine(tr[n + 1], "mtu", <<m>>)
      BY <3>2, <3>4 DEF LineStep, MtuLine, Headers
    <3> DEFINE x == tr[n + 1]  y == tr[n + 2]
    <3>6. x \in State /\ y \in State /\ y.ok /\ y = InterfaceLine(x, "mtu", <<m>>)
      BY <1>2, <2>0, <3>5
    <3>7. y = [x EXCEPT !.mtu = <<m>>]
      <4> HIDE DEF x, y
      <4>1. y = IF parse_mtu(<<m>>) # None THEN [x EXCEPT !.mtu = <<m>>] ELSE Fail(x)
        BY <3>6 DEF InterfaceLine, KNOWN_INTERFACE_KEYS, ListKeys, HookKeys, IgnoredKeys
      <4>2. y # Fail(x)
        BY <3>6, LeftType
      <4> QED BY <4>1, <4>2
    <3>8. NoMtu(y) = NoMtu(x) /\ y.mtu = <<m>>
      <4> HIDE DEF x, y
      <4> QED BY <3>6, <3>7 DEF NoMtu, State
    <3> QED BY <3>1, <3>3, <3>8
  <2>3. CASE top <= n
    <3>1. /\ h(n) = tr[n + 1] /\ h(n + 1) = tr[n + 2] /\ n + 1 \in top + 1 .. Len(t)
          /\ h(n).mtu = <<m>>
      BY <1>0, <1>4, <2>0, <2>3
    <3>2. LineStep(tr[n + 1], t[n + 1], tr[n + 2])
      BY <1>0, <1>1, <2>0, <3>1
    <3> HIDE DEF h
    <3>3. Partial(t, n + 1, NoMtu(tr[n + 2])) /\ tr[n + 2].mtu = tr[n + 1].mtu
      BY <1>2, <1>4, <2>0, <3>1, <3>2, NoMtuPartial
    <3> QED BY <3>1, <3>3
  <2> QED BY <1>0, <2>0, <2>1, <2>2, <2>3
<1>5. P(Len(t))
  <2> HIDE DEF P
  <2> SUFFICES ASSUME ~P(Len(t)) PROVE FALSE
    OBVIOUS
  <2>1. T \subseteq Nat /\ T # {}
    BY <1>0
  <2>2. PICK x \in T : \A y \in T : x <= y
    <3> HIDE DEF T
    <3> QED BY <2>1, LeastOf
  <2>3. x # 0 /\ x \in Nat /\ x <= Len(t) /\ ~P(x)
    BY <1>3, <2>2
  <2>4. x - 1 \in Nat /\ (x - 1) + 1 = x /\ ~(x <= x - 1) /\ x - 1 <= Len(t)
    BY <1>0, <2>3
  <2>5. P(x - 1)
    BY <2>2, <2>4
  <2> QED BY <1>4, <2>3, <2>4, <2>5
<1>6. h(Len(t)) = tr[Len(q)] /\ tr[Len(q)] \in State
  BY <1>0, <1>2
<1> HIDE DEF h
<1> QED BY <1>0, <1>5, <1>6

\* The line that is put in says the MTU, and nothing else.
LEMMA ExtendedMeans ==
  ASSUME NEW t \in Seq(Line), NEW top \in 1 .. Len(t), PlainInterface(t[top]), NEW m \in U16,
         NEW q, Extended(t, top, MtuLine(m), q), \A i \in 1 .. Len(t) : ~SetsMtu(t, i),
         NEW c, Parsed(q, c)
  PROVE  Identity(c) = [Meaning(t) EXCEPT !.mtu = <<m>>]
<1>1. PICK tr : Trace(q, tr, Len(q)) /\ tr[Len(q)].ok /\ c = Finished(tr[Len(q)]) /\ c.ok
  BY DEF Parsed
<1> DEFINE s == tr[Len(q)]  d == NoMtu(c)
<1>2. Partial(t, Len(t), NoMtu(s)) /\ s.mtu = <<m>> /\ s \in State /\ c = Finished(s) /\ c.ok
  BY <1>1, ExtendedSays
<1> HIDE DEF s
<1>3. c = Left(s) /\ c \in State /\ c.mtu = <<m>> /\ Finished(NoMtu(s)) = d
  <2> DEFINE x == Left(s)  bad == x.private_key = None \/ x.address = <<>> \/ x.peers = <<>>
  <2>1. x \in State /\ x.mtu = s.mtu /\ c = (IF bad THEN Fail(x) ELSE x) /\ Left(NoMtu(s)) = NoMtu(x)
    BY <1>2, LeftType, NoMtuLeft DEF Finished, EndOfInput
  <2> HIDE DEF x
  <2>2. ~Fail(x).ok
    BY <2>1, LeftType
  <2>3. c = x /\ ~bad
    BY <1>2, <2>1, <2>2
  <2>4. EndOfInput(NoMtu(x)) = NoMtu(x)
    BY <2>1, <2>3, NoMtuType DEF EndOfInput
  <2>5. Finished(NoMtu(s)) = NoMtu(x)
    BY <2>1, <2>4 DEF Finished
  <2> QED BY <1>2, <2>1, <2>3, <2>5 DEF x
<1>4. NoMtu(s) \in State /\ d.ok /\ d \in State
  BY <1>2, <1>3, NoMtuType
<1>5. Identity(d) = Meaning(t)
  BY <1>2, <1>3, <1>4, EndLegal
<1>6. Identity(c) = [Identity(d) EXCEPT !.mtu = <<m>>]
  <2> DEFINE ps == [n \in DOMAIN c.peers |-> Unresolved(c.peers[n])]
  <2>1. d.peers = c.peers
    BY <1>3, NoMtuType
  <2>2. Identity(c) = [c EXCEPT !.section = "none", !.peers = ps]
    BY DEF Identity, Unresolved
  <2>3. Identity(d) = [d EXCEPT !.section = "none", !.peers = ps]
    BY <2>1 DEF Identity, Unresolved
  <2> HIDE DEF ps
  <2>4. [c EXCEPT !.section = "none", !.peers = ps]
          = [[d EXCEPT !.section = "none", !.peers = ps] EXCEPT !.mtu = <<m>>]
    BY <1>3 DEF NoMtu, State
  <2> QED BY <2>2, <2>3, <2>4
<1> QED BY <1>5, <1>6

\* No header has inner blanks or a comment.
NoSpaced(t) == \A i \in DOMAIN t : t[i].kind # "spaced"

\* Where no header is spelled otherwise, an interface is one that the override recognises.
LEMMA PlainSections ==
  ASSUME NEW t \in Seq(Line), NoSpaced(t), NEW i \in 1 .. Len(t)
  PROVE  Section(t, i) = "interface" <=>
           HeaderOf(t, i) # None /\ PlainInterface(t[HeaderOf(t, i)[1]])
<1>1. CASE HeaderOf(t, i) = None
  BY <1>1 DEF Section
<1>2. CASE HeaderOf(t, i) # None
  <2>1. i \in Nat
    OBVIOUS
  <2>2. PICK h \in 1 .. i : HeaderOf(t, i) = <<h>> /\ t[h].kind \in Headers
    BY <1>2, <2>1, HeaderAbove
  <2>3. HeaderOf(t, i)[1] = h /\ h \in DOMAIN t
    BY <2>2
  <2>4. t[h].kind = "header"
    BY <2>2, <2>3 DEF NoSpaced, Headers
  <2> QED BY <1>2, <2>3, <2>4 DEF Section, PlainInterface
<1> QED BY <1>1, <1>2

\* Two texts with the same headers have the same sections.
SameHeaders(t, u) ==
  /\ Len(u) = Len(t)
  /\ \A i \in 1 .. Len(t) : u[i].kind \in Headers <=> t[i].kind \in Headers
  /\ \A i \in 1 .. Len(t) : t[i].kind \in Headers => u[i].key = t[i].key

\* Then they have the same lines in each of them.
LEMMA SectionsSame ==
  ASSUME NEW t \in Seq(Line), NEW u \in Seq(Line), SameHeaders(t, u)
  PROVE  /\ \A i \in 1 .. Len(t) : HeaderOf(u, i) = HeaderOf(t, i) /\ Section(u, i) = Section(t, i)
         /\ InterfaceLines(u) = InterfaceLines(t) /\ PeerHeaders(u) = PeerHeaders(t)
         /\ \A h : LinesUnder(u, h) = LinesUnder(t, h)
<1>1. /\ Len(u) = Len(t) /\ DOMAIN u = 1 .. Len(t) /\ DOMAIN t = 1 .. Len(t)
      /\ \A i \in 1 .. Len(t) : u[i].kind \in Headers <=> t[i].kind \in Headers
      /\ \A i \in 1 .. Len(t) : t[i].kind \in Headers => u[i].key = t[i].key
  BY DEF SameHeaders
<1>2. ASSUME NEW i \in 1 .. Len(t) PROVE HeaderOf(u, i) = HeaderOf(t, i)
  <2> DEFINE last(A) == IF A = {} THEN None ELSE <<CHOOSE j \in A : \A k \in A : k <= j>>
             A == {j \in 1 .. i : t[j].kind \in Headers}  B == {j \in 1 .. i : u[j].kind \in Headers}
  <2>1. HeaderOf(t, i) = last(A) /\ HeaderOf(u, i) = last(B)
    BY DEF HeaderOf
  <2>2. \A j \in 1 .. i : j \in 1 .. Len(t)
    OBVIOUS
  <2>3. A = B
    BY <1>1, <2>2
  <2> HIDE DEF last, A, B
  <2> QED BY <2>1, <2>3
<1>3. ASSUME NEW i \in 1 .. Len(t) PROVE Section(u, i) = Section(t, i)
  <2>1. HeaderOf(u, i) = HeaderOf(t, i) /\ i \in Nat
    BY <1>2
  <2>2. CASE HeaderOf(t, i) = None
    BY <2>1, <2>2 DEF Section
  <2>3. CASE HeaderOf(t, i) # None
    <3>1. PICK h \in 1 .. i : HeaderOf(t, i) = <<h>> /\ t[h].kind \in Headers
      BY <2>1, <2>3, HeaderAbove
    <3>2. HeaderOf(t, i)[1] = h /\ u[h].key = t[h].key
      BY <1>1, <3>1
    <3> QED BY <2>1, <2>3, <3>2 DEF Section
  <2> QED BY <2>2, <2>3
<1>4. InterfaceLines(u) = InterfaceLines(t)
  BY <1>1, <1>3 DEF InterfaceLines
<1>5. PeerHeaders(u) = PeerHeaders(t)
  <2>1. {i \in DOMAIN u : u[i].kind \in Headers /\ u[i].key = "peer"}
          = {i \in DOMAIN t : t[i].kind \in Headers /\ t[i].key = "peer"}
    BY <1>1
  <2> QED BY <2>1, Zenon DEF PeerHeaders
<1>6. ASSUME NEW h PROVE LinesUnder(u, h) = LinesUnder(t, h)
  BY <1>1, <1>2 DEF LinesUnder
<1> QED BY <1>2, <1>3, <1>4, <1>5, <1>6

\* Line i gives key k a value.
Gives(t, i, k) == t[i].kind = "set" /\ t[i].key = k

\* The two texts have the same directives for key k.
SameGiven(t, u, k) ==
  \A i \in 1 .. Len(t) :
    (Gives(u, i, k) <=> Gives(t, i, k)) /\ (Gives(t, i, k) => u[i].value = t[i].value)

\* Two texts that agree on the directives of a key give it the same values.
LEMMA GivenSame ==
  ASSUME NEW t \in Seq(Line), NEW u \in Seq(Line), NEW k, SameGiven(t, u, k),
         NEW S, S \subseteq 1 .. Len(t)
  PROVE  Given(u, S, k) = Given(t, S, k)
<1> DEFINE A == {i \in S : Gives(t, i, k)}  B == {i \in S : Gives(u, i, k)}  at == InOrder(A)
<1>1. A \subseteq 1 .. Len(t) /\ Len(t) \in Nat /\ \A i \in A : u[i].value = t[i].value
  <2>1. A \subseteq S /\ Len(t) \in Nat
    OBVIOUS
  <2>2. ASSUME NEW i \in A PROVE u[i].value = t[i].value
    <3>1. i \in 1 .. Len(t) /\ Gives(t, i, k)
      OBVIOUS
    <3> QED BY <3>1 DEF SameGiven
  <2> QED BY <2>1, <2>2
<1>2. A = B
  <2>1. ASSUME NEW i \in S
        PROVE  Gives(u, i, k) <=> Gives(t, i, k)
    <3>1. i \in 1 .. Len(t)
      OBVIOUS
    <3> QED BY <3>1 DEF SameGiven
  <2> QED BY <2>1
<1>3. /\ Given(t, S, k) = [n \in DOMAIN InOrder(A) |-> t[InOrder(A)[n]].value]
      /\ Given(u, S, k) = [n \in DOMAIN InOrder(B) |-> u[InOrder(B)[n]].value]
  BY DEF Given, Gives
<1> HIDE DEF A, B
<1>4. at \in Seq(A)
  BY <1>1, OrderLists DEF Lists
<1>5. \A n \in DOMAIN at : at[n] \in A
  BY <1>4
<1>6. /\ Given(t, S, k) = [n \in DOMAIN at |-> t[at[n]].value]
      /\ Given(u, S, k) = [n \in DOMAIN at |-> u[at[n]].value]
  BY <1>2, <1>3
<1> HIDE DEF at
<1> QED BY <1>1, <1>5, <1>6

\* The lines in S give key k one value.
GiveOne(u, S, k, v) ==
  (\E i \in S : Gives(u, i, k)) /\ (\A i \in S : Gives(u, i, k) => u[i].value = v)

\* What all the lines give is what the last one gives.
LEMMA GivenLast ==
  ASSUME NEW u \in Seq(Line), NEW S, S \subseteq 1 .. Len(u), NEW k, NEW v, GiveOne(u, S, k, v)
  PROVE  LastOf(Given(u, S, k)) = v
<1> DEFINE A == {i \in S : Gives(u, i, k)}  at == InOrder(A)  g == Given(u, S, k)
<1>1. A \subseteq 1 .. Len(u) /\ Len(u) \in Nat /\ A # {} /\ \A i \in A : u[i].value = v
  <2>1. A \subseteq S /\ Len(u) \in Nat
    OBVIOUS
  <2>2. PICK i \in S : Gives(u, i, k)
    BY DEF GiveOne
  <2>3. i \in A
    BY <2>2
  <2>4. ASSUME NEW j \in A PROVE u[j].value = v
    BY DEF GiveOne
  <2> QED BY <2>1, <2>3, <2>4
<1>2. g = [n \in DOMAIN at |-> u[at[n]].value]
  BY DEF Given, Gives
<1> HIDE DEF A, g
<1>3. at \in Seq(A) /\ \E n \in 1 .. Len(at) : TRUE
  BY <1>1, OrderLists DEF Lists
<1> HIDE DEF at
<1>4. Len(at) \in Nat /\ Len(at) >= 1 /\ DOMAIN at = 1 .. Len(at) /\ \A n \in 1 .. Len(at) : at[n] \in A
  BY <1>3
<1>5. g = [n \in 1 .. Len(at) |-> v]
  BY <1>1, <1>2, <1>4
<1>6. g \in Seq({v}) /\ Len(g) = Len(at) /\ g[Len(at)] = v
  BY <1>4, <1>5
<1>7. g # <<>>
  <2> SUFFICES ASSUME g = <<>> PROVE FALSE
    OBVIOUS
  <2>1. Len(g) = 0
    OBVIOUS
  <2> QED BY <1>4, <1>6, <2>1
<1>8. LastOf(g) = v
  BY <1>6, <1>7 DEF LastOf
<1> QED BY <1>8 DEF g

\* The meanings of two texts differ in the MTU at most.
LEMMA MeaningSame ==
  ASSUME NEW t \in Seq(Line), NEW u \in Seq(Line), SameHeaders(t, u),
         \A k : k # "mtu" => SameGiven(t, u, k),
         NEW v, LastOf(Given(u, InterfaceLines(u), "mtu")) = v
  PROVE  Meaning(u) = [Meaning(t) EXCEPT !.mtu = v]
<1> DEFINE S == InterfaceLines(t)  hs == PeerHeaders(t)  a == Meaning(t)  b == Meaning(u)
<1>1. /\ InterfaceLines(u) = S /\ PeerHeaders(u) = hs
      /\ \A h : LinesUnder(u, h) = LinesUnder(t, h)
  BY SectionsSame
<1>2. DOMAIN t = 1 .. Len(t) /\ S \subseteq 1 .. Len(t) /\ \A h : LinesUnder(t, h) \subseteq 1 .. Len(t)
  <2>1. DOMAIN t = 1 .. Len(t)
    OBVIOUS
  <2> QED BY <2>1 DEF InterfaceLines, LinesUnder
<1> HIDE DEF S, hs
<1>3. \A k : k # "mtu" => Given(u, S, k) = Given(t, S, k)
  BY <1>2, GivenSame
<1>4. ASSUME NEW h PROVE MeaningOfPeer(u, LinesUnder(u, h)) = MeaningOfPeer(t, LinesUnder(t, h))
  <2> DEFINE R == LinesUnder(t, h)
  <2>1. LinesUnder(u, h) = R /\ R \subseteq 1 .. Len(t)
    BY <1>1, <1>2
  <2> HIDE DEF R
  <2>2. \A k : k # "mtu" => Given(u, R, k) = Given(t, R, k)
    BY <2>1, GivenSame
  <2>3. MeaningOfPeer(u, R) = MeaningOfPeer(t, R)
    BY <2>2 DEF MeaningOfPeer
  <2> QED BY <2>1, <2>3 DEF R
<1>5. /\ b.private_key = a.private_key /\ b.address = a.address /\ b.dns = a.dns /\ b.mtu = v
  <2>1. /\ a.private_key = LastOf(Given(t, S, "privatekey"))
        /\ a.address = FlattenSeq(Given(t, S, "address")) /\ a.dns = FlattenSeq(Given(t, S, "dns"))
    BY MeaningFields DEF S
  <2>2. /\ b.private_key = LastOf(Given(u, S, "privatekey"))
        /\ b.address = FlattenSeq(Given(u, S, "address")) /\ b.dns = FlattenSeq(Given(u, S, "dns"))
        /\ b.mtu = v
    BY <1>1, MeaningFields
  <2> HIDE DEF a, b
  <2> QED BY <1>3, <2>1, <2>2
<1>6. b.hooks = a.hooks
  <2>1. a.hooks = [k \in HookKeys |-> Given(t, S, k)]
    BY MeaningFields DEF S
  <2>2. b.hooks = [k \in HookKeys |-> Given(u, S, k)]
    BY <1>1, MeaningFields
  <2> HIDE DEF a, b
  <2>3. \A k \in HookKeys : Given(u, S, k) = Given(t, S, k)
    BY <1>3 DEF HookKeys
  <2> QED BY <2>1, <2>2, <2>3
<1>7. b.peers = a.peers
  <2>1. a.peers = [n \in DOMAIN hs |-> MeaningOfPeer(t, LinesUnder(t, hs[n]))]
    BY MeaningFields DEF hs
  <2>2. b.peers = [n \in DOMAIN hs |-> MeaningOfPeer(u, LinesUnder(u, hs[n]))]
    BY <1>1, MeaningFields
  <2> HIDE DEF a, b
  <2> QED BY <1>4, <2>1, <2>2
<1>8. a = [ok |-> TRUE, section |-> "none", private_key |-> a.private_key, mtu |-> a.mtu,
           address |-> a.address, dns |-> a.dns, hooks |-> a.hooks, peers |-> a.peers,
           peer |-> NoPeer]
  BY MeaningFields
<1>9. b = [ok |-> TRUE, section |-> "none", private_key |-> b.private_key, mtu |-> b.mtu,
           address |-> b.address, dns |-> b.dns, hooks |-> b.hooks, peers |-> b.peers,
           peer |-> NoPeer]
  BY MeaningFields
<1> HIDE DEF a, b
<1>10. [a EXCEPT !.mtu = v]
         = [ok |-> TRUE, section |-> "none", private_key |-> a.private_key, mtu |-> v,
            address |-> a.address, dns |-> a.dns, hooks |-> a.hooks, peers |-> a.peers,
            peer |-> NoPeer]
  <2> DEFINE w == a.private_key  x == a.address  y == a.dns  z == a.hooks  p0 == a.peers  q == a.mtu
             e == NoPeer
             R(o) == [ok : {TRUE}, section : {"none"}, private_key : {w}, mtu : {o}, address : {x},
                      dns : {y}, hooks : {z}, peers : {p0}, peer : {e}]
  <2>1. a = [ok |-> TRUE, section |-> "none", private_key |-> w, mtu |-> q, address |-> x,
             dns |-> y, hooks |-> z, peers |-> p0, peer |-> e]
    BY <1>8
  <2> HIDE DEF w, x, y, z, p0, q, e
  <2>2. a \in R(q)
    BY <2>1
  <2>3. [a EXCEPT !.mtu = v] \in R(v)
    BY <2>2
  <2> DEFINE b2 == [a EXCEPT !.mtu = v]
  <2>4. b2 \in R(v)
    BY <2>3
  <2> HIDE DEF b2
  <2>5. b2 = [ok |-> TRUE, section |-> "none", private_key |-> w, mtu |-> v,
             address |-> x, dns |-> y, hooks |-> z, peers |-> p0, peer |-> e]
    BY <2>4
  <2> QED BY <2>5 DEF b2, w, x, y, z, p0, e
<1>11. b = [a EXCEPT !.mtu = v]
  BY <1>5, <1>6, <1>7, <1>9, <1>10, Zenon
<1> QED BY <1>11 DEF a, b

\* The directives for the MTU of an interface, replaced.
LEMMA ReplacedMeans ==
  ASSUME NEW t \in Seq(Line), NoSpaced(t), NEW m \in U16, MtuLines(t) # {}, NEW u,
         u = [i \in DOMAIN t |-> IF i \in MtuLines(t) THEN MtuLine(m) ELSE t[i]]
  PROVE  Meaning(u) = [Meaning(t) EXCEPT !.mtu = <<m>>]
<1> DEFINE at == MtuLines(t)  S == InterfaceLines(u)
<1>1. DOMAIN t = 1 .. Len(t) /\ Len(t) \in Nat /\ at \subseteq 1 .. Len(t)
  BY DEF MtuLines
<1>2. /\ \A i \in at : t[i].kind \in {"set", "empty"} /\ t[i].key = "mtu"
      /\ \A i \in at : Section(t, i) = "interface"
      /\ \A i \in 1 .. Len(t) : SetsMtu(t, i) => i \in at
  <2>1. ASSUME NEW i \in at
        PROVE  /\ t[i].kind \in {"set", "empty"} /\ t[i].key = "mtu"
               /\ HeaderOf(t, i) # None /\ PlainInterface(t[HeaderOf(t, i)[1]])
    BY DEF MtuLines
  <2>2. ASSUME NEW i \in at PROVE Section(t, i) = "interface"
    BY <1>1, <2>1, PlainSections
  <2>3. ASSUME NEW i \in 1 .. Len(t), SetsMtu(t, i) PROVE i \in at
    <3>1. HeaderOf(t, i) # None /\ PlainInterface(t[HeaderOf(t, i)[1]])
      BY <2>3, PlainSections DEF SetsMtu
    <3> QED BY <1>1, <2>3, <3>1 DEF MtuLines, SetsMtu
  <2> QED BY <2>1, <2>2, <2>3
<1> HIDE DEF at
<1>3. /\ u \in Seq(Line) /\ Len(u) = Len(t)
      /\ \A i \in 1 .. Len(t) : u[i] = IF i \in at THEN MtuLine(m) ELSE t[i]
  BY <1>1, MtuLineType DEF at
<1>4. MtuLine(m).kind = "set" /\ MtuLine(m).key = "mtu" /\ MtuLine(m).value = <<m>>
  BY DEF MtuLine
<1>5. SameHeaders(t, u)
  <2>1. ASSUME NEW i \in 1 .. Len(t)
        PROVE  /\ u[i].kind \in Headers <=> t[i].kind \in Headers
               /\ t[i].kind \in Headers => u[i].key = t[i].key
    <3>1. CASE i \in at
      BY <1>2, <1>3, <1>4, <3>1 DEF Headers
    <3>2. CASE i \notin at
      BY <1>3, <3>2
    <3> QED BY <3>1, <3>2
  <2> QED BY <1>3, <2>1 DEF SameHeaders
<1>6. ASSUME NEW k, k # "mtu" PROVE SameGiven(t, u, k)
  <2>1. ASSUME NEW i \in 1 .. Len(t)
        PROVE  (Gives(u, i, k) <=> Gives(t, i, k)) /\ (Gives(t, i, k) => u[i].value = t[i].value)
    <3>1. CASE i \in at
      BY <1>2, <1>3, <1>4, <1>6, <3>1 DEF Gives
    <3>2. CASE i \notin at
      BY <1>3, <3>2 DEF Gives
    <3> QED BY <3>1, <3>2
  <2> QED BY <2>1 DEF SameGiven
<1>7. LastOf(Given(u, S, "mtu")) = <<m>>
  <2>1. S = InterfaceLines(t) /\ S \subseteq 1 .. Len(u)
    BY <1>1, <1>3, <1>5, SectionsSame DEF InterfaceLines
  <2>2. \A i \in S : Section(t, i) = "interface" /\ i \in 1 .. Len(t)
    BY <1>1, <2>1 DEF InterfaceLines
  <2>3. at \subseteq S
    BY <1>1, <1>2, <2>1 DEF InterfaceLines
  <2> HIDE DEF S
  <2>4. PICK i \in at : TRUE
    BY DEF at
  <2>5. i \in S /\ Gives(u, i, "mtu")
    BY <1>1, <1>3, <1>4, <2>3 DEF Gives
  <2>6. ASSUME NEW j \in S, Gives(u, j, "mtu") PROVE u[j].value = <<m>>
    <3>1. j \in at
      BY <1>2, <1>3, <2>2, <2>6 DEF SetsMtu, Gives
    <3> QED BY <1>1, <1>3, <1>4, <3>1
  <2>7. GiveOne(u, S, "mtu", <<m>>)
    BY <2>5, <2>6 DEF GiveOne
  <2> QED BY <1>3, <2>1, <2>7, GivenLast
<1> HIDE DEF S
<1>8. \A k : k # "mtu" => SameGiven(t, u, k)
  BY <1>6
<1> QED BY <1>3, <1>5, <1>7, <1>8, MeaningSame, SMTT(60) DEF S

\* Without an interface a text is not legal.
LEMMA NoInterface ==
  ASSUME NEW t \in Seq(Line), NoSpaced(t), \A i \in 1 .. Len(t) : ~PlainInterface(t[i])
  PROVE  ~Legal(t)
<1>1. ASSUME NEW i \in 1 .. Len(t) PROVE Section(t, i) # "interface"
  <2> SUFFICES ASSUME Section(t, i) = "interface" PROVE FALSE
    OBVIOUS
  <2>1. i \in Nat /\ HeaderOf(t, i) # None /\ PlainInterface(t[HeaderOf(t, i)[1]])
    BY PlainSections
  <2>2. PICK h \in 1 .. i : HeaderOf(t, i) = <<h>>
    BY <2>1, HeaderAbove
  <2>3. HeaderOf(t, i)[1] = h /\ h \in 1 .. Len(t)
    BY <2>2
  <2> QED BY <2>1, <2>3
<1>2. InterfaceLines(t) = {}
  <2>1. DOMAIN t = 1 .. Len(t)
    OBVIOUS
  <2> QED BY <1>1, <2>1 DEF InterfaceLines
<1>3. Meaning(t).private_key = LastOf(Given(t, {}, "privatekey"))
  BY <1>2, MeaningFields
<1>4. Meaning(t).private_key = None
  BY <1>3, GivenNothing DEF LastOf
<1> QED BY <1>4 DEF Legal

\* The override takes effect and changes nothing else.
LEMMA OverrideMeans ==
  ASSUME NEW t \in Seq(Line), NoSpaced(t), NEW m \in U16, NEW u,
         u = apply_mtu_override_to_conf_text(t, m), NEW c, Parsed(u, c), Legal(u),
         Identity(c) = Meaning(u)
  PROVE  Identity(c) = [Meaning(t) EXCEPT !.mtu = <<m>>]
<1> DEFINE at == MtuLines(t)
           plain == {i \in DOMAIN t : PlainInterface(t[i])}
           top == CHOOSE i \in plain : \A j \in plain : i <= j
           q == InsertAt(t, top + 1, MtuLine(m))
<1>1. CASE at # {}
  <2>1. u = [i \in DOMAIN t |-> IF i \in MtuLines(t) THEN MtuLine(m) ELSE t[i]]
    BY <1>1 DEF apply_mtu_override_to_conf_text
  <2> QED BY <1>1, <2>1, ReplacedMeans
<1>2. CASE at = {} /\ plain # {}
  <2>1. top \in 1 .. Len(t) /\ PlainInterface(t[top])
    <3>1. plain \subseteq Nat
      OBVIOUS
    <3>2. \E i \in plain : \A j \in plain : i <= j
      <4> HIDE DEF plain
      <4> QED BY <1>2, <3>1, LeastOf
    <3>3. top \in plain
      BY <3>2
    <3> HIDE DEF top
    <3> QED BY <3>3
  <2>2. u = q
    BY <1>2 DEF apply_mtu_override_to_conf_text
  <2>3. ASSUME NEW i \in 1 .. Len(t) PROVE ~SetsMtu(t, i)
    <3> SUFFICES ASSUME SetsMtu(t, i) PROVE FALSE
      OBVIOUS
    <3>1. HeaderOf(t, i) # None /\ PlainInterface(t[HeaderOf(t, i)[1]])
      BY PlainSections DEF SetsMtu
    <3>2. i \in at
      BY <3>1 DEF MtuLines, SetsMtu
    <3> QED BY <1>2, <3>2
  <2> HIDE DEF top, at, plain
  <2>4. Extended(t, top, MtuLine(m), q)
    <3>1. MtuLine(m) \in Line
      BY MtuLineType
    <3> QED BY <2>1, <3>1, Inserted DEF Extended
  <2>5. Extended(t, top, MtuLine(m), u)
    BY <2>2, <2>4
  <2> HIDE DEF q
  <2>6. \A i \in 1 .. Len(t) : ~SetsMtu(t, i)
    BY <2>3
  <2> QED BY <2>1, <2>5, <2>6, ExtendedMeans
<1>3. CASE at = {} /\ plain = {}
  <2>1. u = t
    BY <1>3 DEF apply_mtu_override_to_conf_text
  <2>2. \A i \in 1 .. Len(t) : ~PlainInterface(t[i])
    BY <1>3
  <2> QED BY <2>1, <2>2, NoInterface
<1> QED BY <1>1, <1>2, <1>3

-----------------------------------------------------------------------------
(* The invariant.                                                          *)

\* A pass under way has followed the parser line by line.
Traced == phase \in Passes => \E tr : Trace(raw, tr, pos - 1) /\ tr[pos - 1] = p

\* An endpoint that was given has an address.
Answered(c) ==
  \A j \in DOMAIN c.peers : (c.peers[j].endpoint = None) <=> (c.peers[j].endpoint_literal = None)

\* The record holds the fingerprint of what was added, which is what its text says
\* as long as nobody changed it.
Recorded ==
  phase \notin {"add", "rejected"} =>
    /\ fp = <<fingerprint(added[1])>> /\ Config(added[1])
    /\ ~tampered => Parsed(raw, added[1])
    /\ phase = "stored" => p = added[1] /\ Answered(p)

\* A submission is refused for a line or a whole that is not legal, or because a host
\* name could not be resolved.
Refused ==
  phase = "rejected" \/ (phase = "add" /\ ~p.ok) => ~Legal(raw) \/ lookupFailed

\* A text that is handed to the helper has been parsed and compared.
Checked == phase = "launch" => \E c : Parsed(raw, c) /\ fp = <<fingerprint(c)>>

\* The helper parses the text a third time, and host names are resolved anew: what it
\* runs still has the fingerprint of the record, which connect compared before.
RunsVerified == phase = "running" => fp = <<fingerprint(p)>>

\* What runs is what the text says now.
Ran == phase = "running" => Parsed(raw, p)

\* The override may have put in one line.
InSize == Len(raw) <= MAX_CONF_TEXT_BYTES + 1

ConfigInv ==
  /\ TypeOK /\ InSize /\ Traced /\ Recorded /\ Refused /\ Checked /\ Ran
  /\ UnchangedNeverStale /\ RunsVerified

\* A pass starts with a trace of its own.
LEMMA EmptyTrace ==
  ASSUME NEW t
  PROVE  Trace(t, [k \in 0 .. 0 |-> Start], 0) /\ [k \in 0 .. 0 |-> Start][0] = Start
BY StartType DEF Trace

\* One more line makes the trace one longer.
LEMMA LongerTrace ==
  ASSUME NEW t \in Seq(Line), NEW n \in Nat, n < Len(t), NEW tr, Trace(t, tr, n), tr[n].ok,
         NEW s, LineStep(tr[n], t[n + 1], s)
  PROVE  \E tr2 : Trace(t, tr2, n + 1) /\ tr2[n + 1] = s
<1> DEFINE tr2 == [k \in 0 .. n + 1 |-> IF k <= n THEN tr[k] ELSE s]
<1>1. tr[n] \in State /\ t[n + 1] \in Line
  BY DEF Trace
<1>2. s \in State
  BY <1>1, LineType
<1>3. tr2 \in [0 .. n + 1 -> State]
  BY <1>2 DEF Trace
<1>4. tr2[n + 1] = s /\ tr2[n] = tr[n] /\ \A k \in 0 .. n : tr2[k] = tr[k]
  OBVIOUS
<1>5. ASSUME NEW k \in 0 .. (n + 1) - 1 PROVE tr2[k].ok /\ LineStep(tr2[k], t[k + 1], tr2[k + 1])
  <2>1. CASE k = n
    BY <1>4, <2>1
  <2>2. CASE k # n
    <3>1. k \in 0 .. n - 1 /\ k \in 0 .. n /\ k + 1 \in 0 .. n
      BY <2>2
    <3>2. tr[k].ok /\ LineStep(tr[k], t[k + 1], tr[k + 1])
      BY <3>1 DEF Trace
    <3> HIDE DEF tr2
    <3> QED BY <1>4, <3>1, <3>2
  <2> QED BY <2>1, <2>2
<1>6. tr2[0] = Start
  BY <1>4 DEF Trace
<1> HIDE DEF tr2
<1>7. Trace(t, tr2, n + 1)
  BY <1>3, <1>5, <1>6 DEF Trace
<1> QED BY <1>4, <1>7

\* Every way to read a line is a step of the parser.
LEMMA ReadStep ==
  ASSUME TypeOK, ReadHeader \/ ReadBlank \/ ReadMalformed \/ ReadOutside \/ ReadInterface \/ ReadPeer
  PROVE  /\ phase \in Passes /\ p.ok /\ pos <= Len(raw) /\ LineStep(p, raw[pos], p')
         /\ pos' = pos + 1 /\ UNCHANGED <<raw, fp, phase, tampered, added>>
<1>1. phase \in Passes /\ p.ok /\ pos <= Len(raw)
  BY DEF ReadHeader, ReadBlank, ReadMalformed, ReadOutside, ReadInterface, ReadPeer, AtLine
<1>2. pos' = pos + 1 /\ UNCHANGED <<raw, fp, phase, tampered, added>>
  BY DEF ReadHeader, ReadBlank, ReadMalformed, ReadOutside, ReadInterface, ReadPeer, Advance, record
<1>3. CASE ReadPeer
  <2>1. raw[pos].kind = "set" /\ p.section = "peer"
    BY <1>3 DEF ReadPeer, AtLine
  <2>2. \E answer \in Answers : p' = PeerLine(p, raw[pos].key, raw[pos].value, answer)
    BY <1>3 DEF ReadPeer, Answers
  <2> QED BY <1>1, <1>2, <2>1, <2>2 DEF LineStep
<1>4. CASE ReadHeader \/ ReadBlank \/ ReadMalformed \/ ReadOutside \/ ReadInterface
  <2>1. LineStep(p, raw[pos], p')
    BY <1>4 DEF ReadHeader, ReadBlank, ReadMalformed, ReadOutside, ReadInterface, AtLine, LineStep
  <2> QED BY <1>1, <1>2, <2>1
<1> QED BY <1>3, <1>4

\* A pass under way holds what the lines read so far say.
LEMMA PassSays ==
  ASSUME TypeOK, Traced, phase \in Passes, p.ok
  PROVE  Partial(raw, pos - 1, p) /\ raw \in Seq(Line) /\ pos - 1 \in Nat /\ pos - 1 <= Len(raw)
<1>1. raw \in Seq(Line) /\ pos - 1 \in Nat /\ pos - 1 <= Len(raw)
  BY DEF TypeOK
<1>2. PICK tr : Trace(raw, tr, pos - 1) /\ tr[pos - 1] = p
  BY DEF Traced
<1> QED BY <1>1, <1>2, TraceSays

\* A line of a submission is refused because it is not legal, because the peer above it
\* is not complete, or because of a lookup.
LEMMA ReadRefused ==
  ASSUME TypeOK, Traced, ~p'.ok,
         ReadHeader \/ ReadBlank \/ ReadMalformed \/ ReadOutside \/ ReadInterface \/ ReadPeer
  PROVE  ~Legal(raw) \/ lookupFailed'
<1> DEFINE n == pos - 1
<1>1. phase \in Passes /\ p.ok /\ pos <= Len(raw) /\ pos = n + 1 /\ p \in State
  BY ReadStep DEF TypeOK
<1>2. Partial(raw, n, p) /\ raw \in Seq(Line) /\ n \in Nat
  BY <1>1, PassSays
<1> HIDE DEF n
<1>3. CASE ReadHeader
  <2>1. raw[n + 1].kind \in Headers /\ p' = Header(p, raw[n + 1].key)
    BY <1>1, <1>3 DEF ReadHeader, AtLine
  <2> QED BY <1>1, <1>2, <2>1, HeaderRefused
<1>4. CASE ReadBlank
  BY <1>1, <1>4 DEF ReadBlank
<1>5. CASE ReadMalformed \/ ReadOutside
  <2>1. raw[n + 1].kind = "malformed" \/ (raw[n + 1].kind = "set" /\ p.section = "none")
    BY <1>1, <1>5 DEF ReadMalformed, ReadOutside, AtLine
  <2> QED BY <1>1, <1>2, <2>1, OutsideRefused
<1>6. CASE ReadInterface
  <2>1. /\ raw[n + 1].kind = "set" /\ p.section = "interface"
        /\ p' = InterfaceLine(p, raw[n + 1].key, raw[n + 1].value)
    BY <1>1, <1>6 DEF ReadInterface, AtLine
  <2> QED BY <1>1, <1>2, <2>1, InterfaceRefused
<1>7. CASE ReadPeer
  <2> DEFINE asks == raw[n + 1].key = "endpoint" /\ raw[n + 1].value[1] \in Hostnames
  <2>1. raw[n + 1].kind = "set" /\ p.section = "peer"
    BY <1>1, <1>7 DEF ReadPeer, AtLine
  <2>2. PICK answer \in (IF asks THEN {<<a>> : a \in Resolved} \cup {None} ELSE {None}) :
          /\ p' = PeerLine(p, raw[n + 1].key, raw[n + 1].value, answer)
          /\ lookupFailed' = (asks /\ answer = None)
    BY <1>1, <1>7 DEF ReadPeer
  <2>3. CASE asks /\ answer = None
    BY <2>2, <2>3
  <2>4. CASE ~(asks /\ answer = None)
    BY <1>1, <1>2, <2>1, <2>2, <2>4, PeerRefused
  <2> QED BY <2>3, <2>4
<1> QED BY <1>3, <1>4, <1>5, <1>6, <1>7

\* Reading a line.
LEMMA ReadInv ==
  ASSUME ConfigInv,
         ReadHeader \/ ReadBlank \/ ReadMalformed \/ ReadOutside \/ ReadInterface \/ ReadPeer
  PROVE  ConfigInv'
<1> USE DEF ConfigInv
<1>1. /\ phase \in Passes /\ p.ok /\ pos <= Len(raw) /\ LineStep(p, raw[pos], p')
      /\ pos' = pos + 1 /\ UNCHANGED <<raw, fp, phase, tampered, added>>
  BY ReadStep
<1>2. raw \in Seq(Line) /\ pos \in Nat /\ pos - 1 \in Nat /\ (pos - 1) + 1 = pos /\ pos - 1 < Len(raw)
      /\ raw[pos] \in Line /\ pos' - 1 = pos
  BY <1>1 DEF TypeOK
<1>3. TypeOK'
  <2>1. p' \in State
    BY <1>1, <1>2, LineType DEF TypeOK
  <2> QED BY <1>1, <1>2, <2>1 DEF TypeOK
<1>4. Traced'
  <2>1. PICK tr : Trace(raw, tr, pos - 1) /\ tr[pos - 1] = p
    BY <1>1 DEF Traced
  <2>2. \E tr2 : Trace(raw, tr2, pos) /\ tr2[pos] = p'
    BY <1>1, <1>2, <2>1, LongerTrace
  <2> QED BY <1>1, <1>2, <2>2 DEF Traced
<1>5. Recorded' /\ Checked'
  BY <1>1 DEF Recorded, Checked, Passes
<1>6. UnchangedNeverStale' /\ RunsVerified' /\ Ran' /\ InSize'
  BY <1>1 DEF UnchangedNeverStale, RunsVerified, Passes, Ran, InSize
<1>7. Refused'
  <2>1. ~p'.ok => ~Legal(raw) \/ lookupFailed'
    BY ReadRefused
  <2> QED BY <1>1, <2>1 DEF Refused, Passes
<1> QED BY <1>3, <1>4, <1>5, <1>6, <1>7

\* A pass that has read the whole text in good order has parsed it.
LEMMA PassEnds ==
  ASSUME ConfigInv, NEW ph \in Passes, AtEnd(ph), p.ok, Whole.ok
  PROVE  Parsed(raw, Whole)
<1>1. raw \in Seq(Line) /\ pos - 1 = Len(raw) /\ phase \in Passes
  BY DEF ConfigInv, TypeOK, AtEnd
<1>2. PICK tr : Trace(raw, tr, Len(raw)) /\ tr[Len(raw)] = p
  BY <1>1 DEF ConfigInv, Traced
<1> QED BY <1>2 DEF Parsed, Finished, Whole

\* The first connection of the text, or its refusal.
LEMMA FinishAddInv ==
  ASSUME ConfigInv, FinishAdd
  PROVE  ConfigInv'
<1> USE DEF ConfigInv
<1>1. AtEnd("add") /\ UNCHANGED <<raw, pos, tampered>> /\ p' = IF p.ok THEN Whole ELSE p
  BY DEF FinishAdd
<1>2. TypeOK'
  <2>1. p' \in State
    BY <1>1, FinishedType DEF Finished, Whole, TypeOK
  <2>2. phase' \in {"stored", "rejected"}
    BY DEF FinishAdd
  <2> QED BY <1>1, <2>1, <2>2 DEF TypeOK
<1>3. CASE p'.ok
  <2>1. phase' = "stored" /\ fp' = <<fingerprint(p')>> /\ added' = <<p'>>
    BY <1>3 DEF FinishAdd
  <2>2. Parsed(raw, p')
    BY <1>1, <1>3, PassEnds DEF Passes
  <2>3. added'[1] = p'
    BY <2>1
  <2>4. Config(p')
    BY <2>2, ParsedConfig DEF TypeOK, InSize
  <2>5. Answered(p')
    BY <2>2, ParsedSays DEF TypeOK, Answered
  <2>6. Recorded'
    BY <1>1, <2>1, <2>2, <2>3, <2>4, <2>5 DEF Recorded, Answered
  <2> QED
    BY <1>1, <1>2, <2>1, <2>6
       DEF Traced, Refused, Checked, Passes, UnchangedNeverStale, RunsVerified, Ran, InSize
<1>4. CASE ~p'.ok
  <2>1. phase = "add" /\ phase' = "rejected" /\ UNCHANGED lookupFailed
    BY <1>4 DEF FinishAdd, AtEnd
  <2>2. ~Legal(raw) \/ lookupFailed
    <3>1. CASE ~p.ok
      BY <2>1, <3>1 DEF Refused
    <3>2. CASE p.ok
      <4>1. p \in State /\ pos - 1 = Len(raw) /\ phase \in Passes
        BY <1>1, <2>1, <3>2 DEF TypeOK, AtEnd, Passes
      <4>2. Partial(raw, Len(raw), p) /\ raw \in Seq(Line)
        BY <3>2, <4>1, PassSays
      <4>3. ~Finished(p).ok
        BY <1>1, <1>4, <3>2 DEF Finished, Whole
      <4> QED BY <3>2, <4>1, <4>2, <4>3, EndIllegal
    <3> QED BY <3>1, <3>2
  <2>3. Refused'
    BY <1>1, <2>1, <2>2 DEF Refused
  <2> QED
    BY <1>1, <1>2, <2>1, <2>3
       DEF Traced, Recorded, Checked, Passes, UnchangedNeverStale, RunsVerified, Ran, InSize
<1> QED BY <1>3, <1>4

\* The stored text changes.
LEMMA TamperInv ==
  ASSUME ConfigInv, Tamper
  PROVE  ConfigInv'
<1> USE DEF ConfigInv
<1>1. /\ phase = "stored" /\ phase' = "stored" /\ tampered' /\ UNCHANGED <<fp, pos, p, added>>
  BY DEF Tamper
<1>2. raw' \in Seq(Line) /\ Len(raw') = Len(raw)
  <2>1. PICK i \in DOMAIN raw, l \in Edits : raw' = [raw EXCEPT ![i] = l]
    BY DEF Tamper
  <2>2. l \in Line
    BY LineAssumption
  <2> QED BY <2>1, <2>2 DEF TypeOK
<1>3. TypeOK'
  BY <1>1, <1>2 DEF TypeOK
<1>4. Recorded'
  BY <1>1 DEF Recorded, Answered
<1>5. InSize'
  BY <1>2 DEF InSize
<1> QED
  BY <1>1, <1>3, <1>4, <1>5
     DEF Traced, Refused, Checked, Passes, UnchangedNeverStale, RunsVerified, Ran

\* Connect starts a new pass over the stored text.
LEMMA ConnectInv ==
  ASSUME ConfigInv, Connect
  PROVE  ConfigInv'
<1> USE DEF ConfigInv
<1>1. /\ phase = "stored" /\ phase' = "verify" /\ pos' = 1 /\ p' = Start
      /\ UNCHANGED <<raw, fp, tampered, added>>
  BY DEF Connect, record
<1>2. TypeOK'
  BY <1>1, StartType DEF TypeOK, Passes
<1>3. Traced'
  BY <1>1, EmptyTrace DEF Traced
<1>4. Recorded'
  BY <1>1 DEF Recorded
<1> QED
  BY <1>1, <1>2, <1>3, <1>4
     DEF Checked, Refused, UnchangedNeverStale, RunsVerified, Ran, InSize

\* reparse_and_verify: an unchanged text has the recorded fingerprint, and only a text
\* with the recorded fingerprint goes on to the helper.
LEMMA FinishVerifyInv ==
  ASSUME ConfigInv, FinishVerify
  PROVE  ConfigInv'
<1> USE DEF ConfigInv
<1> DEFINE c == IF p.ok THEN Whole ELSE p
<1>1. /\ AtEnd("verify") /\ phase = "verify" /\ UNCHANGED <<raw, fp, tampered, added>>
  BY DEF FinishVerify, AtEnd, record, history
<1>2. c \in State
  BY FinishedType DEF Finished, Whole, TypeOK
<1>3. c.ok => Parsed(raw, c)
  BY <1>1, PassEnds DEF Passes
<1>4. fp = <<fingerprint(added[1])>> /\ (~tampered => Parsed(raw, added[1]))
  BY <1>1 DEF Recorded
<1>5. c.ok /\ ~tampered => fp = <<fingerprint(c)>>
  <2> SUFFICES ASSUME c.ok, ~tampered PROVE fp = <<fingerprint(c)>>
    OBVIOUS
  <2>1. Same(c, added[1]) /\ added[1] \in State
    <3>1. Parsed(raw, c) /\ Parsed(raw, added[1]) /\ raw \in Seq(Line)
      BY <1>3, <1>4 DEF TypeOK
    <3> HIDE DEF c
    <3> QED BY <3>1, ParsesAgree
  <2>2. fingerprint(c) = fingerprint(added[1])
    <3> HIDE DEF c
    <3> QED BY <1>2, <2>1, SamePrint
  <2> QED BY <1>4, <2>2
<1>6. \/ phase' = "error" /\ p' = c /\ UNCHANGED pos
      \/ phase' = "stale" /\ p' = c /\ UNCHANGED pos /\ c.ok /\ <<fingerprint(c)>> # fp
      \/ phase' = "launch" /\ pos' = 1 /\ p' = Start /\ c.ok /\ fp = <<fingerprint(c)>>
  BY DEF FinishVerify
<1> HIDE DEF c
<1>7. TypeOK'
  BY <1>1, <1>2, <1>6, StartType DEF TypeOK, Passes
<1>8. Traced'
  BY <1>1, <1>6, EmptyTrace DEF Traced, Passes
<1>9. Recorded'
  BY <1>1, <1>6 DEF Recorded
<1>10. Checked'
  BY <1>1, <1>3, <1>6 DEF Checked
<1>11. UnchangedNeverStale' /\ RunsVerified' /\ Ran' /\ InSize' /\ Refused'
  BY <1>1, <1>5, <1>6 DEF UnchangedNeverStale, RunsVerified, Ran, InSize, Refused
<1> QED BY <1>7, <1>8, <1>9, <1>10, <1>11

\* The helper's own pass agrees with the one that was compared.
LEMMA FinishLaunchInv ==
  ASSUME ConfigInv, FinishLaunch
  PROVE  ConfigInv'
<1> USE DEF ConfigInv
<1>1. /\ AtEnd("launch") /\ phase = "launch" /\ UNCHANGED <<raw, fp, pos, tampered, added>>
      /\ p' = (IF p.ok THEN Whole ELSE p) /\ phase' \in {"running", "error"}
      /\ phase' = "running" => p'.ok
  BY DEF FinishLaunch, AtEnd, record, history
<1>2. p' \in State
  BY <1>1, FinishedType DEF Finished, Whole, TypeOK
<1>3. TypeOK'
  BY <1>1, <1>2 DEF TypeOK
<1>4. RunsVerified' /\ Ran'
  <2> SUFFICES ASSUME phase' = "running" PROVE fp = <<fingerprint(p')>> /\ Parsed(raw, p')
    BY <1>1 DEF RunsVerified, Ran
  <2>1. PICK c : Parsed(raw, c) /\ fp = <<fingerprint(c)>>
    BY <1>1 DEF Checked
  <2>2. Parsed(raw, p')
    BY <1>1, PassEnds DEF Passes
  <2>3. Same(c, p') /\ c \in State
    BY <2>1, <2>2, ParsesAgree DEF TypeOK
  <2> QED BY <1>2, <2>1, <2>2, <2>3, SamePrint
<1>5. Recorded'
  BY <1>1 DEF Recorded
<1> QED
  BY <1>1, <1>3, <1>4, <1>5 DEF Traced, Refused, Checked, Passes, UnchangedNeverStale, InSize

\* A submission, before its first line is read, satisfies the invariant.
LEMMA InitConfig == Init => ConfigInv
<1> SUFFICES ASSUME Init PROVE ConfigInv
  OBVIOUS
<1>1. raw \in Seq(Line) /\ Len(raw) <= MAX_CONF_TEXT_BYTES + 1
  <2>1. conf \in Seq(Line) /\ Len(conf) <= MAX_CONF_TEXT_BYTES
    BY LineAssumption DEF Init
  <2>2. ASSUME override # None PROVE override[1] \in U16
    BY <2>2, LineAssumption DEF Init, U16Option
  <2>3. CASE override = None
    BY <2>1, <2>3 DEF Init, MAX_CONF_TEXT_BYTES
  <2>4. CASE override # None
    <3> DEFINE t == apply_mtu_override_to_conf_text(conf, override[1])
    <3>1. t \in Seq(Line) /\ Len(t) <= Len(conf) + 1 /\ raw = t
      BY <2>1, <2>2, <2>4, OverrideType DEF Init
    <3> HIDE DEF t
    <3>2. Len(t) \in Nat /\ Len(conf) \in Nat
      BY <2>1, <3>1
    <3> QED BY <2>1, <3>1, <3>2 DEF MAX_CONF_TEXT_BYTES
  <2> QED BY <2>3, <2>4
<1>2. TypeOK
  BY <1>1, StartType DEF Init, TypeOK, Passes
<1>3. Traced
  BY EmptyTrace DEF Init, Traced
<1>4. Refused
  BY StartType DEF Init, Refused
<1> QED
  BY <1>1, <1>2, <1>3, <1>4
     DEF Init, ConfigInv, InSize, Recorded, Checked, Ran, UnchangedNeverStale, RunsVerified

\* Every step preserves the invariant.
LEMMA StepConfig == ConfigInv /\ [Next]_vars => ConfigInv'
<1> SUFFICES ASSUME ConfigInv, [Next]_vars PROVE ConfigInv'
  OBVIOUS
<1>1. CASE UNCHANGED vars
  BY <1>1 DEF vars, record, history, ConfigInv, TypeOK, InSize, Traced, Recorded, Answered,
              Refused, Checked, Ran, UnchangedNeverStale, RunsVerified
<1> QED
  BY <1>1, ReadInv, FinishAddInv, TamperInv, ConnectInv, FinishVerifyInv, FinishLaunchInv DEF Next

\* The inductive invariant of a configuration's life.
THEOREM ConfigInduction == Spec => []ConfigInv
BY InitConfig, StepConfig, PTL DEF Spec

\* DNS rotation never makes an unchanged record stale, for any text, any number of
\* peers and host names, and any answers of the resolver.
THEOREM RotationHarmless == Spec => []UnchangedNeverStale
<1>1. ConfigInv => UnchangedNeverStale
  BY DEF ConfigInv
<1> QED BY <1>1, ConfigInduction, PTL

\* What the helper runs has the fingerprint that connect compared with the record,
\* although the helper parses and resolves again.
THEOREM LaunchVerified == Spec => []RunsVerified
<1>1. ConfigInv => RunsVerified
  BY DEF ConfigInv
<1> QED BY <1>1, ConfigInduction, PTL

\* The one-pass parser with its accumulators for the peer under way accepts exactly the
\* legal texts, but for lookups that fail, and returns what the text says, for texts with
\* any number of sections, peers and repeated keys.
THEOREM ParserSaysWhatTheTextSays == Spec => []ParsesWhatItSays
<1>1. ASSUME ConfigInv PROVE ParsesWhatItSays
  <2>1. phase = "rejected" => ~Legal(raw) \/ lookupFailed
    BY <1>1 DEF ConfigInv, Refused
  <2>2. (phase = "stored" /\ ~tampered) \/ phase = "running" => Parsed(raw, p)
    BY <1>1 DEF ConfigInv, Recorded, Ran
  <2>3. phase = "stored" => Answered(p)
    BY <1>1 DEF ConfigInv, Recorded
  <2>4. raw \in Seq(Line)
    BY <1>1 DEF ConfigInv, TypeOK
  <2>5. Parsed(raw, p) => Legal(raw) /\ Identity(p) = Meaning(raw) /\ Answered(p)
    BY <2>4, ParsedSays DEF Answered
  <2> QED BY <2>1, <2>2, <2>3, <2>5 DEF ParsesWhatItSays, Answered
<1> QED BY <1>1, ConfigInduction, PTL

\* As long as nobody changed it, the text is the submission with the override.
Submitted ==
  /\ conf \in Seq(Line) /\ override \in U16Option
  /\ ~tampered =>
       raw = IF override = None
               THEN conf
               ELSE apply_mtu_override_to_conf_text(conf, override[1])

\* Only a change of the stored text makes it differ from what was submitted.
LEMMA SubmittedHolds == Spec => []Submitted
<1>1. Init => Submitted
  <2> SUFFICES ASSUME Init PROVE Submitted
    OBVIOUS
  <2>1. conf \in Seq(Line) /\ override \in U16Option
    BY LineAssumption DEF Init
  <2> QED BY <2>1 DEF Init, Submitted
<1>2. Submitted /\ [Next]_vars => Submitted'
  <2> SUFFICES ASSUME Submitted, [Next]_vars PROVE Submitted'
    OBVIOUS
  <2>1. CASE Tamper
    BY <2>1 DEF Tamper, Submitted, input
  <2>2. CASE ~Tamper
    <3>1. UNCHANGED <<conf, override, raw, tampered>>
      BY <2>2 DEF Next, vars, input, record, history, Advance, ReadHeader, ReadBlank,
                  ReadMalformed, ReadOutside, ReadInterface, ReadPeer, FinishAdd, Connect,
                  FinishVerify, FinishLaunch
    <3> QED BY <3>1 DEF Submitted
  <2> QED BY <2>1, <2>2
<1> QED BY <1>1, <1>2, PTL DEF Spec

\* The --mtu that a submission comes with is the MTU of what is stored, whatever MTU lines
\* the text has and wherever they stand, and nothing else of the text's meaning changes:
\* whether lines are replaced or one is put in, every later line keeps its section.
THEOREM OverrideIsHonoured == Spec => []OverrideTakesEffect
<1>1. ASSUME ConfigInv, Submitted PROVE OverrideTakesEffect
  <2> SUFFICES ASSUME phase = "stored", ~tampered, override # None,
                      \A i \in DOMAIN conf : conf[i].kind # "spaced"
               PROVE  Identity(p) = [Meaning(conf) EXCEPT !.mtu = override]
    BY DEF OverrideTakesEffect
  <2> DEFINE t == conf  m == override[1]  u == raw  c == p
  <2>1. t \in Seq(Line) /\ NoSpaced(t) /\ u = apply_mtu_override_to_conf_text(t, m)
    BY <1>1 DEF Submitted, NoSpaced
  <2>2. m \in U16 /\ override = <<m>>
    <3>1. override \in Seq(Nat) /\ Len(override) = 1 /\ override[1] \in U16
      BY <1>1 DEF Submitted, U16Option, Values
    <3> QED BY <3>1
  <2>3. Parsed(u, c) /\ u \in Seq(Line)
    BY <1>1 DEF ConfigInv, Recorded, TypeOK
  <2>4. Legal(u) /\ Identity(c) = Meaning(u)
    BY <2>3, ParsedSays
  <2> HIDE DEF t, m, u, c
  <2>5. Identity(c) = [Meaning(t) EXCEPT !.mtu = <<m>>]
    BY <2>1, <2>2, <2>3, <2>4, OverrideMeans
  <2> QED BY <2>2, <2>5 DEF t, c
<1> QED BY <1>1, ConfigInduction, SubmittedHolds, PTL

\* What the helper runs, after two more passes over a text that may have changed and with
\* host names resolved anew, is the configuration that was stored.
THEOREM LaunchIsWhatWasAdded == Spec => []RunsWhatWasAdded
<1>1. ASSUME ConfigInv PROVE RunsWhatWasAdded
  <2> SUFFICES ASSUME phase = "running" PROVE Identity(p) = Identity(added[1])
    BY DEF RunsWhatWasAdded
  <2>1. fp = <<fingerprint(p)>> /\ fp = <<fingerprint(added[1])>> /\ Config(added[1])
    BY <1>1 DEF ConfigInv, RunsVerified, Recorded
  <2>2. Config(p)
    BY <1>1, ParsedConfig DEF ConfigInv, TypeOK, InSize, Ran
  <2>3. fingerprint(p) = fingerprint(added[1])
    BY <2>1
  <2> DEFINE c == added[1]
  <2> HIDE DEF c
  <2>4. Config(p) /\ Config(c) /\ fingerprint(p) = fingerprint(c)
    BY <2>1, <2>2, <2>3 DEF c
  <2>5. Identity(p) = Identity(c)
    BY <2>4, PrintIdentifies
  <2> QED BY <2>5 DEF c
<1> QED BY <1>1, ConfigInduction, PTL

\* The samples are configurations that the encoding can measure.
LEMMA SampleConfigs ==
  ASSUME NEW c \in Samples
  PROVE  Config(c) /\ Identity(c) = c
<1>1. /\ c \in State /\ c.ok /\ Identity(c) = c /\ c.peer = NoPeer
      /\ Sized(c, MAX_CONF_TEXT_BYTES)
  BY SampleAssumption
<1>2. MAX_CONF_TEXT_BYTES \in Nat /\ MaxLength \in Nat /\ MAX_CONF_TEXT_BYTES <= MaxLength
  BY DEF MAX_CONF_TEXT_BYTES, MaxLength
<1>3. Sized(c, MaxLength)
  BY <1>1, <1>2, SizedMore
<1> QED BY <1>1, <1>3 DEF Config

\* As many fingerprints as configurations.
LEMMA PrintsDiffer == NoCollision
<1> DEFINE f == [c \in Samples |-> fingerprint(c)]
<1>1. f \in Surjection(Samples, Prints)
  BY DEF Surjection, Prints
<1>2. ASSUME NEW c \in Samples, NEW d \in Samples, f[c] = f[d] PROVE c = d
  <2>1. Config(c) /\ Config(d) /\ fingerprint(c) = fingerprint(d)
    BY <1>2, SampleConfigs
  <2>2. Identity(c) = Identity(d)
    BY <2>1, PrintIdentifies
  <2> QED BY <2>2, SampleConfigs
<1>3. f \in Injection(Samples, Prints)
  <2>1. f \in [Samples -> Prints]
    BY DEF Prints
  <2> HIDE DEF f
  <2> QED BY <1>2, <2>1 DEF Injection, IsInjective
<1> HIDE DEF f
<1>4. f \in Surjection(Samples, Prints) /\ IsFiniteSet(Samples) /\ f \in Injection(Samples, Prints)
  BY <1>1, <1>3, SampleAssumption
<1> DEFINE P == Prints
<1>5. f \in Surjection(Samples, P) /\ f \in Injection(Samples, P)
  BY <1>4
<1> HIDE DEF P
<1>6. Cardinality(P) = Cardinality(Samples)
  BY <1>4, <1>5, FS_Surjection
<1> QED BY <1>6 DEF NoCollision, P

\* Each part of the encoding is delimited: for any set of configurations, what is stored
\* included, equal fingerprints mean equal configurations.
THEOREM FingerprintIdentifies == Spec => []FingerprintsDiffer
<1>1. ASSUME ConfigInv PROVE FingerprintsDiffer
  <2> SUFFICES ASSUME phase = "stored", fp[1] \in Prints PROVE Identity(added[1]) \in Samples
    BY PrintsDiffer DEF FingerprintsDiffer
  <2>1. fp = <<fingerprint(added[1])>> /\ Config(added[1])
    BY <1>1 DEF ConfigInv, Recorded
  <2> DEFINE d == added[1]
  <2>2. PICK c \in Samples : fp[1] = fingerprint(c)
    BY DEF Prints
  <2> HIDE DEF d
  <2>3. Config(c) /\ Config(d) /\ fingerprint(c) = fingerprint(d)
    BY <2>1, <2>2, SampleConfigs DEF d
  <2>4. Identity(c) = Identity(d)
    BY <2>3, PrintIdentifies
  <2> QED BY <2>4, SampleConfigs DEF d
<1> QED BY <1>1, ConfigInduction, PTL
=============================================================================
