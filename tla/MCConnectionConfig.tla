------------------------- MODULE MCConnectionConfig -------------------------
(***************************************************************************)
(* Finite instances of ConnectionConfig for TLC.                           *)
(***************************************************************************)
EXTENDS ConnectionConfig

Head1(k, name) == [kind |-> k, key |-> name, value |-> <<>>]
Set1(k, v) == [kind |-> "set", key |-> k, value |-> v]
Blank == Head1("blank", "none")

\* Networks: 1, 2 and 4 of the small family (4 differs from 1 in its prefix length only),
\* 3 of the large one.  The first three are addresses too.
MCForm == <<[octets |-> <<1>>, prefix |-> 32], [octets |-> <<6>>, prefix |-> 1],
            [octets |-> <<1, 4>>, prefix |-> 1], [octets |-> <<1>>, prefix |-> 24]>>

OnePeer ==
  <<Head1("header", "interface"), Set1("privatekey", <<1>>), Set1("mtu", <<1280>>),
    Set1("address", <<1>>),
    Head1("header", "peer"), Set1("publickey", <<1>>), Set1("allowedips", <<2, 3>>),
    Set1("endpoint", <<9>>)>>

TwoPeers ==
  <<Head1("header", "interface"), Set1("privatekey", <<1>>), Set1("address", <<1>>),
    Head1("header", "peer"), Set1("publickey", <<1>>), Set1("presharedkey", <<1>>),
    Set1("allowedips", <<2>>), Set1("endpoint", <<9>>), Set1("persistentkeepalive", <<25>>),
    Head1("header", "peer"), Set1("publickey", <<2>>), Set1("allowedips", <<3>>)>>

\* The interface's directives come in two sections, around the peer's.
SplitInterface ==
  <<Head1("header", "interface"), Set1("privatekey", <<1>>), Set1("mtu", <<1280>>),
    Head1("header", "peer"), Set1("publickey", <<1>>), Set1("allowedips", <<2>>),
    Set1("endpoint", <<9>>),
    Head1("header", "interface"), Set1("address", <<1>>), Set1("mtu", <<1400>>)>>

Lines ==
  {Head1("header", "interface"), Head1("spaced", "interface"), Head1("spaced", "peer"),
   Head1("header", "other"), Blank, Head1("malformed", "none"), Head1("empty", "mtu"),
   Set1("mtu", <<MIN_MTU - 1>>), Set1("mtu", <<MIN_MTU>>), Set1("address", <<>>),
   Set1("address", <<2, Bad>>), Set1("preup", <<1>>), Set1("postdown", <<1, 1>>),
   Set1("table", <<1>>), Set1("dns", <<3>>), Set1("privatekey", <<Bad>>),
   Set1("publickey", <<2>>), Set1("allowedips", <<>>), Set1("allowedips", <<1>>),
   Set1("endpoint", <<2>>), Set1("endpoint", <<Bad>>), Set1("persistentkeepalive", <<0>>)}

\* One line of t replaced, put in or left out.
Variants(t) ==
  {t} \cup {ReplaceAt(t, i, l) : i \in DOMAIN t, l \in Lines}
      \cup {InsertAt(t, i, l) : i \in 1 .. Len(t) + 1, l \in Lines}
      \cup {RemoveAt(t, i) : i \in DOMAIN t}

MCTexts == UNION {Variants(t) : t \in {OnePeer, TwoPeers, SplitInterface}}

MCOverrides == {None, <<1420>>}

MCEdits ==
  {Set1("endpoint", <<2>>), Set1("allowedips", <<1>>), Set1("preup", <<1>>), Blank,
   Head1("spaced", "interface"), Set1("presharedkey", <<1>>)}

Strings == BoundedSeq({<<1>>, <<1, 1>>, <<0, 0>>}, 2)

\* Hooks and mtu vary together; then the lists; then one or two peers.
HookSamples ==
  {[Start EXCEPT !.private_key = <<1>>, !.mtu = m, !.hooks["preup"] = a,
                 !.hooks["postup"] = b, !.hooks["predown"] = c] :
     m \in {None, <<1280>>, <<257>>}, a, b, c \in Strings}

ListSamples ==
  {[Start EXCEPT !.private_key = k, !.address = a, !.dns = d] :
     k \in {<<1>>, <<2>>}, a \in BoundedSeq(1 .. 4, 2), d \in BoundedSeq(1 .. 3, 2)}

SamplePeers ==
  {[NoPeer EXCEPT !.public_key = <<1>>, !.preshared_key = k, !.allowed_ips = a,
                  !.endpoint_literal = e, !.persistent_keepalive = v] :
     k \in {None, <<1>>}, a \in BoundedSeq(1 .. 3, 2), e \in {None, <<1>>, <<1, 1>>},
     v \in {None, <<0>>, <<256>>}}

PeerSamples == {[Start EXCEPT !.private_key = <<1>>, !.peers = q] : q \in BoundedSeq(SamplePeers, 1)}

TwoPeerSamples ==
  {[Start EXCEPT !.private_key = <<1>>, !.peers = <<q, r>>] :
     q, r \in {s \in SamplePeers : Len(s.allowed_ips) = 1}}

\* The filter makes TLC list the set once.
MCSamples == {c \in HookSamples \cup ListSamples \cup PeerSamples \cup TwoPeerSamples : c.ok}
=============================================================================
