-------------------------- MODULE ConnectionConfig --------------------------
(***************************************************************************)
(* A stored configuration from submission to launch: the --mtu override is *)
(* written into the text, the text is parsed and fingerprinted             *)
(* (AddConnection), and each connect parses the stored text again and      *)
(* refuses it unless it still has the recorded fingerprint; the helper     *)
(* parses it a third time.  Endpoint host names are resolved in every      *)
(* pass, with whatever answer the resolver gives then.                     *)
(*                                                                         *)
(* A line is a record: its kind, its key and its value, a sequence of      *)
(* numbers (the entries of a list, the bytes of a hook, or one number).    *)
(* An Option is a sequence of at most one element.                         *)
(***************************************************************************)
EXTENDS Integers, FiniteSets, SequencesExt

CONSTANTS
  Texts,      \* configuration files that may be submitted
  Overrides,  \* values of --mtu, as Options
  Edits,      \* lines that a change of the stored text may put in
  Form,       \* octets and prefix length of each network or address
  Addresses,  \* the ones that are addresses, which have no prefix length
  Hostnames,  \* endpoints that are host names
  Resolved,   \* addresses that the resolver may answer
  Samples     \* configurations whose fingerprints are compared

None == <<>>
Bad == 65536   \* an entry that does not parse
MIN_MTU == 576
MAX_CONF_TEXT_BYTES == 65536

HookKeys == {"preup", "postup", "predown", "postdown"}
ListKeys == {"address", "dns"}
IgnoredKeys == {"listenport", "fwmark", "table", "saveconfig"}
KNOWN_INTERFACE_KEYS == {"privatekey", "mtu"} \cup ListKeys \cup HookKeys \cup IgnoredKeys
KNOWN_PEER_KEYS ==
  {"publickey", "presharedkey", "allowedips", "endpoint", "persistentkeepalive"}

\* "header" is spelled [Name]; "spaced" is a header with inner blanks or a comment.
Headers == {"header", "spaced"}
Kinds == Headers \cup {"blank", "malformed", "empty", "set"}

\* "none" for lines without a key, "other" for a name the parser does not know.
Keys == KNOWN_INTERFACE_KEYS \cup KNOWN_PEER_KEYS \cup {"interface", "peer", "none", "other"}
Values == Seq(Nat)
Networks == DOMAIN Form

U16 == {n \in Nat : n < Bad}
U16Option == {None} \cup {v \in Values : Len(v) = 1 /\ v[1] \in U16}

\* What stands behind the equals sign: one number or none that fits (Bad), the text of
\* an endpoint, a key, or the entries of a list.
WellSpelled(k, v) ==
  /\ k \in {"mtu", "persistentkeepalive"} => Len(v) = 1 /\ v[1] <= Bad
  /\ k = "endpoint" => Len(v) = 1
  /\ k \in {"privatekey", "publickey", "presharedkey"} => v # <<>>
  /\ k \in {"address", "allowedips"} => \A i \in DOMAIN v : v[i] \in Networks \cup {Bad}
  /\ k = "dns" => \A i \in DOMAIN v : v[i] \in Addresses \cup {Bad}

\* A line of a text within the limit has fewer entries than the limit has bytes.
Line ==
  {l \in [kind : Kinds, key : Keys, value : Values] :
     Len(l.value) < MAX_CONF_TEXT_BYTES /\ (l.kind = "set" => WellSpelled(l.key, l.value))}

\* Texts are checked against MAX_CONF_TEXT_BYTES before they are parsed.
ASSUME LineAssumption ==
  /\ Texts \subseteq Seq(Line) /\ \A t \in Texts : Len(t) <= MAX_CONF_TEXT_BYTES
  /\ Edits \subseteq Line
  /\ Overrides \subseteq U16Option
  /\ Resolved \subseteq Nat

\* A network is given by its octets and its prefix length, an address by its octets.
ASSUME FormAssumption ==
  /\ Networks \subseteq Nat \ {Bad} /\ Addresses \subseteq Networks
  /\ \A n \in Networks : Form[n] \in [octets : Seq(Nat), prefix : Nat]
  /\ \A n \in Networks : Len(Form[n].octets) \in {1, 2}
  /\ \A m, n \in Networks : Form[m] = Form[n] => m = n
  /\ \A m, n \in Addresses : Form[m].octets = Form[n].octets => m = n

VARIABLES
  conf, override,  \* the submission
  raw,             \* the text that is parsed and stored
  pos, p,          \* next line, and the state of the parser
  phase,           \* where the configuration stands
  fp,              \* fingerprint of the stored record, as an Option
  lookupFailed,    \* history: the resolver failed in this pass
  tampered,        \* history: the stored text was changed
  added            \* history: the configuration that was stored, as an Option

input == <<conf, override>>
record == <<raw, fp>>
history == <<lookupFailed, tampered, added>>
vars == <<input, record, pos, p, phase, history>>

Passes == {"add", "verify", "launch"}

-----------------------------------------------------------------------------
(* The parser. *)

NoPeer ==
  [public_key |-> None, preshared_key |-> None, allowed_ips |-> <<>>,
   endpoint |-> None, endpoint_literal |-> None, persistent_keepalive |-> None]

Start ==
  [ok |-> TRUE, section |-> "none", private_key |-> None, mtu |-> None,
   address |-> <<>>, dns |-> <<>>, hooks |-> [k \in HookKeys |-> <<>>],
   peers |-> <<>>, peer |-> NoPeer]

Fail(s) == [s EXCEPT !.ok = FALSE]

\* Mutant: the endpoint stays in the accumulator for the next peer.
flush_peer_keeps_endpoint(s) ==
  IF s.peer.public_key = None \/ s.peer.allowed_ips = <<>>
    THEN Fail(s)
    ELSE [s EXCEPT !.peers = Append(@, s.peer),
                   !.peer = [NoPeer EXCEPT !.endpoint = s.peer.endpoint,
                                           !.endpoint_literal = s.peer.endpoint_literal]]

\* A peer section is complete: its accumulators become a peer and are emptied.
flush_peer(s) ==
  IF s.peer.public_key = None \/ s.peer.allowed_ips = <<>>
    THEN Fail(s)
    ELSE [s EXCEPT !.peers = Append(@, s.peer), !.peer = NoPeer]

Left(s) == IF s.section = "peer" THEN flush_peer(s) ELSE s

Header(s, name) ==
  IF name \in {"interface", "peer"}
    THEN [Left(s) EXCEPT !.section = name]
    ELSE Fail(s)

parse_mtu(v) == IF v[1] >= MIN_MTU /\ v[1] \in U16 THEN v ELSE None

ParsesAll(v) == \A i \in DOMAIN v : v[i] # Bad

InterfaceLine(s, k, v) ==
  CASE k \notin KNOWN_INTERFACE_KEYS -> Fail(s)
    [] k = "privatekey" -> IF ParsesAll(v) THEN [s EXCEPT !.private_key = v] ELSE Fail(s)
    [] k = "mtu" -> IF parse_mtu(v) # None THEN [s EXCEPT !.mtu = v] ELSE Fail(s)
    [] k = "address" -> IF ParsesAll(v) THEN [s EXCEPT !.address = @ \o v] ELSE Fail(s)
    [] k = "dns" -> IF ParsesAll(v) THEN [s EXCEPT !.dns = @ \o v] ELSE Fail(s)
    [] k \in HookKeys -> [s EXCEPT !.hooks[k] = Append(@, v)]
    [] k \in IgnoredKeys -> s

\* answer: what the resolver says, as an Option; used for host names only.
parse_endpoint(v, answer) ==
  IF v[1] = Bad THEN None
  ELSE IF v[1] \in Hostnames THEN answer
  ELSE v

PeerLine(s, k, v, answer) ==
  IF k \notin KNOWN_PEER_KEYS \/ (k # "endpoint" /\ ~ParsesAll(v)) THEN Fail(s) ELSE
  CASE k = "publickey" -> [s EXCEPT !.peer.public_key = v]
    [] k = "presharedkey" -> [s EXCEPT !.peer.preshared_key = v]
    [] k = "allowedips" -> [s EXCEPT !.peer.allowed_ips = @ \o v]
    [] k = "persistentkeepalive" -> [s EXCEPT !.peer.persistent_keepalive = v]
    [] k = "endpoint" ->
         IF parse_endpoint(v, answer) = None
           THEN Fail(s)
           ELSE [s EXCEPT !.peer.endpoint = parse_endpoint(v, answer),
                          !.peer.endpoint_literal = v]

EndOfInput(s) ==
  IF s.private_key = None \/ s.address = <<>> \/ s.peers = <<>> THEN Fail(s) ELSE s

-----------------------------------------------------------------------------
(* The fingerprint: a byte encoding, hashed.  The hash is taken to be      *)
(* injective, so the encoding stands for it.                               *)

push_u32(n) ==
  <<n % 256, (n \div 256) % 256, (n \div 65536) % 256, (n \div 16777216) % 256>>

push_option_u16(o) ==
  IF o = None THEN <<0>> ELSE <<1, o[1] % 256, (o[1] \div 256) % 256>>

push_bytes(b) == push_u32(Len(b)) \o b

push_option_bytes(o) == IF o = None THEN <<0>> ELSE <<1>> \o push_bytes(o)

\* Four octets are family 4, sixteen are family 6; scaled down to one and two.
push_ip(n) == <<IF Len(Form[n].octets) = 1 THEN 4 ELSE 6>> \o Form[n].octets

push_ips(ns) ==
  push_u32(Len(ns)) \o FlattenSeq([i \in DOMAIN ns |-> push_ip(ns[i])])

push_ipnets(ns) ==
  push_u32(Len(ns))
    \o FlattenSeq([i \in DOMAIN ns |-> push_ip(ns[i]) \o <<Form[ns[i]].prefix>>])

\* Mutant: the strings of a list run into one another.
push_strings_joined(ss) == push_u32(Len(ss)) \o FlattenSeq(ss)

push_strings(ss) ==
  push_u32(Len(ss)) \o FlattenSeq([i \in DOMAIN ss |-> push_bytes(ss[i])])

\* Mutant: the resolved address is part of the identity too.
push_peer_resolved(q) ==
  push_bytes(q.public_key) \o push_option_bytes(q.preshared_key)
    \o push_ipnets(q.allowed_ips) \o push_option_bytes(q.endpoint_literal)
    \o push_option_bytes(q.endpoint) \o push_option_u16(q.persistent_keepalive)

push_peer(q) ==
  push_bytes(q.public_key) \o push_option_bytes(q.preshared_key)
    \o push_ipnets(q.allowed_ips) \o push_option_bytes(q.endpoint_literal)
    \o push_option_u16(q.persistent_keepalive)

fingerprint(c) ==
  push_bytes(c.private_key) \o push_ipnets(c.address) \o push_ips(c.dns)
    \o push_option_u16(c.mtu)
    \o push_strings(c.hooks["preup"]) \o push_strings(c.hooks["postup"])
    \o push_strings(c.hooks["predown"]) \o push_strings(c.hooks["postdown"])
    \o push_u32(Len(c.peers)) \o FlattenSeq([i \in DOMAIN c.peers |-> push_peer(c.peers[i])])

-----------------------------------------------------------------------------
(* The --mtu override is written into the text before it is parsed.        *)

\* The header above line i, as an Option of its position.
HeaderOf(t, i) ==
  LET above == {j \in 1 .. i : t[j].kind \in Headers}
  IN  IF above = {} THEN None ELSE <<CHOOSE j \in above : \A k \in above : k <= j>>

PlainInterface(l) == l.kind = "header" /\ l.key = "interface"

MtuLine(m) == [kind |-> "set", key |-> "mtu", value |-> <<m>>]

MtuLines(t) ==
  {i \in DOMAIN t : /\ t[i].kind \in {"set", "empty"} /\ t[i].key = "mtu"
                    /\ HeaderOf(t, i) # None /\ PlainInterface(t[HeaderOf(t, i)[1]])}

\* Mutant: only the first MTU line is rewritten.
apply_mtu_override_once(t, m) ==
  LET at == MtuLines(t)
      first == CHOOSE i \in at : \A j \in at : i <= j
      plain == {i \in DOMAIN t : PlainInterface(t[i])}
      top == CHOOSE i \in plain : \A j \in plain : i <= j
  IN  IF at # {} THEN ReplaceAt(t, first, MtuLine(m))
      ELSE IF plain # {} THEN InsertAt(t, top + 1, MtuLine(m))
      ELSE t

\* Every MTU line of a section headed [Interface] is replaced; without one, a line
\* is put below the first such header.  A header spelled otherwise is not seen.
apply_mtu_override_to_conf_text(t, m) ==
  LET at == MtuLines(t)
      plain == {i \in DOMAIN t : PlainInterface(t[i])}
      top == CHOOSE i \in plain : \A j \in plain : i <= j
  IN  IF at # {} THEN [i \in DOMAIN t |-> IF i \in at THEN MtuLine(m) ELSE t[i]]
      ELSE IF plain # {} THEN InsertAt(t, top + 1, MtuLine(m))
      ELSE t

-----------------------------------------------------------------------------
Init ==
  /\ conf \in Texts /\ override \in Overrides
  /\ raw = IF override = None
             THEN conf
             ELSE apply_mtu_override_to_conf_text(conf, override[1])
  /\ pos = 1 /\ p = Start /\ phase = "add"
  /\ fp = None
  /\ lookupFailed = FALSE /\ tampered = FALSE /\ added = None

AtLine(kinds) ==
  /\ phase \in Passes
  /\ p.ok
  /\ pos <= Len(raw)
  /\ raw[pos].kind \in kinds

Advance == pos' = pos + 1 /\ UNCHANGED <<input, record, phase, tampered, added>>

ReadHeader ==
  /\ AtLine(Headers)
  /\ p' = Header(p, raw[pos].key)
  /\ Advance /\ UNCHANGED lookupFailed

\* Blank lines and comments; `Key =` without a value is skipped in any section.
ReadBlank ==
  /\ AtLine({"blank", "empty"})
  /\ p' = p
  /\ Advance /\ UNCHANGED lookupFailed

ReadMalformed ==
  /\ AtLine({"malformed"})
  /\ p' = Fail(p)
  /\ Advance /\ UNCHANGED lookupFailed

ReadOutside ==
  /\ AtLine({"set"}) /\ p.section = "none"
  /\ p' = Fail(p)
  /\ Advance /\ UNCHANGED lookupFailed

ReadInterface ==
  /\ AtLine({"set"}) /\ p.section = "interface"
  /\ p' = InterfaceLine(p, raw[pos].key, raw[pos].value)
  /\ Advance /\ UNCHANGED lookupFailed

\* resolve_host_with_timeout: an address, or no answer in time.
ReadPeer ==
  /\ AtLine({"set"}) /\ p.section = "peer"
  /\ LET k == raw[pos].key
         v == raw[pos].value
         asks == k = "endpoint" /\ v[1] \in Hostnames
     IN \E answer \in IF asks THEN {<<a>> : a \in Resolved} \cup {None} ELSE {None} :
          /\ p' = PeerLine(p, k, v, answer)
          /\ lookupFailed' = (asks /\ answer = None)
  /\ Advance

Whole == EndOfInput(Left(p))

AtEnd(ph) == phase = ph /\ (~p.ok \/ pos > Len(raw))

\* handle_add_connection: a text that parses is stored with its fingerprint.
FinishAdd ==
  /\ AtEnd("add")
  /\ p' = IF p.ok THEN Whole ELSE p
  /\ IF p'.ok
       THEN phase' = "stored" /\ fp' = <<fingerprint(p')>> /\ added' = <<p'>>
       ELSE phase' = "rejected" /\ UNCHANGED <<fp, added>>
  /\ UNCHANGED <<input, raw, pos, lookupFailed, tampered>>

\* The record's text changes on disk (one line), or a new parser reads it differently.
Tamper ==
  /\ phase = "stored" /\ ~tampered
  /\ \E i \in DOMAIN raw, l \in Edits : raw[i] # l /\ raw' = [raw EXCEPT ![i] = l]
  /\ tampered' = TRUE
  /\ UNCHANGED <<input, fp, pos, p, phase, lookupFailed, added>>

\* connection_ops::connect loads the record and parses its text.
Connect ==
  /\ phase = "stored"
  /\ phase' = "verify" /\ pos' = 1 /\ p' = Start /\ lookupFailed' = FALSE
  /\ UNCHANGED <<input, record, tampered, added>>

\* Mutant: the recorded fingerprint is not compared.
FinishVerifyUnchecked ==
  /\ AtEnd("verify")
  /\ LET c == IF p.ok THEN Whole ELSE p
     IN  IF c.ok /\ Len(c.peers) = 1
           THEN phase' = "launch" /\ pos' = 1 /\ p' = Start
           ELSE phase' = "error" /\ p' = c /\ UNCHANGED pos
  /\ UNCHANGED <<input, record, history>>

\* reparse_and_verify; then a number of peers other than one is refused.
FinishVerify ==
  /\ AtEnd("verify")
  /\ LET c == IF p.ok THEN Whole ELSE p
         verdict == IF ~c.ok THEN "error"
                    ELSE IF <<fingerprint(c)>> # fp THEN "stale"
                    ELSE IF Len(c.peers) # 1 THEN "error"
                    ELSE "launch"
     IN  /\ phase' = verdict
         /\ IF verdict = "launch"
              THEN pos' = 1 /\ p' = Start
              ELSE p' = c /\ UNCHANGED pos
  /\ UNCHANGED <<input, record, history>>

\* parse_wg_quick_config in the helper: one peer, and it has an endpoint.
FinishLaunch ==
  /\ AtEnd("launch")
  /\ p' = IF p.ok THEN Whole ELSE p
  /\ phase' = IF p'.ok /\ Len(p'.peers) = 1 /\ p'.peers[1].endpoint # None
                THEN "running" ELSE "error"
  /\ UNCHANGED <<input, record, pos, history>>

Next ==
  \/ ReadHeader \/ ReadBlank \/ ReadMalformed \/ ReadOutside \/ ReadInterface \/ ReadPeer
  \/ FinishAdd \/ Tamper \/ Connect \/ FinishVerify \/ FinishLaunch

Spec == Init /\ [][Next]_vars

-----------------------------------------------------------------------------
(* What a text means, stated line by line without a parser state.          *)

Section(t, i) == IF HeaderOf(t, i) = None THEN "none" ELSE t[HeaderOf(t, i)[1]].key

\* The numbers in the finite set A, smallest first.
InOrder(A) ==
  [n \in 1 .. Cardinality(A) |-> CHOOSE i \in A : Cardinality({j \in A : j < i}) = n - 1]

\* The values given to key k by the lines in the set S, in file order.
Given(t, S, k) ==
  LET at == InOrder({i \in S : t[i].kind = "set" /\ t[i].key = k})
  IN  [n \in DOMAIN at |-> t[at[n]].value]

LastOf(vs) == IF vs = <<>> THEN None ELSE vs[Len(vs)]

InterfaceLines(t) == {i \in DOMAIN t : Section(t, i) = "interface"}

PeerHeaders(t) == InOrder({i \in DOMAIN t : t[i].kind \in Headers /\ t[i].key = "peer"})

LinesUnder(t, h) == {i \in DOMAIN t : HeaderOf(t, i) = <<h>>}

MeaningOfPeer(t, S) ==
  [public_key |-> LastOf(Given(t, S, "publickey")),
   preshared_key |-> LastOf(Given(t, S, "presharedkey")),
   allowed_ips |-> FlattenSeq(Given(t, S, "allowedips")),
   endpoint |-> None,
   endpoint_literal |-> LastOf(Given(t, S, "endpoint")),
   persistent_keepalive |-> LastOf(Given(t, S, "persistentkeepalive"))]

Meaning(t) ==
  LET S == InterfaceLines(t)
      hs == PeerHeaders(t)
  IN  [ok |-> TRUE, section |-> "none",
       private_key |-> LastOf(Given(t, S, "privatekey")),
       mtu |-> LastOf(Given(t, S, "mtu")),
       address |-> FlattenSeq(Given(t, S, "address")),
       dns |-> FlattenSeq(Given(t, S, "dns")),
       hooks |-> [k \in HookKeys |-> Given(t, S, k)],
       peers |-> [n \in DOMAIN hs |-> MeaningOfPeer(t, LinesUnder(t, hs[n]))],
       peer |-> NoPeer]

LegalLine(t, i) ==
  LET k == t[i].key
      v == t[i].value
  IN  CASE t[i].kind \in Headers -> k \in {"interface", "peer"}
        [] t[i].kind = "malformed" -> FALSE
        [] t[i].kind \in {"blank", "empty"} -> TRUE
        [] t[i].kind = "set" ->
             \/ /\ Section(t, i) = "interface"
                /\ \/ k \in HookKeys \cup IgnoredKeys
                   \/ k \in ListKeys \cup {"privatekey"} /\ ParsesAll(v)
                   \/ k = "mtu" /\ parse_mtu(v) # None
             \/ Section(t, i) = "peer" /\ k \in KNOWN_PEER_KEYS /\ ParsesAll(v)

Legal(t) ==
  LET m == Meaning(t)
  IN  /\ \A i \in DOMAIN t : LegalLine(t, i)
      /\ m.private_key # None /\ m.address # <<>> /\ m.peers # <<>>
      /\ \A n \in DOMAIN m.peers : m.peers[n].public_key # None /\ m.peers[n].allowed_ips # <<>>

\* The configuration apart from the addresses that the resolver answered.
Identity(s) ==
  [s EXCEPT !.section = "none",
            !.peers = [n \in DOMAIN s.peers |-> [s.peers[n] EXCEPT !.endpoint = None]]]

-----------------------------------------------------------------------------
(* Properties. *)

Peer ==
  [public_key : Values, preshared_key : Values, allowed_ips : Seq(Networks), endpoint : Values,
   endpoint_literal : Values, persistent_keepalive : U16Option]

State ==
  [ok : BOOLEAN, section : {"none", "interface", "peer"}, private_key : Values,
   mtu : U16Option, address : Seq(Networks), dns : Seq(Addresses),
   hooks : [HookKeys -> Seq(Values)], peers : Seq(Peer), peer : Peer]

\* Every list and string is at most n long.
SizedPeer(q, n) ==
  /\ Len(q.public_key) <= n /\ Len(q.preshared_key) <= n
  /\ Len(q.allowed_ips) <= n /\ Len(q.endpoint_literal) <= n

Sized(c, n) ==
  /\ Len(c.private_key) <= n /\ Len(c.address) <= n /\ Len(c.dns) <= n /\ Len(c.peers) <= n
  /\ \A k \in HookKeys : /\ Len(c.hooks[k]) <= n
                         /\ \A i \in DOMAIN c.hooks[k] : Len(c.hooks[k][i]) <= n
  /\ \A i \in DOMAIN c.peers : SizedPeer(c.peers[i], n)
  /\ SizedPeer(c.peer, n)

\* The samples are configurations as the parser returns them, without resolved addresses.
ASSUME SampleAssumption ==
  /\ IsFiniteSet(Samples)
  /\ \A c \in Samples : /\ c \in State /\ c.ok /\ Identity(c) = c /\ c.peer = NoPeer
                       /\ Sized(c, MAX_CONF_TEXT_BYTES)

\* The text is made of lines and the parser's state is well formed.
TypeOK ==
  /\ raw \in Seq(Line)
  /\ phase \in Passes \cup {"stored", "rejected", "error", "stale", "running"}
  /\ pos \in 1 .. Len(raw) + 1
  /\ p \in State

\* The one-pass parser with its per-peer accumulators accepts exactly the legal texts
\* (but for a failed lookup), and what it returns is what the text says: every peer
\* has its own fields only, lists add up over repeated lines and sections, and the last
\* scalar wins.
ParsesWhatItSays ==
  /\ phase = "rejected" => ~Legal(raw) \/ lookupFailed
  /\ (phase = "stored" /\ ~tampered) \/ phase = "running" =>
       Legal(raw) /\ Identity(p) = Meaning(raw)
  /\ phase \in {"stored", "running"} =>
       \A n \in DOMAIN p.peers :
         (p.peers[n].endpoint = None) <=> (p.peers[n].endpoint_literal = None)

\* DNS rotation does not change a connection's identity: a stored text that nobody
\* changed is never refused as stale, whatever the resolver answered then and now.
UnchangedNeverStale == phase = "stale" => tampered

\* What the helper runs has the identity that was stored (and authenticated): a record
\* whose text was changed in meaning never gets past reparse_and_verify.
RunsWhatWasAdded == phase = "running" => Identity(p) = Identity(added[1])

\* --mtu takes effect and changes nothing else, when the [Interface] headers are
\* spelled without inner blanks or comments (a header that is not is not recognised by
\* apply_mtu_override_to_conf_text, and the override is dropped).
OverrideTakesEffect ==
  phase = "stored" /\ ~tampered /\ override # None
    /\ (\A i \in DOMAIN conf : conf[i].kind # "spaced") =>
      Identity(p) = [Meaning(conf) EXCEPT !.mtu = override]

Prints == {fingerprint(c) : c \in Samples}

NoCollision == Cardinality(Prints) = Cardinality(Samples)

\* Two configurations with one fingerprint are the same configuration, the stored one
\* included: each part of the encoding is delimited, so that no two field sequences run
\* into one another and AddConnection never takes one configuration for another.
FingerprintsDiffer ==
  phase = "stored" =>
    /\ NoCollision
    /\ fp[1] \in Prints => Identity(added[1]) \in Samples
=============================================================================
