----------------------------- MODULE MCDelivery -----------------------------
\* The traffic for TLC: every short header alone, and every sequence of four of
\* a few messages, which is one more than the pipe, the driver and the channel hold.
EXTENDS Delivery

CONSTANTS p1, p2

Strings(chars, n) == UNION {[1..k -> chars] : k \in 0..n}

Publish(peer, headers, body) ==
  [by |-> "crate", peer |-> peer,
   message |-> [name |-> <<"x">>, headers |-> headers, payload |-> [body |-> body]]]
Peer(peer, frames) == [by |-> "peer", peer |-> peer, frames |-> frames]
Failure == [by |-> "failure"]

Plain == [body |-> "raw"]
NameFrame == [text |-> <<"x">>]
Doc(shape, headers, fields, body) ==
  [doc |-> [shape |-> shape, headers |-> headers, fields |-> fields, payload |-> [body |-> body]]]

Names == Strings({"x", ":", " ", "nl"}, 2) \cup {<<"cr">>, <<"x", "cr">>, <<"x", "cr", "x">>}
Values == Strings({"x", ":", " ", "nl", "?"}, 2) \cup {<<"cr">>, <<"cr", "x">>, <<"x", "cr", "x">>, <<"cr", "nl">>}
OneHeader == {n :> v : n \in Names, v \in Values}
TwoHeaders == {(<<"x">> :> v) @@ (<<"r">> :> <<"x">>) : v \in Strings({"x", " "}, 1)}

Publishes ==
  {Publish(p1, h, "raw") : h \in OneHeader \cup TwoHeaders}
  \cup {Publish(p1, h, b) : h \in {NoHeaders, <<"r">> :> <<"x">>}, b \in {"json", "padded", "raw"}}

PeerFrames ==
  {<<Plain>>, <<NameFrame>>, <<NameFrame, Plain>>, <<[text |-> <<"?">>], Plain>>,
   <<NameFrame, NameFrame, NameFrame, Plain>>}
  \cup {<<NameFrame, [text |-> t], Plain>> : t \in Strings({"x", "r", ":", "nl", "cr", "?"}, 3)}
  \cup {<<NameFrame, Doc(s, h, f, b)>> : s \in {"absent", "unreadable", "map"},
                                 h \in {NoHeaders, <<"r">> :> <<"x">>},
                                 f \in SUBSET {"payload", "payload_base64", "other"},
                                 b \in {"json", "padded"}}

Few == {Publish(p1, <<"x">> :> <<"x">>, "json"), Peer(p2, <<NameFrame, NameFrame, NameFrame, Plain>>), Failure}

MCTraffics == {<<s>> : s \in Publishes \cup {Peer(p2, f) : f \in PeerFrames}}
              \cup [1..4 -> Few]
=============================================================================
