------------------------------ MODULE Envelope ------------------------------
(***************************************************************************)
(* The envelopes: how a message becomes the frames of a ZeroMQ message and *)
(* how received frames are read.  Pure operators, one group per envelope   *)
(* (Frames, NoOp, Framed with a JSON or a byte-string codec).              *)
(*                                                                         *)
(* Text is a sequence of characters of the few kinds the code tells apart: *)
(* an ordinary one "x", a colon, a space, a line feed "nl", a carriage     *)
(* return "cr", and "?", a byte that is not UTF-8.  <<"r">> stands for the *)
(* name `reply-to`.  A frame is a record with one field: `text` (bytes     *)
(* read as text), `body` (a payload) or `doc` (a Framed document).         *)
(***************************************************************************)
EXTENDS Integers, Sequences, FiniteSets, SequencesExt

Chars == {"x", ":", " ", "nl", "cr", "?", "r"}

Envelopes == {"frames", "noop", "json", "binary"}
Patterns  == {"PushPull", "PubSub", "DealerRouter"}

NoHeaders == [n \in {} |-> <<>>]
WireError == [ok |-> FALSE]

\* A delivery as the envelope opened it: the headers stay in `head`, unread.
Opened(name, head, payload) ==
  [ok |-> TRUE, name |-> name, head |-> head, payload |-> payload]

IsText(bytes) == \A i \in DOMAIN bytes : bytes[i] # "?"

Text == {bytes \in Seq(Chars) : IsText(bytes)}

\* A message of this crate: names are text, the values of headers are bytes.
IsMessage(message) ==
  /\ message.name \in Text
  /\ IsFiniteSet(DOMAIN message.headers) /\ DOMAIN message.headers \subseteq Text
  /\ message.headers \in [DOMAIN message.headers -> Seq(Chars)]
  /\ message.payload = [body |-> message.payload.body]

Trim(text) ==
  LET kept == {i \in DOMAIN text : text[i] \notin {" ", "nl", "cr"}}
  IN  IF kept = {} THEN <<>> ELSE SubSeq(text, Min(kept), Max(kept))

\* decode_name: a name frame that is not text refuses the message.
Named(frame, head, payload) ==
  IF IsText(frame.text) THEN Opened(frame.text, head, payload) ELSE WireError

-----------------------------------------------------------------------------
(* Frames: name, header lines and payload, one frame each *)

\* The lines of a text, each at the place it starts.  The return of a line that ends in
\* a return and a feed is left in it: both of its readers trim the line.
Lines(text) ==
  LET ends == {0, Len(text) + 1} \cup {i \in DOMAIN text : text[i] = "nl"}
  IN  {[at   |-> i,
        text |-> SubSeq(text, i + 1, Min({j \in ends : j > i}) - 1)] : i \in ends \ {Len(text) + 1}}

Colon(line) == Min({i \in DOMAIN line : line[i] = ":"})

\* A line split at its first colon, both sides trimmed.
Entry(line) ==
  [at    |-> line.at,
   name  |-> Trim(SubSeq(line.text, 1, Colon(line.text) - 1)),
   value |-> Trim(SubSeq(line.text, Colon(line.text) + 1, Len(line.text)))]

\* decode_headers: the map of a header frame, or WireError.  Blank lines are
\* skipped and a header written twice keeps its last value.
DecodeHeaders(text) ==
  LET lines   == {l \in Lines(text) : Trim(l.text) # <<>>}
      entries == {Entry(l) : l \in lines}
      Value(name) ==
        (CHOOSE e \in entries : /\ e.name = name
                                /\ \A f \in entries : f.name = name => f.at <= e.at).value
  IN  IF ~IsText(text) \/ \E l \in lines : ~Contains(l.text, ":")
      THEN WireError
      ELSE [ok |-> TRUE, map |-> [n \in {e.name : e \in entries} |-> Value(n)]]

BreaksLine(text) == Contains(text, "nl") \/ Contains(text, "cr")

\* Faulty forms: padding let through; colons refused in values as well.
UnwritablePadded(name, value) ==
  \/ BreaksLine(name) \/ BreaksLine(value)
  \/ Contains(name, ":")

UnwritableColons(name, value) ==
  \/ BreaksLine(name) \/ BreaksLine(value)
  \/ Contains(name, ":") \/ Contains(value, ":")
  \/ Trim(name) # name \/ Trim(value) # value

\* A header whose line the code takes to read back as another.
Unwritable(name, value) ==
  \/ BreaksLine(name) \/ BreaksLine(value)
  \/ Contains(name, ":")
  \/ Trim(name) # name \/ Trim(value) # value

FramesRefuses(headers) ==
  \E n \in DOMAIN headers : ~IsText(headers[n]) \/ Unwritable(n, headers[n])

\* The header frame `foreign` writes with no check, and encode_headers after it.
HeaderLines(headers) ==
  LET names == SetToSeq(DOMAIN headers)
  IN  FlattenSeq([k \in DOMAIN names |->
        (IF k = 1 THEN <<>> ELSE <<"nl">>) \o names[k] \o <<":", " ">> \o headers[names[k]]])

OpenFrames(frames) ==
  CASE Len(frames) = 1 -> Opened(<<>>, <<>>, frames[1])
    [] Len(frames) = 2 -> Named(frames[1], <<>>, frames[2])
    [] Len(frames) = 3 -> Named(frames[1], frames[2].text, frames[3])
    [] OTHER           -> WireError

-----------------------------------------------------------------------------
(* NoOp: the payload alone, behind its name where SUB filters on one *)

OpenNoOp(pattern, frames) ==
  CASE Len(frames) = 1                        -> Opened(<<>>, <<>>, frames[1])
    [] Len(frames) = 2 /\ pattern = "PubSub"  -> Named(frames[1], <<>>, frames[2])
    [] OTHER                                  -> WireError

-----------------------------------------------------------------------------
(* Framed: the name and one document of headers and payload *)

\* A faulty form: a JSON text with whitespace around it is taken for one.
IsJsonTextPadded(body) == body \in {"json", "padded"}

\* A JSON payload travels as it is when it is one JSON text with nothing around
\* it; a value read back from `payload` has lost the whitespace around it.
IsJsonText(body) == body = "json"

JsonValue(body) == IF body = "padded" THEN "json" ELSE body

\* `shape` says what the `headers` field of a document is: a map of text,
\* something else, or not there.
Document(env, headers, payload) ==
  [shape   |-> "map",
   headers |-> headers,
   fields  |-> IF env = "json" /\ ~IsJsonText(payload.body)
               THEN {"payload_base64"} ELSE {"payload"},
   payload |-> payload]

\* open_document: the payload of a frame that is a document of this codec.
\* `headers` must be there and is not read; both payload fields, neither, or "other", a
\* field the layout does not know or a payload that does not decode, make it no document.
IsDocument(env, frame) ==
  /\ "doc" \in DOMAIN frame
  /\ frame.doc.shape # "absent"
  /\ frame.doc.fields \in {{"payload"}} \cup IF env = "json" THEN {{"payload_base64"}} ELSE {}

DocumentPayload(env, doc) ==
  IF env = "json" /\ doc.fields = {"payload"}
  THEN [body |-> JsonValue(doc.payload.body)] ELSE doc.payload

\* The headers of a document, unless they are no map of text; a frame that was
\* no document has none.
NoDocument == [shape |-> "no document"]

DocumentHeaders(doc) ==
  CASE doc = NoDocument         -> [ok |-> TRUE, map |-> NoHeaders]
    [] doc.shape = "unreadable" -> WireError
    [] OTHER                    -> [ok |-> TRUE, map |-> doc.headers]

OpenFramed(env, frames) ==
  CASE Len(frames) = 1 -> Opened(<<>>, NoDocument, frames[1])
    [] Len(frames) = 2 ->
         IF IsDocument(env, frames[2])
         THEN Named(frames[1], frames[2].doc, DocumentPayload(env, frames[2].doc))
         ELSE Named(frames[1], NoDocument, frames[2])
    [] OTHER -> WireError

-----------------------------------------------------------------------------
(* What the brokers call *)

\* seal, its refusals: the publish fails before a frame is written.
Refuses(env, message) ==
  CASE env = "frames" -> FramesRefuses(message.headers)
    [] env = "noop"   -> DOMAIN message.headers # {}
    [] OTHER          -> \E n \in DOMAIN message.headers : ~IsText(message.headers[n])

\* A carriage return in a header, which the frames of its envelope could carry.
HoldsReturn(env, message) ==
  /\ env = "frames"
  /\ \E n \in DOMAIN message.headers :
       Contains(n, "cr") \/ Contains(message.headers[n], "cr")

\* seal, its frames.  A Framed codec writes a value that is not text as empty.
Layout(env, pattern, message) ==
  CASE env = "frames" -> << [text |-> message.name],
                            [text |-> HeaderLines(message.headers)], message.payload >>
    [] env = "noop"   -> (IF pattern = "PubSub" THEN << [text |-> message.name] >> ELSE <<>>)
                         \o << message.payload >>
    [] OTHER          -> << [text |-> message.name],
                            [doc |-> Document(env,
                               [n \in DOMAIN message.headers |->
                                  IF IsText(message.headers[n]) THEN message.headers[n] ELSE <<>>],
                               message.payload)] >>

Open(env, pattern, frames) ==
  CASE env = "frames" -> OpenFrames(frames)
    [] env = "noop"   -> OpenNoOp(pattern, frames)
    [] OTHER          -> OpenFramed(env, frames)

\* headers: what a handler's first look reads out of the head of a delivery.
\* Headers that do not read are logged, and the delivery has none.
Headers(env, head) ==
  LET read == CASE env = "frames" -> DecodeHeaders(head)
                [] env = "noop"   -> [ok |-> TRUE, map |-> NoHeaders]
                [] OTHER          -> DocumentHeaders(head)
  IN  IF read.ok THEN read.map ELSE NoHeaders
=============================================================================
