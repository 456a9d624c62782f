------------------------------ MODULE Journey ------------------------------
(***************************************************************************)
(* A packet on its way over several links: each link carries it as a KISS  *)
(* frame (KissFrame), between two links a digipeater marks the route or a  *)
(* gateway wraps the packet as third-party traffic, and at the end of each *)
(* link the helpers of src/frame.rs and the parser (Header) look at the    *)
(* copy that has arrived.  A packet may be a message, which is encoded at  *)
(* the start and parsed on arrival (MessageText).  Digipeaters and         *)
(* gateways are not part of the library: they are modelled by what they do *)
(* on the air.                                                             *)
(***************************************************************************)
EXTENDS Header

Text == INSTANCE MessageText

CONSTANTS
  Raw,        \* the bytes of a body that is not a message
  Space,      \* the one of them that is white space
  Messages,   \* the messages that are sent
  Envelope,   \* one of Packets, without a body: a message is sent in it
  Gateway,    \* source and destination of the packets of a gateway
  MaxLinks    \* bound: links that a packet goes over

\* Third-party headers; one is a cell of a body, and none is a byte.
ThirdParty ==
  [tnc2 : [source : Call, destination : Call,
           path : Seq([call : Call, repeated : BOOLEAN]), body : {<<>>}]]

ASSUME JourneyAssumption ==
  /\ \A byte \in Raw : byte \notin ThirdParty
  /\ Space \in Raw \ {FEND, FESC} /\ Raw \subseteq Octet /\ MaxLinks \in Nat
  /\ Envelope \in Packets /\ Envelope.body = <<>> /\ Gateway \in Call
  /\ Messages \subseteq Text!Message

VARIABLES
  origin,    \* the packet as it was sent, {} while there is none
  message,   \* the message in it, a set of one message or none
  repeats,   \* digipeaters that have repeated it since it was last wrapped
  links      \* links that it has gone over

journey == <<origin, message, repeats, links>>
journeyVars == <<allVars, journey>>

-----------------------------------------------------------------------------
(* aprs_duplicate_parts. *)

IsHeader(cell) == cell \notin Raw /\ "tnc2" \in DOMAIN cell
IsMessage(cell) == cell \notin Raw /\ "content" \in DOMAIN cell

Depth(p) == CHOOSE n \in 0 .. Len(p.body) :
              /\ \A i \in 1 .. n : IsHeader(p.body[i])
              /\ n < Len(p.body) => ~ IsHeader(p.body[n + 1])

Innermost(p) ==
  LET header == IF Depth(p) = 0 THEN p ELSE p.body[Depth(p)].tnc2
  IN  [source |-> header.source, destination |-> header.destination, path |-> header.path,
       body |-> SubSeq(p.body, Depth(p) + 1, Len(p.body))]

\* duplicate_source and duplicate_destination: one or two characters of SSID.
IsDuplicateCall(call) ==
  Capital(call).base \in Bases /\ (call.ssid = NoSsid \/ Digits(call) <= 2)

\* The body without white space at its end.
Payload(body) ==
  IF body # <<>> /\ IsMessage(body[1])
  THEN << [body[1] EXCEPT !.content = Text!Trimmed(@)] >>
  ELSE LET Kept == {i \in 1 .. Len(body) : body[i] # Space}
       IN  IF Kept = {} THEN <<>>
           ELSE SubSeq(body, 1, CHOOSE i \in Kept : \A j \in Kept : j <= i)

\* A mutant of Source: no SSID stays no SSID.
SourceAsWritten(call) == call

Source(call) ==
  IF call.ssid = NoSsid THEN [Capital(call) EXCEPT !.ssid = 0, !.zeros = 0] ELSE Capital(call)

DuplicateParts(p) ==
  LET inner == Innermost(p)
  IN  IF IsDuplicateCall(inner.source) /\ IsDuplicateCall(inner.destination)
      THEN {<<Source(inner.source), Capital(inner.destination).base, Payload(inner.body)>>}
      ELSE {}

-----------------------------------------------------------------------------
(* count_digihops. *)

\* n_n_alias: WIDEn-N and TRACEn-N with n from 1 to 7 and N up to 7.
Wide == [WIDE1 |-> 1, WIDE2 |-> 2, WIDE3 |-> 3, WIDE4 |-> 4, WIDE5 |-> 5, WIDE6 |-> 6, WIDE7 |-> 7]
Trace == {"TRACE1", "TRACE2", "TRACE3", "TRACE4", "TRACE5", "TRACE6", "TRACE7"}

IsAlias(call, names) == call.base \in names /\ call.ssid \in 0 .. 7

\* A mutant of HopsOf: the hops that an alias has left are counted.
HopsOfLeft(hop) ==
  IF IsAlias(hop.call, DOMAIN Wide) THEN hop.call.ssid
  ELSE IF IsAlias(hop.call, Trace) \/ ~ hop.repeated THEN 0 ELSE 1

HopsOf(hop) ==
  IF IsAlias(hop.call, DOMAIN Wide)
  THEN IF Wide[hop.call.base] >= hop.call.ssid THEN Wide[hop.call.base] - hop.call.ssid ELSE 0
  ELSE IF IsAlias(hop.call, Trace) \/ ~ hop.repeated THEN 0 ELSE 1

\* f[1] + ... + f[n].
Total(f, n) ==
  LET total[k \in 0 .. n] == IF k = 0 THEN 0 ELSE total[k - 1] + f[k]
  IN  total[n]

\* The header is put into capitals first.
CountDigihops(p) ==
  LET IsCall(call) == CheckAx25Call(call) # {}
  IN  IF /\ IsCall(p.source) /\ IsCall(p.destination)
         /\ \A i \in 1 .. Len(p.path) : IsCall(p.path[i].call)
      THEN {Total([i \in 1 .. Len(p.path) |-> HopsOf([p.path[i] EXCEPT !.call = Capital(@)])],
                  Len(p.path))}
      ELSE {}

-----------------------------------------------------------------------------
JInit ==
  /\ KInit /\ message = {} /\ repeats = 0 /\ links = 0
  /\ origin = {packet}

\* A message is composed and sent, or refused.
Compose ==
  /\ step = "tnc2" /\ packet = Envelope
  /\ \E m \in Messages :
       IF Text!IsAccepted(m)
       THEN /\ packet' = [Envelope EXCEPT !.body = <<Text!Encoded(m)>>]
            /\ message' = {m} /\ origin' = {packet'}
            /\ UNCHANGED <<vars, step, result, repeats, links>>
       ELSE /\ step' = "refused"
            /\ UNCHANGED <<vars, packet, result, journey>>

\* The packet goes over one link.
Link == (Refuse \/ Encode \/ Transfer \/ Decode) /\ UNCHANGED journey

\* The copy that has arrived is sent on, changed.
SendOn(p) ==
  /\ step = "decoded" /\ links < MaxLinks
  /\ packet' = p /\ step' = "tnc2" /\ result' = {} /\ links' = links + 1
  /\ UNCHANGED <<vars, origin, message>>

\* A digipeater serves the first entry of the route that is not used up: it
\* marks its own call, and counts an alias down and marks it at zero.
Digipeat ==
  \E p \in result : \E i \in 1 .. Len(p.path) :
    LET call == p.path[i].call
        left == IF IsAlias(call, DOMAIN Wide) THEN call.ssid - 1 ELSE call.ssid
    IN  /\ ~ p.path[i].repeated /\ \A j \in 1 .. i - 1 : p.path[j].repeated
        /\ IsAlias(call, DOMAIN Wide) => call.ssid > 0
        /\ SendOn([p EXCEPT !.path[i] =
             [call |-> [call EXCEPT !.ssid = left],
              repeated |-> IsAlias(call, DOMAIN Wide) => left = 0]])
        /\ repeats' = repeats + 1

\* A gateway puts the packet into one of its own.
Gate ==
  \E p \in result :
    /\ SendOn([source |-> Gateway, destination |-> Gateway, path |-> <<>>,
               body |-> <<[tnc2 |-> [p EXCEPT !.body = <<>>]]>> \o p.body])
    /\ repeats' = 0

Arrived == step \in {"refused", "decoded"} /\ UNCHANGED journeyVars

JNext == Compose \/ Link \/ Digipeat \/ Gate \/ Arrived

JSpec == JInit /\ [][JNext]_journeyVars

-----------------------------------------------------------------------------
(* Properties. *)

\* The SSID of a call is written without zeros in front.
IsCanonical(call) == call.zeros = 0

\* However a packet has travelled, its copies are duplicates of the packet that
\* was sent: the marks of digipeaters, third-party headers, the loss of an SSID
\* of 0 in AX.25 and white space at the end do not show (frame.rs:157-187).  An
\* SSID with zeros in front is the exception: AX.25 loses them.
CopiesAreDuplicates ==
  \A p \in result, first \in origin :
    IsCanonical(first.source) /\ DuplicateParts(first) # {} =>
      DuplicateParts(p) = DuplicateParts(first)

\* A route whose aliases have all their hops to go.
IsFresh(path) ==
  \A i \in 1 .. Len(path) :
    /\ ~ path[i].repeated
    /\ path[i].call.base \in DOMAIN Wide => path[i].call.ssid = Wide[path[i].call.base]
    /\ path[i].call.base \notin Trace

\* Since AX.25 shows an alias that is used up without its 0, it then counts as
\* one hop; otherwise the count is the number of digipeaters that have repeated
\* the packet, and it never exceeds it (frame.rs:189-222).
HopsAreCounted ==
  \A p \in result, first \in origin :
    IsFresh(first.path) /\ Depth(p) = 0 =>
      \E n \in CountDigihops(p) :
        /\ n <= repeats /\ (repeats > 0 => n > 0)
        /\ (\A i \in 1 .. Len(p.path) :
              p.path[i].repeated => p.path[i].call.base \notin DOMAIN Wide \ {"WIDE1"})
           => n = repeats

\* What a call is is decided in four places, and they agree: tnc2_to_kiss takes
\* every packet whose header the strict parser leaves as it is; what arrives over
\* a link passes the strict parser, unchanged; and a header that is parsed before
\* and behind the link is the same, but for how its SSIDs are written
\* (parser.rs:233-307,1166-1190, frame.rs:99-132,229-249).
LinksAndParserAgree ==
  /\ step = "refused" => HeaderOf(packet) \notin ParseHeader(packet, TRUE)
  /\ \A p \in result, strict \in BOOLEAN : ParseHeader(p, strict) = {HeaderOf(p)}
  /\ \A p \in result, strict \in BOOLEAN : \A h \in ParseHeader(packet, strict) :
       HeaderOf(p) =
         [source |-> Plain(Capital(h.source)), destination |-> Plain(Capital(h.destination)),
          path |-> [i \in 1 .. Len(h.path) |-> [h.path[i] EXCEPT !.call = Plain(Capital(@))]]]

\* The messages whose text says what they are.
IsPlain(t) == t # <<>> /\ Len(Text!Trimmed(t)) = Len(t)
SpeaksForItself(m) ==
  /\ Text!TrimmedBoth(m.destination) = m.destination
  /\ CASE m.rejection_id # {} ->
            m.id = {} /\ Text!IsResponse(Text!Content(m), "rej")
              /\ \A t \in m.rejection_id : IsPlain(t)
       [] m.rejection_id = {} /\ m.acknowledgement_id # {} /\ m.id = {} ->
            m.text = <<>> /\ Text!IsResponse(Text!Content(m), "ack")
              /\ \A t \in m.acknowledgement_id : IsPlain(t)
       [] m.rejection_id = {} /\ m.acknowledgement_id # {} /\ m.id # {} ->
            \A t \in m.acknowledgement_id : IsPlain(t) /\ ~ Text!Holds(t, "{")
       [] m.rejection_id = {} /\ m.acknowledgement_id = {} /\ m.id = {} ->
            m.text # <<>> /\ ~ Text!Holds(m.text, "{")
              /\ \A word \in Text!Word : ~ Text!IsResponse(m.text, word)
       [] OTHER -> TRUE

\* An accepted message is read back as it was written exactly if its text speaks
\* for itself.  encode_message also accepts others and says nothing: it drops an
\* acknowledgement that goes with a text and an id that goes with a rejection,
\* and a text may read as an id or a response (encode.rs:198-226, parser.rs:1071-1096).
MessageComesBack ==
  \A p \in result, m \in message :
    Depth(p) = 0 => (Text!Parsed(p.body[1]) = {m} <=> SpeaksForItself(m))
=============================================================================
