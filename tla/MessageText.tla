---------------------------- MODULE MessageText ----------------------------
(***************************************************************************)
(* APRS messages as text: encode_message (src/encode.rs) and parse_message *)
(* (src/packet/parser.rs).  A text is a sequence of characters; "ack" and  *)
(* "rej" stand for the three letters each, as the start of a text.  A body *)
(* is a record of its addressee field and of what follows it.              *)
(***************************************************************************)
EXTENDS Integers, Sequences, SequencesExt

Letter == {"x", "y"}
Word == {"ack", "rej"}
Character == Letter \cup Word \cup {"{", "}", "?", " ", "LF"}
Alphanumeric == Letter \cup Word

\* An Option<String> is a set of one text or none.
Some(t) == {t}
None == {}
Option == {option \in SUBSET Seq(Character) : \A t, u \in option : t = u}

Message == [destination : Seq(Character), text : Seq(Character),
            id : Option, acknowledgement_id : Option, rejection_id : Option]

\* The length in bytes.
Size(t) == Len(t) + 2 * Cardinality({i \in 1 .. Len(t) : t[i] \in Word})

IsAlphanumeric(t) == \A i \in 1 .. Len(t) : t[i] \in Alphanumeric
Holds(t, c) == \E i \in 1 .. Len(t) : t[i] = c

\* str::trim_end and str::trim.
Trimmed(t) == IF \E i \in 1 .. Len(t) : t[i] # " "
              THEN SubSeq(t, 1, CHOOSE i \in 1 .. Len(t) :
                                  t[i] # " " /\ \A j \in i + 1 .. Len(t) : t[j] = " ")
              ELSE <<>>
TrimmedBoth(t) == Reverse(Trimmed(Reverse(Trimmed(t))))

-----------------------------------------------------------------------------
(* encode_message *)

Texts(m) == {m.destination, m.text} \cup m.id \cup m.acknowledgement_id \cup m.rejection_id

\* What is encoded, and not refused with an error.
IsAccepted(m) ==
  /\ m.destination # <<>> /\ Size(m.destination) <= 9
  /\ \A t \in Texts(m) : ~ Holds(t, "LF")
  /\ m.rejection_id # None => m.acknowledgement_id = None /\ m.text = <<>>
  /\ \A id \in m.id : id # <<>> /\ Size(id) <= 5 /\ IsAlphanumeric(id)
  /\ \A id \in m.id, ack \in m.acknowledgement_id : Size(id) + Size(ack) + 1 <= 5

\* The text that stands in an option that is not None.
Of(option) == CHOOSE t \in option : TRUE

Content(m) ==
  IF m.rejection_id # None THEN <<"rej">> \o Of(m.rejection_id)
  ELSE IF m.acknowledgement_id # None /\ m.id = None /\ m.text = <<>>
  THEN <<"ack">> \o Of(m.acknowledgement_id)
  ELSE IF m.id = None THEN m.text
  ELSE m.text \o <<"{">> \o Of(m.id)
         \o IF m.acknowledgement_id = None THEN <<>> ELSE <<"}">> \o Of(m.acknowledgement_id)

Padded(t) == t \o [i \in 1 .. 9 - Size(t) |-> " "]

Encoded(m) == [addressee |-> Padded(m.destination), content |-> Content(m)]

-----------------------------------------------------------------------------
(* parse_message *)

\* A mutant of IsResponse: any text may follow the keyword.
IsAnyResponse(content, prefix) == content # <<>> /\ Head(content) = prefix

IsResponse(content, prefix) ==
  /\ content # <<>> /\ Head(content) = prefix
  /\ LET id == Trimmed(Tail(content))
     IN  Size(id) \in 1 .. 5 /\ \A i \in 1 .. Len(id) : id[i] \in Alphanumeric \cup {"}"}

\* The parts of a text before and after a character, at its first place or its last.
Before(t, i) == SubSeq(t, 1, i - 1)
After(t, i) == SubSeq(t, i + 1, Len(t))
First(t, c) == CHOOSE i \in 1 .. Len(t) : t[i] = c /\ ~ Holds(Before(t, i), c)
Final(t, c) == CHOOSE i \in 1 .. Len(t) : t[i] = c /\ ~ Holds(After(t, i), c)

\* The message in a body, or none if it is too short.
Parsed(body) ==
  LET content == body.content
      blank == [destination |-> TrimmedBoth(body.addressee), text |-> <<>>, id |-> None,
                acknowledgement_id |-> None, rejection_id |-> None]
      id == Trimmed(After(content, Final(content, "{")))
      ack == After(id, First(id, "}"))
      numbered == [blank EXCEPT !.text = Before(content, Final(content, "{"))]
  IN  IF content = <<>> THEN None
      ELSE Some(
        IF IsResponse(content, "ack")
        THEN [blank EXCEPT !.acknowledgement_id = Some(Trimmed(Tail(content)))]
        ELSE IF IsResponse(content, "rej")
        THEN [blank EXCEPT !.rejection_id = Some(Trimmed(Tail(content)))]
        ELSE IF ~ Holds(content, "{") THEN [blank EXCEPT !.text = content]
        ELSE IF ~ Holds(id, "}") THEN [numbered EXCEPT !.id = Some(id)]
        ELSE [numbered EXCEPT !.id = Some(Before(id, First(id, "}"))),
                              !.acknowledgement_id = IF ack = <<>> THEN None ELSE Some(ack)])
=============================================================================
