---------------------------- MODULE TextRestore ----------------------------
(***************************************************************************)
(* What becomes of the bytes of a free-text field (status, message text or *)
(* comment) that are not ASCII: src/packet/view.rs and the end of          *)
(* parse_ref_with_options (src/packet/parser.rs:106-231).                  *)
(*                                                                         *)
(* The parser works on a view of the packet in which every such byte is a  *)
(* placeholder, a control character that APRS does not use.  Once it has   *)
(* found the field, the bytes behind the placeholders are looked up by     *)
(* searching the view of the body for the text of the field, and reading   *)
(* as far into the tail of the packet that is as long as that view; what   *)
(* cannot be restored is then shown as '?'.                                *)
(***************************************************************************)
EXTENDS Integers, Sequences

CONSTANTS
  Byte,      \* the classes of bytes in the body
  MaxBody    \* bound: bytes of the packet behind the identifier of its body

Text == INSTANCE LineText

\* NON_ASCII_BYTE and EXCLUDED_FF_BYTE are characters of ASCII themselves, so
\* a body can hold them too.  "ctl" is any other control character.
Placeholder == {"DEL", "US"}
Control == {"DEL", "US", "ctl"}

ASSUME ByteAssumption ==
  Byte \subseteq {"x", "ctl", "DEL", "US", "lead", "cont", "ff"}
ASSUME BoundAssumption == MaxBody \in Nat

VARIABLES
  sent,       \* the bytes of the packet behind its header
  kind,       \* "text" (a status or a message) or "comment"
  own,        \* the bytes of sent that the field is made of
  apart,      \* an extension has been cut out of the middle of the comment
  value,      \* the field
  step        \* "parsed", "restored" or "sanitized"

vars == <<sent, kind, own, apart, value, step>>

\* A mutant of View: other control characters are hidden as well.
ViewHidesControls(byte) ==
  CASE byte = "ff" -> "US" [] byte \in {"lead", "cont", "ctl"} -> "DEL" [] OTHER -> byte

\* ParserView::from_bytes, for one byte.
View(byte) ==
  CASE byte = "ff" -> "US" [] byte \in {"lead", "cont"} -> "DEL" [] OTHER -> byte

\* A mutant of ViewOf: one placeholder for each character of UTF-8.
ViewOfCharacters(bytes) ==
  LET shown == SelectSeq(bytes, LAMBDA byte : byte # "cont")
  IN  [i \in 1 .. Len(shown) |-> View(shown[i])]

ViewOf(bytes) == [i \in 1 .. Len(bytes) |-> View(bytes[i])]

\* The packet, with one byte for the whole of its header, which is ASCII here.
raw == <<"x">> \o sent

\* The part of the view behind the header, in which the parser finds the field.
body == ViewOf(sent)

\* The bytes behind it: as many at the end of the packet as body is long.
raw_body == SubSeq(raw, Len(raw) - Len(body) + 1, Len(raw))

Bodies == UNION {[1 .. n -> Byte] : n \in 0 .. MaxBody}

\* A field is a stretch of the body behind its identifier.  Extensions that the
\* parser takes out of a comment can leave two stretches.  A comment may follow
\* a symbol code that is any byte; a status or a message follows ASCII.
Init ==
  /\ \E rest \in Bodies : sent = <<"x">> \o rest
  /\ kind \in {"text", "comment"}
  /\ \E from \in 2 .. Len(sent), to \in 2 .. Len(sent) :
       /\ from <= to
       /\ kind = "text" => sent[from - 1] = "x"
       /\ \/ own = SubSeq(sent, from, to) /\ apart = FALSE
          \/ /\ kind = "comment" /\ apart = TRUE
             /\ \E cut \in from .. to - 2 :
                  own = SubSeq(sent, from, cut) \o SubSeq(sent, cut + 2, to)
  /\ value = ViewOf(own)
  /\ step = "parsed"

-----------------------------------------------------------------------------
(* restore_utf8_text_fields. *)

Holds(set) == \E i \in 1 .. Len(value) : value[i] \in set

\* value stands in the view of the body after offset bytes.
MatchesAt(offset) == SubSeq(body, offset + 1, offset + Len(value)) = value

Matches == {offset \in 0 .. Len(body) - Len(value) : MatchesAt(offset)}

\* match_indices finds no match that overlaps the one before it.
UniqueMatch(offset) ==
  /\ offset \in Matches
  /\ \A other \in Matches : other >= offset /\ other < offset + Len(value)

Restored ==
  IF Holds({"DEL"}) /\ \E offset \in Matches : UniqueMatch(offset)
  THEN LET offset == CHOOSE o \in Matches : UniqueMatch(o)
           bytes == SubSeq(raw_body, offset + 1, offset + Len(value))
       IN  IF Text!IsUtf8(bytes) /\ \A i \in 1 .. Len(bytes) : bytes[i] # "ff"
           THEN bytes ELSE value
  ELSE value

Restore ==
  /\ step = "parsed" /\ step' = "restored"
  /\ value' = Restored
  /\ UNCHANGED <<sent, kind, own, apart>>

-----------------------------------------------------------------------------
(* sanitize_parser_placeholders. *)

\* Comments lose control characters and bytes 0xff, but no placeholder.
Stays(char) == char # "US" /\ (char = "DEL" \/ char \notin Control)

Retained(text) ==
  LET retained[n \in 0 .. Len(text)] ==   \* what is retained of the first n characters
        IF n = 0 THEN <<>>
        ELSE IF Stays(text[n]) THEN Append(retained[n - 1], text[n]) ELSE retained[n - 1]
  IN  retained[Len(text)]

Questioned(text) ==
  [i \in 1 .. Len(text) |-> IF text[i] \in Placeholder THEN "?" ELSE text[i]]

Sanitized(text) == Questioned(IF kind = "comment" THEN Retained(text) ELSE text)

Sanitize ==
  /\ step = "restored" /\ step' = "sanitized"
  /\ value' = Sanitized(value)
  /\ UNCHANGED <<sent, kind, own, apart>>

Done == step = "sanitized" /\ UNCHANGED vars

Next == Restore \/ Sanitize \/ Done

Spec == Init /\ [][Next]_vars

-----------------------------------------------------------------------------
(* Properties. *)

\* What the field shows when its own bytes are restored, and when they are not.
Shown == Sanitized(own)
Masked == Sanitized(ViewOf(own))

OwnIsUtf8 == Text!IsUtf8(own) /\ \A i \in 1 .. Len(own) : own[i] # "ff"

Occurrences == {offset \in 0 .. Len(body) - Len(ViewOf(own)) :
                  SubSeq(body, offset + 1, offset + Len(ViewOf(own))) = ViewOf(own)}

\* A field whose view occurs once in the body, even counting overlaps, shows its
\* own bytes if they are UTF-8 and '?' for each byte that is not ASCII if they
\* are not; so does a field that is all ASCII (parser.rs:106-231).
UniqueFieldIsRestored ==
  step = "sanitized" /\ ~ apart /\ Occurrences = {CHOOSE o \in Occurrences : TRUE} =>
    value = IF OwnIsUtf8 THEN Shown ELSE Masked

\* Restoring never touches what was ASCII, wherever the bytes are found: the
\* field keeps its length and its ASCII bytes until it is sanitized.  Then no
\* placeholder shows, not even one that was in the packet as sent, and a comment
\* shows no control character (parser.rs:132-213).
OnlyPlaceholdersChange ==
  /\ step = "restored" =>
       /\ Len(value) = Len(own)
       /\ \A i \in 1 .. Len(own) : own[i] \in {"x", "ctl", "US"} => value[i] = own[i]
  /\ step = "sanitized" =>
       \A i \in 1 .. Len(value) :
         value[i] \notin Placeholder /\ (kind = "comment" => value[i] \notin Control)

\* README.md:10-12: "Valid UTF-8 is restored in unambiguous free-text fields after
\* structural parsing; invalid or ambiguous non-ASCII payload bytes are
\* represented by `?`."  So a field in one piece shows its own bytes or '?'.
FieldShowsItsOwnBytes ==
  step = "sanitized" /\ ~ apart => value \in {Shown, Masked}
=============================================================================
