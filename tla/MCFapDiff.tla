----------------------------- MODULE MCFapDiff -----------------------------
(***************************************************************************)
(* The instance of FapDiff that TLC checks: packets that both parsers, one *)
(* or none accepts, and every reason there is for a difference.            *)
(***************************************************************************)
EXTENDS FapDiff

Nothing == [ok |-> FALSE, packet_type |-> "none", position |-> {}, course |-> {},
            message_text |-> {}, message_id |-> {}, message_ack |-> {}, gust |-> {},
            water_level |-> {}, weather |-> FALSE, comment |-> {}]
Place   == [Nothing EXCEPT !.ok = TRUE, !.packet_type = "location", !.position = {<<5, 5>>}]
Weather(text) == [Place EXCEPT !.weather = TRUE, !.comment = {text}]
Station(text) == [Weather(text) EXCEPT !.packet_type = "weather"]
Message == [Nothing EXCEPT !.ok = TRUE, !.packet_type = "message"]

Packet(frap, reference) == [frap |-> frap, fap |-> reference, utf8 |-> TRUE, del |-> FALSE]

DiffPackets ==
  {Packet(Nothing, Nothing),
   [Packet(Place, Nothing) EXCEPT !.utf8 = FALSE],
   \* A position and a course that differ, a course within the tolerance.
   Packet([Place EXCEPT !.course = {9}], [Place EXCEPT !.position = {<<5, 8>>}, !.course = {7}]),
   \* Comments that differ for no known reason, with a prefix and a suffix in common.
   Packet(Station(<<"a", "a">>), Weather(<<"a", "a", "a">>)),
   \* A reply-ack.
   Packet([Message EXCEPT !.message_text = {<<"a">>}, !.message_id = {<<"a">>}, !.message_ack = {<<"a">>}],
          [Message EXCEPT !.message_text = {<<"a", "u">>}, !.message_id = {<<"a", "}", "a">>}]),
   \* A field that only frap has, and inline telemetry that the other leaves.
   Packet([Station(<<"a">>) EXCEPT !.water_level = {3}], Weather(<<"X", " ", "a">>)),
   Packet([Station(<<"a">>) EXCEPT !.course = {8}],
          [Weather(<<"a", "|", "a", "a", "|">>) EXCEPT !.course = {7}, !.gust = {4}]),
   \* Text that is not ASCII, in a message and in a comment.
   Packet([Message EXCEPT !.message_text = {<<"u">>}], [Message EXCEPT !.message_text = {<<"?", "?">>}]),
   Packet(Station(<<"a", "u">>), Weather(<<"a", "?", "?">>)),
   \* A DEL in the comment, and a reading that only frap takes out of it.
   [Packet(Station(<<"a", "?">>), Weather(<<"a">>)) EXCEPT !.del = TRUE],
   Packet([Station(<<"a">>) EXCEPT !.gust = {4}], Weather(<<"a", "a">>))}
=============================================================================
