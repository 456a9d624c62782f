----------------------------- MODULE MCJourney -----------------------------
(***************************************************************************)
(* The instance of Journey that TLC checks: every body of up to four       *)
(* bytes, every pair of calls, every short route and routes on both sides  *)
(* of the limit, routes of aliases, and messages of every kind.            *)
(***************************************************************************)
EXTENDS Journey

CONSTANT Other   \* any byte but the four of KISS and the space

Bytes == {FEND, FESC, TFEND, TFESC, Other, Space}
GoodBases == {"N0CALL", "GATE", "DIGI", "WIDE1", "WIDE2", "WIDE3", "TRACE2"}
Cells == Bytes \cup {Port0, UI, NoLayer3} \cup
         [base : GoodBases, octet : 0 .. 255]

Written(base, ssid) == [base |-> base, ssid |-> ssid, zeros |-> 0]
Good == Written("N0CALL", 15)
Gatewayed == Written("GATE", NoSsid)

Bodies == UNION {[1 .. n -> Bytes \ {Space}] : n \in 0 .. 4}
            \cup [1 .. 3 -> {FEND, Other, Space}]
Small == [n0call |-> "N0CALL"]
Calls == [base : {"N0CALL", "bad"}, ssid : {-1, 0, 15, 16}, zeros : {0}]
           \cup [base : {"n0call", "N0_CALL", "N~CALL"}, ssid : {-1, 16}, zeros : {0}]
           \cup [base : {"N0CALL"}, ssid : {0, 7, 15}, zeros : {1}]
Hops == [call : Calls, repeated : BOOLEAN]
LongRoutes == {[i \in 1 .. n |-> [call |-> Good, repeated |-> i <= used]]
                 : n \in 7 .. 9, used \in {0, 1, 9}}
Unused(call) == [call |-> call, repeated |-> FALSE]
Aliases == {Unused(Written("WIDE1", 1)), Unused(Written("WIDE2", 2)), Unused(Written("WIDE3", 3)),
            Unused(Written("WIDE3", 2)), Unused(Written("DIGI", 1)), Unused(Written("TRACE2", 2)),
            [call |-> Written("WIDE2", NoSsid), repeated |-> TRUE]}
AliasRoutes == UNION {[1 .. n -> Aliases] : n \in 1 .. 2}
Routes == UNION {[1 .. n -> Hops] : n \in 0 .. 2} \cup LongRoutes \cup AliasRoutes

Blank == [source |-> Good, destination |-> Good, path |-> <<>>, body |-> <<>>]

Sent ==
  [source : {Good}, destination : {Good}, path : {<<>>}, body : Bodies]
  \cup [source : Calls, destination : Calls, path : {<<>>}, body : {<<Other>>}]
  \cup [source : {Good}, destination : {Good}, path : Routes, body : {<<FESC>>}]

Short == { <<>>, <<"x">>, <<"x", " ">>, <<"{">>, <<"x", "{", "y">>, <<"ack">>, <<"ack", "x">>,
           <<"rej", "x">>, <<"ack", "?">>, <<"rej", "x", "}", "y">>, <<"LF">> }
Ids == { <<>>, <<"x">>, <<"x", "y">>, <<"ack", "x", "y">>, <<"x", "y", "ack", "x">>,
         <<"x", " ">>, <<"?">>, <<"{">>, <<"}">> }
Optional == {{}} \cup {{id} : id \in Ids}
Sample ==
  [destination : {<<"x">>}, text : Short, id : Optional,
   acknowledgement_id : Optional, rejection_id : {{}}]
  \cup [destination : {<<"x">>}, text : {<<>>, <<"x">>}, id : {{}, {<<"y">>}},
        acknowledgement_id : {{}, {<<"x">>}}, rejection_id : Optional]
  \cup [destination : {<<>>, <<"x", " ">>, [i \in 1 .. 9 |-> "x"], [i \in 1 .. 10 |-> "x"]},
        text : {<<"x">>}, id : {{}}, acknowledgement_id : {{}}, rejection_id : {{}}]
=============================================================================
