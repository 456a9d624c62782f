------------------------------ MODULE SendLine ------------------------------
(***************************************************************************)
(* The sending half of AprsIsConnection (src/aprsis.rs): connect, whose    *)
(* first act is to send the login line, send_line and close.               *)
(*                                                                         *)
(* send_line awaits two write_all calls and a flush.  A socket takes a     *)
(* line in pieces, so a caller that drops the future, or an error of the   *)
(* socket, can leave any prefix of the line and its CR LF on the wire.     *)
(* A line is two pieces here, and its terminator is two more; a line feed  *)
(* that does not belong in a line stands between its pieces.               *)
(***************************************************************************)
EXTENDS Integers, Sequences

CONSTANTS
  Line,      \* lines to send, the login line that connect formats among them
  Dirty,     \* lines that contain CR or LF
  MaxSends   \* bound: calls of send_line, the login included

ASSUME LineAssumption == Line \cap Dirty = {}
ASSUME SendsAssumption == MaxSends \in Nat \ {0}

VARIABLES
  conn,      \* "connecting", "open", "closed", or "none": connect has failed
  sending,   \* the line being sent and the pieces of it still to be written
  out,       \* the pieces on the wire
  calls,     \* one record for each call of send_line: its line and its fate
  broken     \* the socket has reported an error

sendVars == <<conn, sending, out, calls, broken>>

Idle == <<>>

CR == <<"CR">>
LF == <<"LF">>

Pieces(line) ==
  <<<<line, 1>>>> \o (IF line \in Dirty THEN <<LF>> ELSE <<>>)
                 \o <<<<line, 2>>, CR, LF>>

SendInit ==
  /\ conn = "connecting" /\ sending = Idle /\ out = <<>>
  /\ calls = <<>> /\ broken = FALSE

Outcome(fate) == calls' = [calls EXCEPT ![Len(calls)].fate = fate]

\* connect ends when its send_line does: an error drops the connection.
ConnAfter(ok) ==
  conn' = IF conn # "connecting" THEN conn ELSE IF ok THEN "open" ELSE "none"

\* A mutant of Begin: the line is refused when its first bytes are on the wire.
BeginChecksLate(line) ==
  /\ conn \in {"connecting", "open", "closed"} /\ sending = Idle
  /\ Len(calls) < MaxSends
  /\ IF line \in Dirty
     THEN /\ calls' = Append(calls, [line |-> line, fate |-> "refused"])
          /\ out' = Append(out, <<line, 1>>)
          /\ ConnAfter(FALSE) /\ UNCHANGED sending
     ELSE /\ calls' = Append(calls, [line |-> line, fate |-> "started"])
          /\ sending' = Pieces(line) /\ UNCHANGED <<conn, out>>
  /\ UNCHANGED broken

\* A call of send_line: connect makes the first one, for the login line.
Begin(line) ==
  /\ conn \in {"connecting", "open", "closed"} /\ sending = Idle
  /\ Len(calls) < MaxSends
  /\ IF line \in Dirty
     THEN /\ calls' = Append(calls, [line |-> line, fate |-> "refused"])
          /\ ConnAfter(FALSE) /\ UNCHANGED sending
     ELSE /\ calls' = Append(calls, [line |-> line, fate |-> "started"])
          /\ sending' = Pieces(line) /\ UNCHANGED conn
  /\ UNCHANGED <<out, broken>>

\* The socket takes the next piece; after the last one the flush succeeds.
WritePiece ==
  /\ sending # Idle /\ ~ broken /\ conn # "closed"
  /\ out' = Append(out, Head(sending))
  /\ sending' = Tail(sending)
  /\ IF Len(sending) = 1 THEN Outcome("sent") /\ ConnAfter(TRUE)
                         ELSE UNCHANGED <<calls, conn>>
  /\ UNCHANGED broken

\* write_all fails: the peer is gone, or this side is shut down.
WriteFails ==
  /\ sending # Idle
  /\ sending' = Idle /\ broken' = TRUE
  /\ Outcome("failed") /\ ConnAfter(FALSE)
  /\ UNCHANGED out

\* The caller drops the future while the socket has no room.
Drop ==
  /\ sending # Idle
  /\ sending' = Idle /\ Outcome("dropped") /\ ConnAfter(FALSE)
  /\ UNCHANGED <<out, broken>>

Close ==
  /\ conn = "open" /\ sending = Idle
  /\ conn' = "closed"
  /\ UNCHANGED <<sending, out, calls, broken>>

Finished ==
  /\ sending = Idle
  /\ conn = "none" \/ Len(calls) = MaxSends
  /\ UNCHANGED sendVars

SendNext ==
  \/ \E line \in Line \cup Dirty : Begin(line)
  \/ WritePiece \/ WriteFails \/ Drop \/ Close \/ Finished

SendSpec == SendInit /\ [][SendNext]_sendVars

-----------------------------------------------------------------------------
(* Properties. *)

CallsOf(fate) == {i \in 1 .. Len(calls) : calls[i].fate = fate}

\* Where the lines end that the server reads.
Feeds == {k \in 1 .. Len(out) : out[k] = LF}

\* Pieces stand in a row on the wire, up to an end; and they begin a line.
Stand(pieces, end) ==
  Len(pieces) <= end /\ SubSeq(out, end - Len(pieces) + 1, end) = pieces

StandAlone(pieces, end) ==
  Stand(pieces, end) /\ end - Len(pieces) \in {0} \cup Feeds

\* Every line a send_line reported as sent is the end of a line the server
\* reads, in the same order, and the server reads no other line: a send that was
\* dropped or failed half-way is glued to the next one and spoils only that.
\* Before all of them, on a connection that connect has handed out, comes the
\* login line, whole.  As long as no send was dropped or failed half-way, the wire
\* holds exactly the accepted lines, the last of them as far as it has been
\* written: what was refused puts nothing there (aprsis.rs:59-82,166-176).
SentLinesArriveInOrder ==
  \E ends \in [CallsOf("sent") -> Feeds] :
    /\ Feeds = {ends[i] : i \in CallsOf("sent")}
    /\ \A i \in CallsOf("sent") : Stand(Pieces(calls[i].line), ends[i])
    /\ \A i, j \in CallsOf("sent") : i < j => ends[i] < ends[j]
    /\ conn \in {"open", "closed"} =>
         1 \in CallsOf("sent") /\ ends[1] = Len(Pieces(calls[1].line))
    /\ CallsOf("dropped") \cup CallsOf("failed") = {} =>
         /\ \A i \in CallsOf("sent") : StandAlone(Pieces(calls[i].line), ends[i])
         /\ \/ StandAlone(<<>>, Len(out))
            \/ \E i \in CallsOf("started"), n \in 1 .. 3 :
                 StandAlone(SubSeq(Pieces(calls[i].line), 1, n), Len(out))
=============================================================================
