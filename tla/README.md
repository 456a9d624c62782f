# A TLA+ development of frap

frap is a Rust port of the Finnish APRS parser. This directory holds TLA+ models
of its parts, configurations with which TLC checks them on small instances, and
theorems that TLAPS proves for every value of the constants.

    tlc -config MCAprsIs.cfg MCAprsIs            # one run; PROJECT.json lists all
    tlapm AprsIs_proofs.tla                      # the proofs of one component

Line numbers below are those of the source files of the repository.

## 1. The system

| Part | Source | State it keeps | Operations |
|---|---|---|---|
| APRS-IS client | `src/aprsis.rs` | `reader` (a `BufReader`), `writer`, `line_buffer`, `discarding_oversized_line` | `connect`, `read_line`, `read_packet`, `send_line`, `close` |
| capture loop | `examples/dataset-capture.rs` | `captured`, the output | calls `read_packet` until it has enough |
| packet parser | `src/packet/parser.rs`, `src/position.rs`, `src/packet/types.rs` | the flat `ParseState`, for the length of one call | `parse` and its variants; `into_packet_ref` |
| text restoration | `src/packet/view.rs`, end of `parser.rs` | the view of the packet and the `ParseState` | `ParserView::from_bytes`, `restore_utf8_text_fields`, `sanitize_parser_placeholders` |
| timestamps | `src/timestamp.rs`, `src/encode.rs` | none; reads the system clock | `parse_timestamp`, `encode_timestamp` |
| positions | `src/position.rs`, `src/encode.rs`, `parse_mice` of `parser.rs` | none | `encode_position`, `encode_object`; `parse_uncompressed`, `parse_compressed`, `parse_mice` |
| weather scanner | `src/position.rs:345-741` | a cursor and noted positions in a text it edits, for one call | `weather_from_comment` |
| messages | `src/encode.rs`, `parser.rs:1053-1111` | none | `encode_message`, `parse_message` |
| KISS frames | `src/frame.rs` | none | `tnc2_to_kiss`, `kiss_to_tnc2`, `aprs_duplicate_parts`, `count_digihops` |
| helpers | `src/utilities.rs`, `src/error.rs` | none | distance, direction, pass code; error codes |
| comparison program | `examples/fap-diff.rs` | tallies, four reports, a child process, the summary | compares frap with a reference parser over a dataset |
| outcome runners | `tools/libfap-outcomes.c`, `tools/perl-fap-outcomes.pl` | stdio buffers | print one line for each packet of the dataset |
| other development tools | `examples/dataset-bench.rs`, `benches/`, `tools/perl-fap-bench.pl`, `scripts/` | none the library uses | timing, building and running other parsers |

How they interact. The client hands the text of a line to its caller, who hands
it to the parser; neither calls the other. The capture loop is the caller the
repository itself has. The parser calls the timestamp and position decoders and,
at its end, restores text and moves its flat state into a `PacketBody`. The
encoders and the KISS functions are the other direction: what they make is meant
to be read by the parser and by `kiss_to_tnc2`. fap-diff runs frap and a reference
parser side by side; the two processes share the dataset, a pipe and the disk.

What is hard in it:

* **Futures.** `read_line`, `read_packet`, `send_line` are futures. A caller may
  give any of them up at an `await`, and `read_line` gives itself up when its
  timer fires. What the next call finds is whatever the abandoned one left.
* **Framing.** TCP delivers bytes in chunks that have nothing to do with lines; a
  line has a limit, and what exceeds it must be drained without being kept.
* **The flat `ParseState`.** Thirty fields are filled by code in three files and
  moved into variants elsewhere; `expect` in the move relies on all of it.
* **A second attempt.** Mic-E is decoded twice on one state.
* **Guesses.** The month of a timestamp is guessed from the receiver's clock; the
  bytes of a text field are guessed by searching the packet for its view.
* **Escapes and limits.** KISS stuffing, route lengths, field lengths.
* **A text that is edited while it is scanned.** The weather scanner notes positions
  and uses them after further edits.
* **Rounding.** A position is rounded by the encoder, widened by ambiguity, refined by
  DAO and cast to cells of base 91; programs send on what they have decoded.
* **Two processes.** fap-diff can be killed, its child can die, the disk can be full.

What makes each part correct:

* client: a line that the server finished is answered once, by its own bytes, in
  order, whatever timeouts, drops, overflows and errors come between; the end of
  the stream is told apart from everything else; no call hangs;
* sending: a line reported as sent is what the server reads; a login comes first;
* capture loop: it writes the packets of the stream and ends;
* parser: it ends, never panics, loses nothing that it decoded and returns the
  variant its identifier calls for; repair is a last resort;
* text: each field shows its own bytes, or `?`;
* timestamps: what one station encodes another decodes to the same moment;
* headers: a link takes what the strict parser takes, and the parser what arrives;
* KISS: what is sent is what is read, and one frame is one frame; copies of a packet
  have one duplicate key, and the digipeaters on its way are counted;
* messages: what is accepted comes back as it was, if its text speaks for itself;
* positions: the receiver puts the sender where it is, and sending on moves nothing;
* weather scanner: it ends, its positions stay valid, no reading is put together from
  pieces, and prose and telemetry stay as they were;
* fap-diff: both processes end, and a summary is the old one or whole and true.

`PROJECT.json` lists under `hazards`, line by line, where each of these can go
wrong, and which property watches it.

## 2. Modules

    LineText ── LineStream                      what the client promises
        └────── AprsIs ── Capture               the client; the loop over it
    SendLine                                    the client's other half
                                                  AprsIs_proofs: all three
    PacketParse ── PacketParse_proofs           the parser
    TextRestore ── TextRestore_proofs           text behind placeholders (uses LineText)
    WeatherScan ── WeatherScan_proofs           the scanner inside position.rs
    Division ── Timestamp ── PositionReport     a report from encoder to decoder,
        └── PositionText ──┘   └ PositionReport_proofs   days later, and sent on
    KissStuffing ── KissFrame ── Header ── Journey   tnc2_to_kiss to kiss_to_tnc2;
        └ KissStuffing_proofs   MessageText ┘   packets and messages over many links
                                                  Journey_proofs: KissFrame to Journey
    OutcomeDiff ── FapDiff ── FapDiff_proofs    one comparison; the program around it

Every `MC<Module>` only gives the constants of a module finite values. Operators
called "A mutant of ..." are plausible bugs; no specification uses them.
`PROJECT.json` names for every property one of them with which TLC finds the
property violated, so that no property holds merely by the shape of a model.

**AprsIs** (`aprsis.rs:42-158`). `stream` is what the server gets through to
this side. `filled`, `taken` and `start` cut it into what the `BufReader` has
read, what `read_line` has consumed and what replies account for;
`line_buffer` and `discarding` are the code's. One turn of the loop is one
action: `TakeAll` (no line feed in the buffer), `TakeLine` (up to the line feed,
with the decoding of lines 124-139), `ReadEof` and `ReadError` (what `fill_buf`
may return instead). `FillBuf` takes any number of bytes up to the capacity.
`Timeout` is enabled only where the future waits, at `fill_buf` with an empty
buffer (line 93): it stands for the timer and for a caller that drops the
future, which leave the same state. `read_packet` differs from `read_line` only
in what it does with a comment. A reset may lose bytes in flight, is reported
once by `fill_buf`, and reads as closed afterwards.

**LineStream** is the promise: no buffers, no chunks, no flag. A line is a
stretch of the stream up to a line feed; it is answered by `LineReply`, a
function of its bytes. `AprsIs!Abstract` is the refinement: variables of the
same name correspond, and `filled`, `taken`, `line_buffer`, `discarding` are
hidden.

**Capture** (`dataset-capture.rs:50-67`) conjoins the loop to the client's
actions: what the loop does with a reply belongs to the step that answers,
because the loop does not await in between.

**SendLine** (`aprsis.rs:59-82,166-185`). `Begin` is a call, with the CR/LF
test; `WritePiece` puts one of a line's pieces on the wire; `WriteFails` and
`Drop` end a call at any piece; `ConnAfter` is what `connect` does when its
login ends. A line is two pieces and its CR LF two more, so that a fragment of it
can be left; a line feed that is in a line stands between its pieces.

**PacketParse** (`parser.rs:52-1163`, `position.rs:4-343`, `types.rs:294-446`).
`fields` is the set of Options that are `Some`, `rest` the number of bytes of
text left. What the bytes say is an arbitrary choice at each test the code makes
of them, so every route is explored; lengths are exact, since a slice that is
out of bounds is a panic (`Slice`, `Decoded`). Mic-E is read twice, so what its
bytes say is fixed in `input`. One comment extension is one step (`LookFor`).
`IntoPacketRef` is the move, `expect` included. `report` keeps what the variant
and what its position received.

**TextRestore** (`view.rs:3-41`, `parser.rs:106-231`). Bytes are classes: ASCII,
control characters, the two placeholders (which are ASCII control characters
themselves and can be in a packet), the halves of a character, 0xff. A field is
any stretch of the body that can be one, or two stretches with an extension cut
out between them. It is looked for in `body`, the view behind the header, and its
bytes are read at the same offset of `raw_body`, the tail of the packet that is as
long as that view (`parser.rs:107`); the two agree only because the view has one
byte for each byte (`TailIs`).

**WeatherScan** (`position.rs:345-741`, `parser.rs:581-624`). Each `continue` of the
loop and each way through its body is an action, and what remains of the text is a
sequence of positions in the text as received, so that properties can say where a
character came from. `preserved`, `sequence`, `consumed` and `capacity` are the
code's variables under shorter names. `Finish` is everything after the loop,
`TakeTelemetry` the call of `parse_base91_telemetry` behind it. Readings are kept as
the characters that were read; their units are not converted.

**Timestamp** (`timestamp.rs:28-111`, `encode.rs:66-137,394-406`,
`parser.rs:1132-1140`). A sender, whose clock may be fast, makes a timestamp; days
pass; a receiver decodes it by its own clock. Timestamps of other programs are an
arbitrary set. The calendar arithmetic is translated operation by operation,
with division as `i64` does it (`Division`).

**PositionText** (`encode.rs:243-436`, `position.rs:4-320,731-741`,
`parser.rs:445-560,1042-1051`) has the encoder and the three decoders as operators.
A minute is 910000 grains, so that hundredths of a minute, decimal DAO and base-91
DAO are all whole numbers and no rounding of the model's own comes in. A compressed
coordinate is a cell; a decoded one lies on the edge of its cell (`exact`), where the
error of `f64` decides on which side the cast of `encode.rs:305-306` falls, so
`Cells` lets it fall on either. Course, speed and altitude are Options, a comment is
a sequence of extensions, inline telemetry, words, white space and slashes.
`TelemetryTaken` and `WithoutTelemetry` are the two places that take inline telemetry
out (`parser.rs:581-624`, `position.rs:326-344`), and `Shown` is what is left of a
comment in the end: no white space around it and no slashes in front (`position.rs:318`).

**PositionReport** puts both together: `Send` is `encode_position` or
`encode_object` with `encode_timestamp`, `Parse` the decoders, `Relay` a program that
encodes again what it has decoded. Radios make Mic-E text, which frap only reads;
other programs' texts are a set of their own. `place` is what the sender meant,
`first` what the first receiver made of it.

**KissStuffing** and **KissFrame** (`frame.rs:3-155,224-256`). The two loops of
stuffing are machines of one byte a step; `marks`, a history variable, records
where each byte of the frame ends on the wire. KissFrame puts the address list
and the checks of both functions around them. The seven bytes of an address are
one cell, since they are never FEND or FESC; the last of them is a number (`octet`),
in which SSID, repeated bit and last bit share the room (`SsidOctet`, and `SsidOf`,
`IsRepeated`, `IsLast` to read it).

**MessageText** (`encode.rs:159-229`, `parser.rs:1053-1111`) has `encode_message` and
`parse_message` as operators over texts of a few characters; an `Option` is a set of
one text or none. **Journey** composes
them with KissFrame: a packet or a message goes over a link (the whole of KissFrame),
a digipeater or a gateway changes its route, and it goes over the next.
`DuplicateParts` and `CountDigihops` (`frame.rs:157-300`) and the parser's reading of
the header (**Header**, `parser.rs:233-307,1166-1215`) are evaluated on each copy that
arrives. Base calls are names; the constants say which of them are in capitals, in
small letters or only loosely valid. Digipeaters and gateways are external: they do what APRS says.

**OutcomeDiff** (`fap-diff.rs:478-966`) is the comparison of one packet as operators:
which fields are compared, what counts as a difference and which differences are
taken to be intentional. **FapDiff** (`fap-diff.rs:36-475,1017-1117`) is the program:
the child's lines come through its buffer and a pipe in pieces, `main` is a program
counter, every write to a report can fail, and `Killed`, `ChildDies` and `Grow` may
happen at any time. The child's actions are the loop of the two runners
(`tools/libfap-outcomes.c:105-168`, `tools/perl-fap-outcomes.pl:17-63`), and `Grow` is
the capture loop (`dataset-capture.rs:50-67`), which may still be writing the dataset.

## 3. Runs

Every run ends with the whole state graph explored; none sets
`CHECK_DEADLOCK FALSE`. A system that has come to its end stutters in an action
of its own, such as `CallerStops`, `Exited`, `Finished`, `Arrived` or `ReportEnds`.

| Run | Module | Question | Bounds, and why they suffice |
|---|---|---|---|
| client | MCAprsIs | `TypeOK`, `BufferHoldsLine`, `EndRepliesAtEnd`, `RepliesAreTheLines`; AprsIs implements LineStream (`ImplementsLineStream`); `LinesAnswered`, `CallsReturn` | `MaxLine` 3, `BufSize` 3. `Streams`: all streams of 6 bytes of LF and x; one of 9 with two oversized lines and a line between them; all of 3 bytes of every class, and lines of two such bytes with more behind them. So lines cross chunks and chunks cross lines, and a two-byte character is cut by a chunk and by the limit. `MaxResults` 11 is above the number of replies these bytes can have, so that liveness is never cut off by the bound |
| capture | MCCapture | `WritesThePackets`; `CaptureEnds` | 5 bytes, `PacketLimit` 2, `MaxLine` 2: comments between packets, a line that is not UTF-8, one that is too long |
| sending | SendLine | `SentLinesArriveInOrder` | login and three more sends of two clean lines and one with a line feed: a fragment before, between and after whole lines |
| parsing | MCPacketParse | `TypeOK`, `NoPanic`, `NothingDecodedIsLost`, `TypeFollowsIdentifier`, `RepairIsLastResort`; `ParseEnds` | every identifier, every length on both sides of one the parser tests, and one with room for several extensions |
| restoring | TextRestore | `UniqueFieldIsRestored`, `OnlyPlaceholdersChange` | all bodies of up to 4 bytes behind the identifier, behind a header: a view can occur twice, overlap itself and have other bytes in each place |
| reports | MCPositionReport | `CalendarIsGregorian`, `MomentIsRecovered`, `NeverInTheFuture`; `PositionComesBack`, `RelaysKeepPosition`, `ExtensionsComeBack` | ten instants at edges of the calendar and the 26 days after each: 26 is the most for which recovery holds (with 27, a timestamp of February is read in March as one of March). Coordinates at zero, at both limits and where rounding carries, with every precision; each kind of motion, altitude, symbol and comment, with blanks, slashes and telemetry in them, and Mic-E bytes whose course is negative or beyond 360; `MaxRelays` 2, since what one relay loses a second would lose again. Only one position is combined with all instants: the two do not interact |
| comments | MCWeatherScan | `PositionsStayValid`, `ReadingsAreWhole`, `ProseIsKept`, `TelemetryIsKept`; `ScanAdvances` | all texts of three tokens out of about thirty (fields of each width, placeholders, legacy tokens, words, bars, telemetry) and all texts of up to five of six characters: two tokens can be joined by the removal of one between them |
| journey | MCJourney | `OneFrameOnTheWire`, `ReadsWhatWasSent`, `PacketComesBack`; `CopiesAreDuplicates`, `HopsAreCounted`, `LinksAndParserAgree`, `MessageComesBack` | every body of up to 4 bytes over the four KISS bytes and another; every pair of calls, with SSIDs on both sides of the limit, small letters and characters that only the loose parser takes; routes of 0 to 2 hops, of 7 to 9, and of aliases; messages of every combination of text, id, acknowledgement and rejection; four links (`MaxLinks` 3 after the first), enough to use up WIDE3-3 and to wrap a packet between two digipeaters |
| comparison | MCFapDiff | `SummaryIsTrue`, `EveryDifferenceIsCounted`, `ReportsBearItOut`; `RunEnds` | two packets out of eleven that show each outcome and each of the six reasons, lines of two pieces, `PipeSize` 2: the child blocks on a full pipe, and dies in the middle of the first line and between the two |

Runs that find a disagreement between the code and its documentation:

| Run | What the documentation says | What the code does |
|---|---|---|
| phg_range | `types.rs:154`: `radio_range_km` is from "an RNG or PHG extension" | PHG sets only `phg` (`position.rs:204-219`) |
| ambiguous_text | `README.md:10-12`: only unambiguous text is restored, the rest is `?` | `match_indices` (`parser.rs:138`) does not see a second match that overlaps the first, so a field can be restored from bytes that are not its own |
| day_of_month | `timestamp.rs:15`: day is in `1..=31` | only day 0 is refused (`timestamp.rs:63`); 32 and 99 pass |

Other observations that no run states. When a weather report has a position, its
telemetry and comment go to the position (`take_position` runs first), so
`PacketBody::Weather.telemetry` (`types.rs:237`) is only ever filled without one.
Mic-E hex telemetry replaces base-91 telemetry read just before it
(`parser.rs:562,576`). An object made at 11:11 UTC on the 11th reads as permanent;
`MomentIsRecovered` states it as the exception it is. A keep-alive comment gives
`read_packet` a new timeout, so `CallsReturn` relies on a server that does not
send comments for ever. More of them, by part:

* Positions. `encode_position` accepts the symbol code `}` with `compressed`, which
  `parse_compressed` refuses, and overlay letters a to j, which come back as digits,
  although `encode.rs:241-242` calls symbol data that cannot be represented an error;
  `PositionComesBack` states both as exceptions. A decoded compressed position that
  is encoded again often moves by one cell of 0.29 m, because `encode.rs:305-306`
  truncates where the product falls short of a whole number; `RelaysKeepPosition`
  allows one cell a relay and no more. DAO of an ambiguous position, or of the weather
  report of a Mic-E station, is decoded and then not sent on (`encode.rs:328`,
  `parser.rs:577`), which moves the report by up to a hundredth of a minute. An altitude of seven places is read as its
  first six, and a compressed course of 0 drops the speed with it. A comment that begins
with slashes loses them, and one that has blanks around it loses those
(`position.rs:318`), which `encode_position` accepts without an error;
`ExtensionsComeBack` states what is left. Degrees are parsed
  as `f64`, so the longitude degrees `nan` pass the range test (`position.rs:70-81`).
  Minutes up to 79.99 and Mic-E latitudes beyond 90 degrees are accepted, and a Mic-E
  course can exceed 360 or wrap in the cast to `u16` (`parser.rs:531-549`).
* Weather. Any text whose fourth byte is `/` and that otherwise fits loses seven bytes
  to the wind pair, which may cut inline telemetry. Removing a field can join what is
  left to a payload between two bars. `README.md:310-312` says that a one-digit `h`
  stays in the comment; it does only before the first field (`position.rs:456-474`).
* Frames. AX.25 loses the zeros of an SSID such as `-07`, and `aprs_duplicate_parts`
  keeps them, so the copies differ. A used-up `WIDEn` counts as one hop, whatever n.
* Messages. `encode_message` drops an acknowledgement that goes with a text and an id
  that goes with a rejection, without an error, and tests the characters of an id only
  when it is a message's own; `MessageComesBack` says exactly which messages survive.
* fap-diff. A run that fails leaves the old `summary.txt` next to reports that it has
  already truncated. The counter "non-UTF-8 inputs parsed by FRAP" also counts inputs
  that frap refused (`fap-diff.rs:118-120`).

### Fairness

* `AprsIs`: the caller calls again (`WF StartRead`), which is what the capture
  loop and any receiving program does. A future that can go on is polled
  (`WF TakeAll \/ TakeLine`). The timer of a call fires (`WF Timeout`).
  `FillBuf`, `ReadEof` and `ReadError` are strongly fair: a timeout disables
  them by ending the call, but bytes or the end of the stream stay in the socket,
  each new call polls the read before its timer, and so it finds them. The server
  owes nothing.
* `Capture`: the same, and the loop goes on (`WF ReadPacket`, `WF Flush`).
* `PacketParse`: `parse` is one synchronous call, `WF Parse`.
* `FapDiff`: the operating system schedules both processes (`WF Child`, `WF Main`).
  Nothing is owed that would end either of them: not the death of the child, nor a
  kill, nor the growth of the dataset.
* `WeatherScan` needs none: `ScanAdvances` is an action property, by which every turn
  of the loop shortens what lies before the cursor.
* The other modules state no liveness.

## 4. Proofs

Each theorem holds for every value of the constants that satisfies the named
assumptions of the module it is about; TLC evaluates those assumptions in the runs.
So texts, streams, packets and datasets are of any length, and the bounds of the runs
are arbitrary numbers.

Most of the properties are not inductive. For each component the proof states an
invariant that is, proves that every action keeps it, one lemma for each action or
group of actions that does the same, and that the properties follow. What these
invariants add to the properties says why the code works, so it is told here.

**AprsIs_proofs.** `IInv` is the conjunction of `TypeOK`, `BufferHoldsLine`,
`RepliesTileStream`, `RepliesDecodeLines` and `EndRepliesAtEnd`. None of the
properties is inductive alone: what a `TakeLine` answers is right only because the
buffer is the beginning of the line (`BufferHoldsLine`), and the reply of an
earlier line stays right only because replies end before `start`
(`RepliesTileStream`) and the stream only grows, or loses bytes beyond `filled`.
`BufferStep`, `TileStep`, `DecodeStep` and `EndStep` prove one part each, action by
action; `Invariance` combines them. `Refinement` uses `Invariance`: `TakeLine`
maps to `AnswerLine` because the buffer and the flag determine the bytes, `Timeout`
to `GiveUp`, and `FillBuf` and `TakeAll` to stuttering.

*Capture.* `CaptureInv` is `IInv`, the control of the loop, `GoodSoFar` (the loop stands
at the end of a line and has met none that cannot be decoded) and
`\E kept : KeptInv(kept)`: a function names the packet behind each text written, in
order, with none left out. A timeout leaves `kept` alone, an answer extends it by the
line that was answered, and only if that is a packet.

*SendLine.* `SendInv` says in the same way where the lines of the calls that were sent
end on the wire (`EndsInv`), and that a line under way begins where another ended,
unless a send has been given up (`WireInv`): a fragment spoils the next line, and the
property says no more than that.

**PacketParse_proofs.** `Progress` says for every value of `step` which fields are
set, which type is recorded and how much text is left: after `position` the
coordinates are there, before `return` an object has its name, and so on.
`ParseNeverPanics`, `ParseLosesNothing` and `ParseKeepsIdentifier` follow from it for
information fields of every length, where the run has a list of them.
`ParseRepairsLast` needs an invariant of its own (`MiceInductive`): the extensions
that are looked for in a Mic-E comment never set course or speed, so a packet that
reached them has its course from the Mic-E bytes and is not repaired.

**TextRestore_proofs.** `TextInv` keeps what the field is between the two passes: where
its view has no placeholder it is the view (`Keeps`), and if the view occurs once in
the body it is the text of the field's own bytes. The bytes found at a match have the
field's view, so each of them is the ASCII character of the view or stands at a
placeholder, whichever match was taken. `TailIs` and `ViewOfStretch` say that offsets in
the view are offsets in the bytes.

**WeatherScan_proofs.** Four invariants, each resting on those before it, over the
eight actions of the loop and the three around it.

* `ScanInv`: the cursor and the noted positions are in range, what is kept aside belongs
  in front of the cursor, in order, and what lies behind the cursor is the end of the
  text as it was received (`SuffixInv`). `ScanAlwaysAdvances`: each action shortens it.
* `WholeInv`: the positions left are increasing, a piece that is kept aside lies between
  its neighbours, and each reading is a stretch of the text that nothing else has
  (`Readings`). Readings are taken only from behind the cursor, and there `SuffixInv`
  leaves no seam.
* `OfText`: no character is there that the wind has taken or that the text did not have.
* `ProseInv` and `TelemetryInv`, under the hypotheses of the two properties. In prose
  nothing is ever removed but placeholders, all of which are kept, so what is free is
  the text and the capacity for counters stays 0. A payload between the only two bars
  stays whole because no field has a bar in it (`Kept`): an edit ends before the first
  bar or starts behind the last, and the cursor passes both in one step.

**PositionReport_proofs.** `CivilIsGregorian` is about `civil_from_days` alone: its
division by eras gives the Gregorian date of every day. Since the definition of a
date here counts days from month lengths, the theorem is arithmetic (`EraIs`, `DayOfEra`,
`YearOfEra`, `MonthOfYear`). `RInv` says what a timestamp is while it travels: one of
the forms made at `Made`, and what is decoded is what the receiver's clock makes of it
(`Heard`). `DecodedDatesAreRecent` and `MomentsAreRecovered` follow by arithmetic over
the months; the second has two hypotheses, which the runs meet: `MaxDays <= 26`, beyond
which the code's guess of the month is wrong, and days of `Starts` from 26 before 1970
on, because a system clock shows nothing earlier.

The other half of the module is about the place: `PositionsComeBack`, `PositionsAreKept`
and `ExtensionsAreKept`, all from `RelayInvariance`. `RelayInv` says what each step of a
report's way makes of it: a text on its way is one that its first sender can make, or
what `encode_position` makes of a report that was kept; a report has arrived (`Arrives`),
tells the sender's course, speed, altitude and comment (`Told`), and is still where it was
first decoded (`Kept`); only the text of a compressed position with the code `}` is lost.
None of the three properties is inductive, because what a relay encodes depends on the
form of the report and not on the place that it means. What makes `Kept` inductive is
which numbers a report can hold (`Reported`: `Surveyed` in degrees, `Gridded` in cells),
and this differs with the form:

* *Uncompressed and Mic-E.* A decoded coordinate is a whole number of hundredths of a
  minute, in the middle of what its blanks leave open, plus a rest that DAO has added
  (`IsGood`). Such a number is encoded as itself, with the
  same blanks and in the same hemisphere (`CoordinateBack`, `CoordinateStep`), and its rest as
  the DAO digit that it came from, or as the base-91 digit next to a decimal one. So what
  rounding there is has been done once. How far the first rounding goes is
  `WrittenNear`, `MidNear` and, with DAO, `WithDaoNear`, by arithmetic on each of the five
  ambiguities.
* *Compressed.* Four base-91 digits are one number (`Base91Is`) and `GridIs` takes it to
  its cell; what `encode.rs:305-306` truncates takes at most that cell's neighbour, so
  each relay adds at most one (`Kept` has the number of relays as a parameter).
* *Mic-E.* `RadioArrives` decodes the text of each radio, digit by digit and byte by byte.
* *Extensions.* A comment of any length is read extension by extension: motion
  in front, then the first altitude anywhere, then the last DAO (`CommentIs`, `DaoRead`,
  `TextSays`); what is left is trimmed (`ShownIsCut`, `CutIsTrimmed`), and what is
  left after several relays is still a trimming of the first comment (`CutAgain`). In the words that frap sends with an altitude
  of seven places, the last place becomes part of the comment. `MotionKept` and `TellsOn` show that what was read is
  sent on and read the same. A compressed course is a multiple of four within two
  degrees of the one that was meant, around the circle (`CourseNear`), and is then
  encoded as itself.

The theorems hold for all positions, radio positions and texts of other programs that
have the types in `ReportAssumption`: degrees, cells and comments are unbounded there,
as they are in what the sender is given.

**KissStuffing_proofs.** The invariant needs the history variable `marks`:
`WireIsStuffed` says that the stretch of the wire between two marks is the code of
one byte, `ReaderAtMark` that the reader always stands at a mark. From a mark the
reader takes exactly one code (`AtMark`, `UnstuffStep`), so it can neither see an
escape in data nor data in an escape. The theorems hold for frames of any length
over any set of bytes.

**Journey_proofs** covers KissFrame, Header, MessageText and Journey.

* One link. The frame of an accepted packet is a sequence of bytes (`Ax25IsFrame`: the
  checks of `ax25_parts` give each call an address cell, whose last byte holds three
  things apart by `SsidOctetIs`), so every step of KissFrame is
  a step of KissStuffing or leaves its variables alone: `KissFrameStuffs` is that
  refinement, and `KissRoundTrip` carries the theorems of byte stuffing over.
  `KissPacketComesBack` also finds the route again: the address list ends at the one
  address that is marked as the last (`FrameLayout`, `RouteIsFound`).
* Many links. `OnTheWay` says that each link carries a packet that a sender, a
  digipeater or a gateway can have made; with the invariant of the wire it is inductive,
  so the theorems of one link hold of each (`EveryLinkIsSound`,
  `EveryLinkReturnsThePacket`), and `JourneyLinksAndParserAgree` compares the checks of
  `ax25_parts` with those of the parser, call by call.
* `JourneyCopiesAreDuplicates` rests on `Copied`: the body on the way is the body that was
  sent behind some third-party headers, and the innermost header shows the calls that
  were sent, or as AX.25 writes them (`IsCopy`).
* `JourneyHopsAreCounted` rests on `Counted`: until a gateway wraps it, the route of a
  packet that was sent fresh shows every digipeater that has repeated it. Each adds one
  (`CountedStep`), and what AX.25 hides of an alias at 0 is what the property makes an
  exception of (`CountedHops`).
* `JourneyMessageComesBack` rests on `MessageReads`: for texts of any length, what
  `parse_message` makes of what `encode_message` made. `SplitIs` to `SplitAgain` are
  about a text that is joined at a brace, split at its first or last one and trimmed;
  `RejectionReads`, `AckReads`, `NumberReads` and `TextReads` take one branch of the
  encoder each, and show both directions: what is not named by `SpeaksForItself` is
  read as something else.

**FapDiff_proofs.** `DiffInv`: two pieces have been received for each packet that has
been counted, and more than were sent only if the child has failed (`CursorInv`); the
tally is that of the packets so far, field by field, unless a line was cut, in which
case no summary will come of it (`TallyInv`); the reports are on the disk before the
summary is written, and the summary is the old one until it is whole (`EndInv`,
`SummaryInv`). The dataset may grow meanwhile: an appended packet is none of those
counted (`GrowKeeps`).

What the proofs found. The proof about the time of day failed because `Timestamp` took
the minute from `a % 3600 \div 60`, which is `a % (3600 \div 60)` in TLA+; no run had
shown it. `Message` allowed two texts in one Option. Both were mistakes of the model,
and are corrected. That `MomentsAreRecovered` needs days from 26 before 1970 on came from
its proof. The proof of `RelaysKeepPosition` failed for DAO of an ambiguous position and
of a Mic-E weather report, which the code does not send on, and that of
`PositionComesBack` for a sender whose comment is itself an extension, such as DAO that
frap did not mean: both were stated without that exception, no run had such a text, and
MCPositionReport now has them.

Data. The library's induction theorems take an operator as a parameter, which no
installed prover can instantiate. Where a proof here needs induction it argues by a
least counterexample in a set of numbers (`UpTo`, `TextEnds`, `LastIs`, `FirstCell`), so
recursive functions such as `Total` could be reasoned about.

Only model-checked:

* liveness (`LinesAnswered`, `CallsReturn`, `CaptureEnds`, `ParseEnds`, `RunEnds`), since
  TLAPS has no proof of ENABLED and fairness.
## 5. What is not modelled

* `f64` as such. Angles are exact in PositionText, and the one place where the error of
  `f64` shows is a choice there. Readings of the weather scanner, altitudes and
  distances are not converted between units. `distance` and `direction` are formulas
  over `f64`, `aprs_passcode` one over bytes: neither has state or cases.
* Values that the parser only passes on: PHG and RNG digits, NMEA sentences, ULTW
  words, telemetry values, Mic-E message bits and Mic-E altitude. PacketParse has their
  routes, lengths and Options, not the numbers. The same holds for compressed bytes
  that mean an altitude or a radio range, which frap never sends.
* Which error a refused header gets; PacketParse has one choice between an error and a
  header, Header says which headers are refused.
* Destinations of messages that are not ASCII, which `encode_message` pads by
  characters.
* Numbers in a weather report that do not fit an `i32`.
* The wording of errors, reports and summaries, the percentiles of distances and the
  normalisation of comments that fap-diff prints, and a dataset whose last line is
  still being written.
* The command line of the examples, `dataset-bench`, `benches/`, `scripts/` and
  `tools/perl-fap-bench.pl`, which build other parsers and time one. FapDiff has the two
  runners in `tools/` as its child process, but not the parsers in them: what those
  make of a packet is given.
* The 2048 of `MAX_APRS_IS_LINE_BYTES` and the capacity of the `BufReader` are
  parameters; the sizes are small in the runs and arbitrary in the proofs.

## 6. Plan

Done, in this order: the client and its promise with their proofs (AprsIs,
LineStream), the loop and the sending half around it (Capture, SendLine), the
parser with its proofs (PacketParse), text, time and frames (TextRestore,
Timestamp, KissStuffing, KissFrame); then the weather scanner (WeatherScan),
messages and the way of a packet over several links (MessageText, Journey), the
comparison program (OutcomeDiff, FapDiff), positions (PositionText,
PositionReport) and the header (Header).

Then the proofs, a component at a time. Each safety invariant and each action property
of the passing runs has its theorem, and so has the refinement.

What could follow: `f64` in angles and readings, which needs a theory of floating
point that neither tool has; the parts of section 5; and liveness, once TLAPS can
prove ENABLED.
