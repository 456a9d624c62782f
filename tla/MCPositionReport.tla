-------------------------- MODULE MCPositionReport --------------------------
(***************************************************************************)
(* The instance of PositionReport that TLC checks: coordinates at zero, at *)
(* both limits and where rounding carries, with every precision; every     *)
(* kind of motion, altitude and comment; and texts of other programs, such *)
(* as no sender here makes.                                                *)
(***************************************************************************)
EXTENDS PositionReport, MCTimestamp

At(degrees, grains, negative) == [degrees |-> degrees, grains |-> grains, negative |-> negative]
Cell(cell) == [cell |-> cell, exact |-> FALSE]

Plain == [lat |-> At(51, 30 * Minute + 123457, FALSE), lon |-> At(3, 7 * Minute + 899999, TRUE),
          ambiguity |-> 0, dao |-> FALSE, compressed |-> FALSE, course |-> {}, speed |-> {},
          altitude |-> {}, table |-> "/", code |-> "-", comment |-> <<>>]
Dense == [Plain EXCEPT !.compressed = TRUE, !.lat = Cell(14665651), !.lon = Cell(33711951)]

Latitudes ==
  {At(0, 0, FALSE), At(0, 1, TRUE), At(9, 59 * Minute + 909999, FALSE),
   At(51, 34 * Minute + 45 * Hundredth + 8999, TRUE), At(89, 59 * Minute + 909454, FALSE),
   At(89, 59 * Minute + 909455, TRUE)}
Longitudes ==
  {At(0, 0, TRUE), At(9, 4 * Minute + 4550, FALSE), At(100, 59 * Minute + 905000, TRUE),
   At(110, 10 * Minute + 77777, FALSE), At(179, 59 * Minute + 909454, TRUE),
   At(180, 0, FALSE)}

Motions == {<<{}, {}>>, <<{0}, {3}>>, <<{1}, {0}>>, <<{90}, {}>>, <<{}, {7}>>, <<{181}, {99}>>,
            <<{358}, {40}>>, <<{360}, {1000}>>, <<{361}, {5}>>, <<{45}, {-1}>>}
Altitudes == {{}, {0}, {-1}, {-99999}, {-100000}, {999999}, {1000000}}
Comments == {<<>>, <<Words>>, <<Motion(45, 6)>>, <<Words, Altitude(7), Words>>, <<White, Slash>>,
             <<Slash, Words>>, <<Slash, White, Slash, Words, White>>, <<White, Telemetry, Motion(9, 9)>>}
DaoComments == {<<Dao("base91", 3, 90)>>, <<Words, Dao("decimal", 9, 0)>>}

Exactness == ((0 .. 4) \X {FALSE}) \cup {<<0, TRUE>>, <<1, TRUE>>}
Symbols == {<<"1", "-">>, <<"b", "-">>, <<"/", "_">>, <<"/", "}">>}

SomePositions ==
  {[Plain EXCEPT !.lat = lat, !.lon = lon, !.ambiguity = e[1], !.dao = e[2]] :
     lat \in Latitudes, lon \in Longitudes, e \in Exactness}
  \cup {[Dense EXCEPT !.lat = Cell(lat), !.lon = Cell(lon)] :
          lat \in {2, 3, 91, 34283340, 68566676}, lon \in {1, 8280, 753571, 68566678, 68566679}}
  \cup {[p EXCEPT !.course = m[1], !.speed = m[2], !.altitude = a] :
          p \in {Plain, Dense}, m \in Motions, a \in Altitudes}
  \cup {[p EXCEPT !.comment = c, !.altitude = a] :
          p \in {Plain, [Plain EXCEPT !.dao = TRUE]}, c \in Comments \cup DaoComments, a \in {{}, {12}}}
  \cup {[Dense EXCEPT !.comment = c, !.altitude = a] : c \in Comments, a \in {{}, {12}}}
  \cup {[p EXCEPT !.table = s[1], !.code = s[2], !.course = {90}, !.speed = {7}] :
          p \in {Plain, Dense, [Plain EXCEPT !.dao = TRUE]}, s \in Symbols}
  \cup {[Dense EXCEPT !.dao = TRUE], [Dense EXCEPT !.ambiguity = 1], [Plain EXCEPT !.ambiguity = 5]}
  \cup {[Plain EXCEPT !.ambiguity = a, !.dao = dao, !.comment = c] :
          a \in {1, 4}, dao \in BOOLEAN, c \in DaoComments}

MiceRadios ==
  {[Plain EXCEPT !.lat = lat, !.lon = lon, !.ambiguity = a, !.course = {0}, !.speed = {0}] :
     lat \in Latitudes, lon \in Longitudes \ {At(180, 0, FALSE)}, a \in 0 .. 4}
  \cup {[Plain EXCEPT !.course = {c}, !.speed = {s}] :
          c \in {0, 1, 99, 100, 299, 360}, s \in {0, 9, 10, 199, 200, 799}}

\* Digits and blanks of uncompressed text, in an order that no sender has.
Minutes == {<<7, 9, 9, 9>>, <<1, 2, Blank, Blank>>, <<1, Blank, 3, 4>>, <<8, 0, 0, 0>>,
            <<Blank, Blank, Blank, Blank>>, <<6, 5, 4, Blank>>}
Degrees(d, digits) == [degrees |-> d, digits |-> digits, negative |-> TRUE]

DoubleDao == <<Dao("base91", 90, 1), Words, Dao("decimal", 9, 4)>>
\* The second telemetry is behind DAO, and what is left begins with a course.
DoubleTelemetry == <<Telemetry, White, Motion(5, 5), Dao("base91", 1, 90), Telemetry, White>>

OtherTexts ==
  {[form |-> "uncompressed", table |-> "/", code |-> "-", lat |-> Degrees(lat, d), lon |-> Degrees(lon, e),
    rest |-> <<>>] : lat \in {7, 89, 90}, lon \in {179, 180}, d \in Minutes, e \in Minutes}
  \cup {[form |-> "uncompressed", table |-> "/", code |-> "-",
         lat |-> Degrees(7, <<1, 2, 3, 4>>), lon |-> Degrees(7, <<1, 2, 3, 4>>),
         rest |-> <<Dao("decimal", d, 9 - d)>>] : d \in 0 .. 9}
  \cup {[form |-> "uncompressed", table |-> "/", code |-> code,
         lat |-> Degrees(0, d), lon |-> Degrees(7, d), rest |-> rest] :
           code \in {"-", "_"}, rest \in {DoubleDao, DoubleTelemetry}, d \in {<<0, 0, 0, 0>>, <<7, 9, 9, Blank>>, <<7, 9, Blank, Blank>>}}
  \cup {[form |-> "compressed", table |-> "a", code |-> "-", lat |-> d, lon |-> e, rest |-> <<>>,
         course |-> 90, speed |-> 0] :
           d \in {<<0, 0, 0, 4>>, <<90, 90, 90, 90>>}, e \in {<<0, 0, 0, 2>>, <<0, 0, Blank91, 0>>}}
  \cup {[form |-> "mice", table |-> "/", code |-> code, rest |-> rest, north |-> FALSE, west |-> TRUE,
         far |-> FALSE, digits |-> d, bytes |-> <<118, 88, 28, 28, 28, 28>>] :
           code \in {"-", "_"}, rest \in {DoubleDao, DoubleTelemetry}, d \in {<<0, 0, 0, 0, 0, 0>>, <<8, 9, 9, 9, 9, Blank>>}}
  \cup {[form |-> "mice", table |-> "/", code |-> "-", rest |-> <<>>, north |-> TRUE, west |-> FALSE,
         far |-> far, digits |-> d, bytes |-> <<a, b, 28, c, e, c>>] :
           d \in {<<9, 9, 9, 9, 9, 9>>, <<0, 1, 9, Blank, Blank, 9>>, <<1, Blank, Blank, Blank, Blank, Blank>>,
                  <<8, 9, 9, 9, Blank, Blank>>, <<4, 9, 1, 2, 3, 4>>},
           far \in BOOLEAN, a \in {27, 28, 117, 118, 127}, b \in {27, 88, 127}, c \in {0, 28, 127},
           e \in {0, 27, 127}}

FirstDay == [day |-> 0, second |-> 0]

\* The timestamps of MCTimestamp, and a report that has none.
TextsOrNone == Texts \cup {NoText}

=============================================================================
