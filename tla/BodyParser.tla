----------------------------- MODULE BodyParser -----------------------------
(***************************************************************************)
(* How AsyncWebServerRequest reads the body of a request, a byte at a time *)
(* (ESPAsyncWebServer, WebRequest.cpp): multipart/form-data with files and *)
(* application/x-www-form-urlencoded, into parameters and uploads.         *)
(*                                                                         *)
(* A byte is a string.  The line of a header that names a part is one      *)
(* byte, the name itself; so is the line "Content-Type", which a file has. *)
(***************************************************************************)
EXTENDS Integers, Sequences, SequencesExt

CONSTANTS
  Boundary,    \* what separates the parts
  BufferSize,  \* bytes of an upload given to the handler at once
  FileNames    \* function: a part's name to its file's, or to NoFile

CR == "\r"
LF == "\n"
CRLF == <<CR, LF>>
Space == " "
Quote == "\""
Backslash == "\\"
Dash == "-"
NoFile == ""
ContentType == "Content-Type"

ASSUME BodyAssumption ==
  /\ Boundary \in Seq(STRING) /\ Boundary # <<>>
  /\ CR \notin ToSet(Boundary)
  /\ BufferSize \in Nat \ {0}
  /\ DOMAIN FileNames \subseteq STRING \ {CR, LF, ContentType}

MultiStates == {"EXPECT_BOUNDARY", "PARSE_HEADERS", "WAIT_FOR_RETURN1", "EXPECT_FEED1", "EXPECT_DASH1",
                "EXPECT_DASH2", "BOUNDARY_OR_DATA", "DASH3_OR_RETURN2", "EXPECT_FEED2",
                "PARSING_FINISHED", "PARSE_ERROR"}

\* parsed and length are _parsedLength and _contentLength, at is
\* _boundaryPosition, size, value and buffer are those of the item.
NewParser(length) ==
  [state |-> "EXPECT_BOUNDARY", parsed |-> 0, length |-> length, temp |-> <<>>, at |-> 0,
   name |-> <<>>, isFile |-> FALSE, size |-> 0, value |-> <<>>, buffer |-> <<>>,
   params |-> <<>>, uploads |-> <<>>]

-----------------------------------------------------------------------------
(* Percent encoding.                                                       *)

HexDigits ==
  [c \in {"&", "=", "+", "%", Space, "#", Quote, Backslash} |->
     CASE c = "&" -> <<"2", "6">> [] c = "=" -> <<"3", "D">> [] c = "+" -> <<"2", "B">>
       [] c = "%" -> <<"2", "5">> [] c = Space -> <<"2", "0">> [] c = "#" -> <<"2", "3">>
       [] c = Quote -> <<"2", "2">> [] c = Backslash -> <<"5", "C">>]

\* strtol of two characters that are no hexadecimal number: some other byte.
FromHex(digits) ==
  IF \E c \in DOMAIN HexDigits : HexDigits[c] = digits
  THEN CHOOSE c \in DOMAIN HexDigits : HexDigits[c] = digits
  ELSE "other"

urlDecode(text) ==
  LET decoded[i \in 1..(Len(text) + 1)] ==
        IF i > Len(text) THEN <<>>
        ELSE IF text[i] = "%" /\ i + 2 <= Len(text)
             THEN <<FromHex(SubSeq(text, i + 1, i + 2))>> \o decoded[i + 3]
             ELSE <<IF text[i] = "+" THEN Space ELSE text[i]>> \o decoded[i + 1]
  IN  decoded[1]

\* Where c first is in text, or past its end.
IndexOf(text, c) ==
  LET at == {i \in DOMAIN text : text[i] = c}
  IN  IF at = {} THEN Len(text) + 1 ELSE CHOOSE i \in at : \A j \in at : i <= j

Parameter(name, value, kind) == [name |-> name, value |-> value, kind |-> kind]

-----------------------------------------------------------------------------
(* application/x-www-form-urlencoded.                                      *)

\* _parsePlainPostChar.  A value ends with "&" or with the body; one without
\* a name, and one that begins as JSON does, is called body.
PlainPostChar(p, c) ==
  LET temp == IF c = "&" THEN p.temp ELSE p.temp \o <<c>>
      equal == IndexOf(temp, "=")
      named == equal \in 2..Len(temp) /\ temp[1] \notin {"{", "["}
      parsed == p.parsed + 1
  IN  IF c # "&" /\ parsed # p.length THEN [p EXCEPT !.parsed = parsed, !.temp = temp]
      ELSE [p EXCEPT !.parsed = parsed, !.temp = <<>>,
              !.params = Append(@, IF named THEN Parameter(urlDecode(SubSeq(temp, 1, equal - 1)),
                                                           urlDecode(SubSeq(temp, equal + 1, Len(temp))), "post")
                                   ELSE Parameter(<<"body">>, urlDecode(temp), "post"))]

-----------------------------------------------------------------------------
(* multipart/form-data.                                                    *)

\* Mutant of Upload: the place after the data, not before it.
UploadAfter(p, data, final) == [name |-> p.name, index |-> p.size, data |-> data, final |-> final]

Upload(p, data, final) ==
  [name |-> p.name, index |-> p.size - Len(data), data |-> data, final |-> final]

\* A byte of the item: of a value, or of a file, which is given to the
\* handler when the buffer or the segment ends.
WriteByte(p, c, last) ==
  IF ~p.isFile THEN [p EXCEPT !.size = @ + 1, !.value = Append(@, c)]
  ELSE LET q == [p EXCEPT !.size = @ + 1, !.buffer = Append(@, c)]
       IN  IF last \/ Len(q.buffer) = BufferSize
           THEN [q EXCEPT !.uploads = Append(@, Upload(q, q.buffer, FALSE)), !.buffer = <<>>]
           ELSE q

Write(p, bytes, last) ==
  LET written[n \in 0..Len(bytes)] == IF n = 0 THEN p ELSE WriteByte(written[n - 1], bytes[n], last)
  IN  written[Len(bytes)]

To(p, state) == [p EXCEPT !.state = state]
Value(p, c, last) == IF c = CR THEN To(p, "EXPECT_FEED1") ELSE WriteByte(p, c, last)

\* Mutant of NoBoundary: the byte that did not fit is taken as data at once.
NoBoundaryAtOnce(p, bytes, c, last) == WriteByte(Write(To(p, "WAIT_FOR_RETURN1"), bytes, last), c, last)

\* What looked like a boundary was data, and c is looked at anew.
NoBoundary(p, bytes, c, last) == Value(Write(To(p, "WAIT_FOR_RETURN1"), bytes, last), c, last)

FirstBoundary(p, c) ==
  LET n == Len(Boundary)
      wrong == \/ p.parsed < 2 /\ c # Dash
               \/ p.parsed \in 2..(n + 1) /\ Boundary[p.parsed - 1] # c
               \/ p.parsed = n + 2 /\ c # CR
               \/ p.parsed = n + 3 /\ c # LF
  IN  CASE wrong -> To(p, "PARSE_ERROR")
        [] ~wrong /\ p.parsed = n + 3 -> [To(p, "PARSE_HEADERS") EXCEPT !.isFile = FALSE]
        [] OTHER -> p

\* A line of the header, or the empty one the item follows.  memory says
\* whether there is any for the buffer of a file.
Header(p, c, memory) ==
  IF c \notin {CR, LF} THEN [p EXCEPT !.temp = Append(@, c)]
  ELSE CASE c = CR -> p
         [] c = LF /\ p.temp = <<ContentType>> -> [p EXCEPT !.temp = <<>>, !.isFile = TRUE]
         [] c = LF /\ p.temp \notin {<<>>, <<ContentType>>} ->
              [p EXCEPT !.temp = <<>>, !.name = p.temp, !.isFile = @ \/ FileNames[p.temp[1]] # NoFile]
         [] OTHER -> [To(p, IF p.isFile /\ ~memory THEN "PARSE_ERROR" ELSE "WAIT_FOR_RETURN1") EXCEPT
                        !.size = 0, !.value = <<>>, !.buffer = <<>>]

\* The item is complete; of a file without a byte nobody hears.
ItemDone(p) ==
  IF ~p.isFile THEN [p EXCEPT !.params = Append(@, Parameter(p.name, p.value, "post"))]
  ELSE IF p.size = 0 THEN p
       ELSE [p EXCEPT !.uploads = Append(@, Upload(p, p.buffer, TRUE)), !.buffer = <<>>,
                      !.params = Append(@, Parameter(p.name, <<FileNames[p.name[1]]>>, "file"))]

BoundaryOrData(p, c, last) ==
  IF Boundary[p.at + 1] # c
  THEN NoBoundary(p, <<CR, LF, Dash, Dash>> \o SubSeq(Boundary, 1, p.at), c, last)
  ELSE IF p.at = Len(Boundary) - 1 THEN ItemDone(To(p, "DASH3_OR_RETURN2"))
       ELSE [p EXCEPT !.at = @ + 1]

\* No browser sends a boundary inside an item, so the other case does not arise.
\* With the first dash after it a boundary is the last one, and the body is
\* taken to end three bytes later whatever its length was said to be.
AfterBoundary(p, c, last) ==
  LET q == IF c = Dash THEN [p EXCEPT !.length = p.parsed + 4] ELSE p
  IN  CASE c = CR -> To(q, "EXPECT_FEED2")
        [] c = Dash -> To(q, "PARSING_FINISHED")
        [] OTHER -> NoBoundary(q, <<CR, LF, Dash, Dash>> \o Boundary, c, last)

\* _parseMultipartPostByte; last: the byte is the last of its segment.
MultipartByte(p, c, last, memory) ==
  LET q == CASE p.state = "WAIT_FOR_RETURN1" -> Value(p, c, last)
             [] p.state = "EXPECT_BOUNDARY" -> FirstBoundary(p, c)
             [] p.state = "PARSE_HEADERS" -> Header(p, c, memory)
             [] p.state = "EXPECT_FEED1" ->
                  IF c = LF THEN To(p, "EXPECT_DASH1") ELSE NoBoundary(p, <<CR>>, c, last)
             [] p.state = "EXPECT_DASH1" ->
                  IF c = Dash THEN To(p, "EXPECT_DASH2") ELSE NoBoundary(p, CRLF, c, last)
             [] p.state = "EXPECT_DASH2" ->
                  IF c = Dash THEN [To(p, "BOUNDARY_OR_DATA") EXCEPT !.at = 0]
                  ELSE NoBoundary(p, CRLF \o <<Dash>>, c, last)
             [] p.state = "BOUNDARY_OR_DATA" -> BoundaryOrData(p, c, last)
             [] p.state = "DASH3_OR_RETURN2" -> AfterBoundary(p, c, last)
             [] p.state = "EXPECT_FEED2" ->
                  IF c = LF THEN [To(p, "PARSE_HEADERS") EXCEPT !.isFile = FALSE]
                  ELSE NoBoundary(p, <<CR, LF, Dash, Dash>> \o Boundary \o <<CR>>, c, last)
             [] OTHER -> p
  IN  [q EXCEPT !.parsed = @ + 1]

=============================================================================
