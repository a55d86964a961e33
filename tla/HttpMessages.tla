---------------------------- MODULE HttpMessages ----------------------------
(***************************************************************************)
(* HTTP messages as they cross a TCP connection (src/src/http.cpp).  A     *)
(* message is cut into pieces, each of which travels whole:                *)
(*   "line"  the first line and some of the headers,                       *)
(*   "end"   the other headers with the empty line that ends them,         *)
(*   "body"  the body, if there is one.                                    *)
(* A piece carries the number n of the request it belongs to, the length   *)
(* of the body, and the result: of its route for a request, the status for *)
(* a response.                                                             *)
(***************************************************************************)
EXTENDS Naturals, Sequences, SequencesExt

Results == {"OK", "NOT_FOUND", "INTERNAL_SERVER_ERROR", "BAD_REQUEST"}

Piece(n, part, len, result) ==
    [n |-> n, part |-> part, len |-> len, result |-> result]

\* request::serialize() and response::serialize(): Content-Length is added when
\* there is a body, the length is 0 otherwise.
Serialize(n, len, result) ==
    <<Piece(n, "line", len, result), Piece(n, "end", len, result)>>
        \o (IF len > 0 THEN <<Piece(n, "body", len, result)>> ELSE <<>>)

Ends(buffer) == {i \in DOMAIN buffer : buffer[i].part = "end"}

\* has_complete_headers()
HasCompleteHeaders(buffer) == Ends(buffer) # {}

\* The position of the first empty line: buffer.find("\r\n\r\n").
HeaderEnd(buffer) == CHOOSE i \in Ends(buffer) : \A j \in Ends(buffer) : i <= j

\* deserialize() finds a request line, and not the middle of some message.
Parses(buffer) == buffer[1].part = "line"

\* get_content_length() of what deserialize() returns.  serialize() writes this
\* header last.
ContentLength(buffer) == buffer[HeaderEnd(buffer)].len

\* Mutant: the body is complete one byte too late.
HasCompleteBody_TooLate(buffer) == Len(buffer) - HeaderEnd(buffer) > ContentLength(buffer)

\* current_body_length >= content_length, in pieces.
HasCompleteBody(buffer) == Len(buffer) - HeaderEnd(buffer) >= ContentLength(buffer)

\* The body of deserialize() is the rest of the stream, whatever its length.
Body(buffer) == SubSeq(buffer, HeaderEnd(buffer) + 1, Len(buffer))

\* Nothing but the body that the message was sent with.
WholeBody(buffer) ==
    Body(buffer) = IF buffer[1].len > 0
                   THEN <<[buffer[1] EXCEPT !.part = "body"]>> ELSE <<>>
=============================================================================
