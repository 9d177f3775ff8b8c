---------------------------------- MODULE Framing ----------------------------------
(***************************************************************************)
(* Where one request ends and the next begins: getBodySize, hasRequest and *)
(* getRequest of Connection, which search originalRequest_, and the part   *)
(* of RequestParser that separates the body and trims it.                  *)
(*                                                                         *)
(* A buffer is a sequence of tokens, and every token counts as one byte:   *)
(*   "line"  the request line and the fields that are of no interest here, *)
(*   "CL"    the text "Content-Length:",                                   *)
(*   "num"   the number after it, v is its value,                          *)
(*   "CRLF"  an end of line; two of them in a row end the header,          *)
(*   "byte"  a byte of the body, v is its position.                        *)
(* The field "of" tells which request a token was written for. No operator *)
(* of the code looks at it, the properties do.                             *)
(***************************************************************************)
EXTENDS Integers, Sequences

CONSTANT SizeModulus   \* size_t counts modulo this, 2^64 in the build

ASSUME SizeAssumption == SizeModulus \in Nat \ {0}

Token == [t: {"line", "CL", "num", "CRLF", "byte"}, of: Nat, v: Int]

npos == 0

\* std::string::find: the first of the positions where the text is found.
find(S) == IF S = {} THEN npos ELSE CHOOSE p \in S : \A q \in S : p <= q

CrlfAt(buf) == {p \in DOMAIN buf : buf[p].t = "CRLF"}

headerEnd(buf) == find({p \in CrlfAt(buf) : p + 1 \in CrlfAt(buf)})

\* A mutated form: the field that comes last is taken.
contentLengthLast(buf) ==
    LET S == {p \in DOMAIN buf : buf[p].t = "CL"}
    IN  IF S = {} THEN npos ELSE CHOOSE p \in S : \A q \in S : q <= p

\* The field is looked for in the whole buffer and not in one header.
contentLengthPos(buf) == find({p \in DOMAIN buf : buf[p].t = "CL"})

lengthEnd(buf) == find({p \in CrlfAt(buf) : p > contentLengthPos(buf)})

\* atoi of the text between the field's name and the end of its line or of the buffer.
atoi(buf) ==
    LET p == contentLengthPos(buf) + 1
    IN  IF p \in DOMAIN buf /\ buf[p].t = "num" THEN buf[p].v ELSE 0

\* The tokens up to and with the empty line: bodyStart, contentStart.
bodyStart(buf) == headerEnd(buf) + 1

getBodySize(buf) ==
    IF \/ headerEnd(buf) = npos \/ contentLengthPos(buf) = npos
       \/ lengthEnd(buf) = npos \/ atoi(buf) < 0
    THEN 0 ELSE atoi(buf)

\* The sum is one of size_t: a negative number makes it wrap.
hasRequest(buf) ==
    /\ headerEnd(buf) # npos
    /\ contentLengthPos(buf) # npos =>
          Len(buf) >= (bodyStart(buf) + atoi(buf)) % SizeModulus

\* getRequest, asked only when hasRequest holds, throws a runtime_error.
getRequestThrows(buf) ==
    contentLengthPos(buf) # npos /\ (lengthEnd(buf) = npos \/ atoi(buf) < 0)

\* A mutated form: everything received so far is taken.
wholeBuffer(buf) == Len(buf)

totalRequestSize(buf) ==
    bodyStart(buf) + (IF contentLengthPos(buf) = npos THEN 0 ELSE atoi(buf))

getRequest(buf) == SubSeq(buf, 1, totalRequestSize(buf))
remainder(buf)  == SubSeq(buf, totalRequestSize(buf) + 1, Len(buf))

(* RequestParser::parseRequestHeader, for a request that getRequest returned. *)

headerPart(request) == SubSeq(request, 1, headerEnd(request) - 1)

\* The request line is damaged when the request does not begin with one. A line is one
\* token, so no request begins inside one, and one that begins with bytes of a body is
\* answered 400 even if a line is behind them. The code takes the first word there is for
\* the method, and what is no method for DELETE ("ST /x HTTP/1.1").
badRequestLine(request) == headerPart(request) = <<>> \/ request[1].t # "line"

\* parseHeaders reads the number with stoiSafe, and reads the header only.
contentLength(request) == atoi(headerPart(request))

\* A mutated form: one byte less of the body.
resizeShort(request) ==
    SubSeq(request, bodyStart(request) + 1, bodyStart(request) + contentLength(request) - 1)

\* A mutated form: the header goes with the body.
wholeRequest(request) == request

\* What follows the header, cut down to contentLength.
requestBody(request) ==
    SubSeq(request, bodyStart(request) + 1,
           IF Len(request) - bodyStart(request) > contentLength(request)
           THEN bodyStart(request) + contentLength(request) ELSE Len(request))
=============================================================================
