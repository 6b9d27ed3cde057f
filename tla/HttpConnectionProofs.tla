------------------------- MODULE HttpConnectionProofs -------------------------
(***************************************************************************)
(* Theorems about HttpConnection: its types for every network, and, where  *)
(* the network cuts a request only where the server can take it, that the  *)
(* requests are answered one by one and rightly.                           *)
(***************************************************************************)
EXTENDS HttpConnection, SequenceTheorems, WellFoundedInduction, TLAPS

ParserState == {"RequestLine", "Headers", "Body", "Done"}

\* The pieces of the first n requests, and what comes of them.
Piece(n) == [req : 1 .. n, part : PartName]
Parsing(n) == [line : 0 .. n, fields : 0 .. n, body : Seq(Piece(n))]
Outcome(n) == [result : {"OK", "INCOMPLETE", "BAD_REQUEST", "throw"}, state_ : ParserState,
               content_length_ : Nat, request : Parsing(n), rest : Seq(Piece(n))]
Connection(n) == [input : Seq(Piece(n)), state_ : ParserState, content_length_ : Nat,
                  output : Answer \cup {None}, close_connection_ : BOOLEAN,
                  closing_ : BOOLEAN, armed : {None, "EPOLLIN", "EPOLLOUT"}]

-----------------------------------------------------------------------------
(* Sequences                                                               *)

LEMMA FindNone ==
    ASSUME NEW S, NEW in \in Seq(S), NEW parts,
           \A i \in 1 .. Len(in) : in[i].part \notin parts
    PROVE  Find(in, parts) = 0
  BY DEF Find, SelectInSeq

LEMMA FindFirst ==
    ASSUME NEW S, NEW in \in Seq(S), NEW parts, NEW n \in 1 .. Len(in),
           in[n].part \in parts, \A i \in 1 .. n - 1 : in[i].part \notin parts
    PROVE  Find(in, parts) = n
  <1> DEFINE I == {i \in 1 .. Len(in) : in[i].part \in parts}
  <1>1. Find(in, parts) = IF I # {} THEN Min(I) ELSE 0
    BY DEF Find, SelectInSeq
  <1>2. n \in I /\ \A i \in I : n <= i
    OBVIOUS
  <1>3. Min(I) = n
    <2>1. \A i \in I : (\A j \in I : i <= j) => i = n
      BY <1>2
    <2> QED
      BY <1>2, <2>1 DEF Min
  <1> QED
    BY <1>1, <1>2, <1>3

LEMMA LeastElement ==
    ASSUME NEW T \in SUBSET Nat, T # {}
    PROVE  \E m \in T : \A n \in T : m <= n
  <1> DEFINE R == OpToRel(<, Nat)
  <1>1. PICK m \in T : \A n \in T : <<n, m>> \notin R
    BY NatLessThanWellFounded, WFMin
  <1>2. \A n \in T : ~(n < m)
    BY <1>1 DEF OpToRel
  <1> QED
    BY <1>2

LEMMA FindType ==
    ASSUME NEW S, NEW in \in Seq(S), NEW parts
    PROVE  /\ Find(in, parts) \in 0 .. Len(in)
           /\ Find(in, parts) # 0 => in[Find(in, parts)].part \in parts
  <1> DEFINE I == {i \in 1 .. Len(in) : in[i].part \in parts}
  <1>1. CASE I = {}
    BY <1>1, FindNone
  <1>2. CASE I # {}
    <2>1. PICK n \in I : \A i \in I : n <= i
      <3>1. I \in SUBSET Nat
        OBVIOUS
      <3> HIDE DEF I
      <3> QED
        BY <3>1, <1>2, LeastElement
    <2>2. \A i \in 1 .. n - 1 : in[i].part \notin parts
      BY <2>1
    <2>3. Find(in, parts) = n
      BY <2>1, <2>2, FindFirst
    <2> QED
      BY <2>1, <2>3
  <1> QED
    BY <1>1, <1>2

LEMMA RestType ==
    ASSUME NEW S, NEW s \in Seq(S), NEW n \in 0 .. Len(s)
    PROVE  /\ Rest(s, n) \in Seq(S) /\ Len(Rest(s, n)) = Len(s) - n
           /\ \A i \in 1 .. Len(s) - n : Rest(s, n)[i] = s[n + i]
  BY SubSeqProperties DEF Rest

\* The empty line is not the first piece.
LEMMA EndOfFieldsType ==
    ASSUME NEW S, NEW in \in Seq(S)
    PROVE  EndOfFields(in) \in 0 .. Len(in) /\ EndOfFields(in) # 1
  <1> DEFINE n == Find(Rest(in, 1), {"end", "blank"})
  <1>1. EndOfFields(in) = IF n = 0 THEN 0 ELSE n + 1
    BY DEF EndOfFields
  <1>2. Len(in) \in Nat
    OBVIOUS
  <1>3. CASE Len(in) = 0
    <2>1. Rest(in, 1) = <<>> /\ <<>> \in Seq(S)
      BY <1>3, SubSeqEmpty, EmptySeq DEF Rest
    <2>2. n = 0
      <3>1. \A i \in 1 .. Len(Rest(in, 1)) : Rest(in, 1)[i].part \notin {"end", "blank"}
        BY <2>1
      <3> QED
        BY <2>1, <3>1, FindNone
    <2> QED
      BY <1>1, <1>2, <2>2
  <1>4. CASE Len(in) # 0
    <2>1. Rest(in, 1) \in Seq(S) /\ Len(Rest(in, 1)) = Len(in) - 1
      <3>1. 1 \in 0 .. Len(in)
        BY <1>2, <1>4
      <3> QED
        BY <3>1, RestType
    <2>2. n \in 0 .. Len(in) - 1
      BY <2>1, FindType
    <2> HIDE DEF n
    <2> QED
      BY <1>1, <1>2, <2>2
  <1> QED
    BY <1>3, <1>4

-----------------------------------------------------------------------------
(* Types                                                                   *)

LEMMA RequestType ==
    /\ Request \subseteq [kind : Kinds, keep : BOOLEAN, body : Nat]
    /\ \A r \in Request : /\ r.kind \in {"bad", "bad_query", "no_fields"} => r.body = 0
                          /\ r.kind = "undecodable" => r.body > 0
                          /\ r.kind \in {"plain", "bad", "bad_query", "no_host", "no_fields",
                                        "undecodable"}
  BY ConnectionAssumption DEF Request

LEMMA PieceAt ==
    ASSUME NEW n, NEW in \in Seq(Piece(n)), NEW i \in 1 .. Len(in)
    PROVE  in[i].req \in 1 .. n /\ in[i].part \in PartName
  <1>1. in[i] \in Piece(n)
    OBVIOUS
  <1> QED
    BY <1>1 DEF Piece

LEMMA ParseBodyType ==
    ASSUME NEW n \in Nat, NEW in \in Seq(Piece(n)), NEW length \in Nat,
           NEW request \in Parsing(n)
    PROVE  /\ ParseBody(in, length, request) \in Outcome(n)
           /\ Len(ParseBody(in, length, request).rest) <= Len(in)
  <1>1. CASE Len(in) >= length
    <2> DEFINE body == SubSeq(in, 1, length)
    <2>1. Rest(in, length) \in Seq(Piece(n)) /\ Len(Rest(in, length)) <= Len(in)
      BY <1>1, RestType
    <2>2. body \in Seq(Piece(n))
      BY <1>1, SubSeqProperties
    <2>3. [request EXCEPT !.body = body] \in Parsing(n)
      BY <2>2 DEF Parsing
    <2>4. ParseBody(in, length, request) \in
              {Parsed("throw", "Body", length, request, in),
               Parsed("OK", "Done", length, [request EXCEPT !.body = body], Rest(in, length))}
      BY <1>1 DEF ParseBody
    <2> HIDE DEF body
    <2> QED
      BY <2>1, <2>3, <2>4 DEF Parsed, Outcome, ParserState
  <1>2. CASE Len(in) < length
    BY <1>2 DEF ParseBody, Parsed, Outcome, ParserState
  <1> QED
    BY <1>1, <1>2

LEMMA ParseHeadersType ==
    ASSUME asked \in Seq(Request), NEW in \in Seq(Piece(Len(asked))), NEW length \in Nat,
           NEW request \in Parsing(Len(asked))
    PROVE  /\ ParseHeaders(in, length, request) \in Outcome(Len(asked))
           /\ Len(ParseHeaders(in, length, request).rest) <= Len(in)
  <1> DEFINE n == EndOfFields(in)
             fields == IF n < 2 \/ in[n - 1].part # "fields" \/ in[1].part = "blank" THEN 0
                       ELSE in[n].req
             announced == IF fields = 0 THEN 0 ELSE asked[fields].body
             seen == [request EXCEPT !.fields = fields]
  <1>1. ParseHeaders(in, length, request) =
            IF n = 0 THEN Parsed("INCOMPLETE", "Headers", length, request, in)
            ELSE IF announced = 0 THEN Parsed("OK", "Done", 0, seen, Rest(in, n))
            ELSE ParseBody(Rest(in, n), announced, seen)
    BY DEF ParseHeaders
  <1>2. n \in 0 .. Len(in) /\ Len(asked) \in Nat
    BY EndOfFieldsType
  <1>3. fields \in 0 .. Len(asked)
    <2>1. n # 0 => in[n].req \in 1 .. Len(asked)
      BY <1>2, PieceAt
    <2> QED
      BY <1>2, <2>1
  <1>4. announced \in Nat
    <2>1. fields # 0 => asked[fields] \in Request
      BY <1>3
    <2> QED
      BY <2>1, RequestType
  <1>5. seen \in Parsing(Len(asked))
    BY <1>3 DEF Parsing
  <1>6. Rest(in, n) \in Seq(Piece(Len(asked))) /\ Len(Rest(in, n)) <= Len(in)
    BY <1>2, RestType
  <1> HIDE DEF n, fields, announced, seen
  <1>7. CASE n = 0
    BY <1>1, <1>7 DEF Parsed, Outcome, ParserState
  <1>8. CASE n # 0 /\ announced = 0
    BY <1>1, <1>5, <1>6, <1>8 DEF Parsed, Outcome, ParserState
  <1>9. CASE n # 0 /\ announced # 0
    <2>1. /\ ParseBody(Rest(in, n), announced, seen) \in Outcome(Len(asked))
          /\ Len(ParseBody(Rest(in, n), announced, seen).rest) <= Len(Rest(in, n))
      BY <1>2, <1>4, <1>5, <1>6, ParseBodyType
    <2>2. Len(ParseBody(Rest(in, n), announced, seen).rest) \in Nat
      BY <2>1 DEF Outcome
    <2> QED
      BY <1>1, <1>6, <1>9, <2>1, <2>2
  <1> QED
    BY <1>7, <1>8, <1>9

LEMMA ParseType ==
    ASSUME asked \in Seq(Request), NEW c \in Connection(Len(asked))
    PROVE  /\ Parse(c) \in Outcome(Len(asked))
           /\ Len(Parse(c).rest) <= Len(c.input)
  <1> DEFINE in == c.input
             length == c.content_length_
             n == Find(in, {"line", "fields", "end", "blank"})
             line == [NoRequest EXCEPT !.line = in[1].req]
  <1>1. in \in Seq(Piece(Len(asked))) /\ length \in Nat /\ c.state_ \in ParserState
    BY DEF Connection
  <1>2. NoRequest \in Parsing(Len(asked))
    BY EmptySeq DEF NoRequest, Parsing
  <1>3. CASE c.state_ = "RequestLine" /\ n = 2 /\ Parse(c) = ParseHeaders(Rest(in, 2), length, line)
    <2>1. 2 \in 0 .. Len(in)
      BY <1>1, <1>3, FindType
    <2>2. Rest(in, 2) \in Seq(Piece(Len(asked))) /\ Len(Rest(in, 2)) = Len(in) - 2
      BY <1>1, <2>1, RestType
    <2>3. in[1].req \in 1 .. Len(asked)
      BY <1>1, <2>1, PieceAt
    <2>4. line \in Parsing(Len(asked))
      BY <1>2, <2>3 DEF Parsing
    <2>5. /\ Parse(c) \in Outcome(Len(asked))
          /\ Len(Parse(c).rest) <= Len(Rest(in, 2))
      BY <1>1, <1>3, <2>2, <2>4, ParseHeadersType
    <2> QED
      BY <1>1, <2>1, <2>2, <2>5 DEF Outcome
  <1>4. CASE c.state_ = "RequestLine" /\ Parse(c) \in
            {Parsed(r, "RequestLine", length, NoRequest, in) : r \in {"INCOMPLETE", "BAD_REQUEST", "throw"}}
    BY <1>1, <1>2, <1>4 DEF Parsed, Outcome, ParserState
  <1>5. CASE c.state_ = "Headers"
    <2>1. Parse(c) = ParseHeaders(in, length, NoRequest)
      BY <1>5 DEF Parse
    <2> QED
      BY <1>1, <1>2, <2>1, ParseHeadersType
  <1>6. CASE c.state_ = "Body"
    <2>1. Parse(c) = ParseBody(in, length, NoRequest)
      BY <1>6 DEF Parse
    <2> QED
      BY <1>1, <1>2, <2>1, ParseBodyType
  <1>7. CASE c.state_ = "Done"
    <2>1. Parse(c) = Parsed("OK", "Done", length, NoRequest, in)
      BY <1>7 DEF Parse
    <2> QED
      BY <1>1, <1>2, <2>1 DEF Parsed, Outcome, ParserState
  <1>8. c.state_ = "RequestLine" => <1>3!1 \/ <1>4!1
    <2> HAVE c.state_ = "RequestLine"
    <2>1. Parse(c) = ParseRequestLine(in, length)
      BY DEF Parse
    <2> QED
      BY <2>1 DEF ParseRequestLine
  <1> QED
    BY <1>1, <1>3, <1>4, <1>5, <1>6, <1>7, <1>8 DEF ParserState

LEMMA BufferSize == BUFFER_SIZE \in Nat
  BY ConnectionAssumption

LEMMA InputType ==
    ASSUME NEW n, NEW c \in Connection(n)
    PROVE  c.input \in Seq(Piece(n)) /\ Len(c.input) \in Nat
  <1>1. c.input \in Seq(Piece(n))
    BY DEF Connection
  <1> QED
    BY <1>1

LEMMA AnswerType ==
    /\ Error \in Answer
    /\ \A n \in Nat : Parsing(n) \subseteq Answer
  <1>1. NoRequest \in Answer
    BY EmptySeq DEF NoRequest, Answer
  <1>2. ASSUME NEW n \in Nat, NEW request \in Parsing(n)
        PROVE  request \in Answer
    <2>1. Piece(n) \subseteq [req : Nat, part : PartName]
      BY DEF Piece
    <2>2. request.body \in Seq([req : Nat, part : PartName])
      BY <2>1, SeqMonotonic DEF Parsing
    <2> QED
      BY <2>2 DEF Parsing, Answer
  <1> QED
    BY <1>1, <1>2 DEF Error, Answer

LEMMA ProcessHttpType ==
    ASSUME asked \in Seq(Request), NEW c \in Connection(Len(asked))
    PROVE  /\ ProcessHttp(c) \in Connection(Len(asked))
           /\ Len(ProcessHttp(c).input) <= Len(c.input)
           /\ ProcessHttp(c).closing_ = c.closing_
  <1> DEFINE p == Parse(c)
             parsed == [c EXCEPT !.state_ = p.state_, !.content_length_ = p.content_length_]
             keep == c.close_connection_ \/ ~KeepAlive(p.request)
  <1>1. p \in Outcome(Len(asked)) /\ Len(p.rest) <= Len(c.input)
    BY ParseType
  <1>2. parsed \in Connection(Len(asked)) /\ parsed.input = c.input /\ parsed.closing_ = c.closing_
            /\ parsed.close_connection_ = c.close_connection_
    BY <1>1 DEF Outcome, Connection
  <1>3. keep \in BOOLEAN
    BY DEF Connection, KeepAlive
  <1>4. AnswerTo(p.request) \in Answer
    <2>1. p.request \in Answer
      BY <1>1, AnswerType DEF Outcome
    <2>2. AnswerTo(p.request) \in {Error, p.request}
      BY DEF AnswerTo
    <2> QED
      BY <2>1, <2>2, AnswerType
  <1>5. ProcessHttp(c) =
            CASE p.result = "OK" ->
                    [parsed EXCEPT !.input = p.rest, !.output = AnswerTo(p.request),
                                   !.armed = "EPOLLOUT", !.close_connection_ = keep]
              [] p.result = "INCOMPLETE" -> [parsed EXCEPT !.armed = "EPOLLIN"]
              [] p.result = "BAD_REQUEST" -> [parsed EXCEPT !.output = Error, !.armed = "EPOLLOUT"]
              [] p.result = "throw" -> parsed
    BY <1>2 DEF ProcessHttp
  <1>6. Error \in Answer
    BY AnswerType
  <1>7. p.result \in {"OK", "INCOMPLETE", "BAD_REQUEST", "throw"} /\ p.rest \in Seq(Piece(Len(asked)))
    BY <1>1 DEF Outcome
  <1>8. Len(c.input) \in Nat
    BY DEF Connection
  <1> HIDE DEF p, parsed, keep
  <1>9. CASE p.result = "OK"
    <2>1. ProcessHttp(c) = [parsed EXCEPT !.input = p.rest, !.output = AnswerTo(p.request),
                                          !.armed = "EPOLLOUT", !.close_connection_ = keep]
      BY <1>5, <1>9
    <2>2. ProcessHttp(c) \in Connection(Len(asked))
      BY <1>2, <1>3, <1>4, <1>7, <2>1 DEF Connection
    <2>3. ProcessHttp(c).input = p.rest /\ ProcessHttp(c).closing_ = parsed.closing_
      BY <1>2, <2>1 DEF Connection
    <2> QED
      BY <1>1, <1>2, <2>2, <2>3
  <1>10. CASE p.result = "INCOMPLETE"
    BY SMTT(30), <1>2, <1>5, <1>8, <1>10 DEF Connection
  <1>11. CASE p.result = "BAD_REQUEST"
    <2>1. ProcessHttp(c) = [parsed EXCEPT !.output = Error, !.armed = "EPOLLOUT"]
      BY <1>5, <1>11
    <2>2. ProcessHttp(c) \in Connection(Len(asked))
      BY <1>2, <1>6, <2>1 DEF Connection
    <2>3. ProcessHttp(c).input = parsed.input /\ ProcessHttp(c).closing_ = parsed.closing_
      BY <1>2, <2>1 DEF Connection
    <2> QED
      BY <1>2, <1>8, <2>2, <2>3
  <1>12. CASE p.result = "throw"
    BY <1>2, <1>5, <1>8, <1>12
  <1> QED
    BY <1>7, <1>9, <1>10, <1>11, <1>12

LEMMA FreshType == ASSUME NEW n \in Nat PROVE Fresh \in Connection(n) /\ Len(Fresh.input) = 0
  BY EmptySeq DEF Fresh, Connection, ParserState

LEMMA WriteOnceType ==
    ASSUME NEW n \in Nat, NEW c \in Connection(n), answers \in Seq(Answer), WriteOnce(c)
    PROVE  /\ conn' \in Connection(n) /\ Len(conn'.input) <= Len(c.input)
           /\ answers' \in Seq(Answer)
  <1>1. Len(c.input) \in Nat
    BY DEF Connection
  <1>2. Written(c) \in Connection(n) /\ Len(Written(c).input) <= Len(c.input)
    <2>1. CASE c.close_connection_
      <3>1. Written(c) = [c EXCEPT !.output = None, !.closing_ = TRUE, !.armed = "EPOLLIN"]
        BY <2>1 DEF Written
      <3>2. Written(c) \in Connection(n)
        BY <3>1 DEF Connection
      <3>3. Written(c).input = c.input
        BY <3>1 DEF Connection
      <3> QED
        BY <1>1, <3>2, <3>3
    <2>2. CASE ~c.close_connection_
      BY <1>1, <2>2, FreshType DEF Written
    <2> QED
      BY <2>1, <2>2
  <1>3. [c EXCEPT !.armed = "EPOLLOUT"] \in Connection(n)
            /\ [c EXCEPT !.armed = "EPOLLOUT"].input = c.input
    BY DEF Connection
  <1>4. c.output # None => c.output \in Answer
    BY DEF Connection
  <1>5. CASE conn' = Written(c) /\ answers' = IF c.output = None THEN answers ELSE Append(answers, c.output)
    BY <1>2, <1>4, <1>5, AppendProperties
  <1>6. CASE conn' = [c EXCEPT !.armed = "EPOLLOUT"] /\ answers' = answers
    BY <1>1, <1>3, <1>6
  <1> QED
    BY <1>5, <1>6 DEF WriteOnce

-----------------------------------------------------------------------------
(* Requests                                                                *)

LEMMA Head3 ==
    ASSUME NEW S, NEW a \in S, NEW b \in S, NEW c \in S, NEW t \in Seq(S)
    PROVE  LET s == <<a, b>> \o <<c>> \o t IN
           /\ s \in Seq(S) /\ Len(s) = 3 + Len(t)
           /\ s[1] = a /\ s[2] = b /\ s[3] = c
           /\ \A j \in 1 .. Len(t) : s[3 + j] = t[j]
  <1> DEFINE front == <<a, b>> \o <<c>>
  <1>1. front \in Seq(S) /\ Len(front) = 3 /\ front[1] = a /\ front[2] = b /\ front[3] = c
    OBVIOUS
  <1>2. Len(t) \in Nat
    OBVIOUS
  <1> HIDE DEF front
  <1>3. /\ front \o t \in Seq(S) /\ Len(front \o t) = 3 + Len(t)
        /\ \A i \in 1 .. 3 + Len(t) : (front \o t)[i] = IF i <= 3 THEN front[i] ELSE t[i - 3]
    <2>1. /\ front \o t \in Seq(S) /\ Len(front \o t) = Len(front) + Len(t)
          /\ \A i \in 1 .. Len(front) + Len(t) :
                (front \o t)[i] = IF i <= Len(front) THEN front[i] ELSE t[i - Len(front)]
      BY <1>1, ConcatProperties
    <2> QED
      BY <1>1, <2>1
  <1>4. /\ (front \o t)[1] = a /\ (front \o t)[2] = b /\ (front \o t)[3] = c
        /\ \A j \in 1 .. Len(t) : (front \o t)[3 + j] = t[j]
    BY <1>1, <1>2, <1>3
  <1> QED
    BY <1>3, <1>4 DEF front

LEMMA Head4 ==
    ASSUME NEW S, NEW a \in S, NEW b \in S, NEW c \in S, NEW d \in S, NEW t \in Seq(S)
    PROVE  LET s == <<a, b>> \o <<c, d>> \o t IN
           /\ s \in Seq(S) /\ Len(s) = 4 + Len(t)
           /\ s[1] = a /\ s[2] = b /\ s[3] = c /\ s[4] = d
           /\ \A j \in 1 .. Len(t) : s[4 + j] = t[j]
  <1> DEFINE front == <<a, b>> \o <<c, d>>
  <1>1. front \in Seq(S) /\ Len(front) = 4
            /\ front[1] = a /\ front[2] = b /\ front[3] = c /\ front[4] = d
    OBVIOUS
  <1>2. Len(t) \in Nat
    OBVIOUS
  <1> HIDE DEF front
  <1>3. /\ front \o t \in Seq(S) /\ Len(front \o t) = 4 + Len(t)
        /\ \A i \in 1 .. 4 + Len(t) : (front \o t)[i] = IF i <= 4 THEN front[i] ELSE t[i - 4]
    <2>1. /\ front \o t \in Seq(S) /\ Len(front \o t) = Len(front) + Len(t)
          /\ \A i \in 1 .. Len(front) + Len(t) :
                (front \o t)[i] = IF i <= Len(front) THEN front[i] ELSE t[i - Len(front)]
      BY <1>1, ConcatProperties
    <2> QED
      BY <1>1, <2>1
  <1>4. /\ (front \o t)[1] = a /\ (front \o t)[2] = b /\ (front \o t)[3] = c /\ (front \o t)[4] = d
        /\ \A j \in 1 .. Len(t) : (front \o t)[4 + j] = t[j]
    BY <1>1, <1>2, <1>3
  <1> QED
    BY <1>3, <1>4 DEF front

LEMMA PartsShape ==
    ASSUME NEW r \in Request
    PROVE  LET head == IF r.kind = "no_fields" THEN 3 ELSE 4 IN
           /\ Parts(r) \in Seq(PartName) /\ Len(Parts(r)) = head + r.body
           /\ Parts(r)[1] = "method" /\ Parts(r)[2] = "line"
           /\ r.kind = "no_fields" => Parts(r)[3] = "blank"
           /\ r.kind # "no_fields" => Parts(r)[3] = "fields" /\ Parts(r)[4] = "end"
           /\ \A j \in 1 .. r.body : Parts(r)[head + j] = "body"
  <1> DEFINE body == [j \in 1 .. r.body |-> "body"]
  <1>1. r.body \in Nat
    BY RequestType
  <1>2. body \in Seq(PartName) /\ Len(body) = r.body /\ \A j \in 1 .. r.body : body[j] = "body"
    BY <1>1 DEF PartName
  <1>3. /\ "method" \in PartName /\ "line" \in PartName /\ "blank" \in PartName
        /\ "fields" \in PartName /\ "end" \in PartName
    BY DEF PartName
  <1>4. CASE r.kind = "no_fields"
    <2>1. Parts(r) = <<"method", "line">> \o <<"blank">> \o body
      BY <1>4 DEF Parts
    <2>2. /\ Parts(r) \in Seq(PartName) /\ Len(Parts(r)) = 3 + Len(body)
          /\ Parts(r)[1] = "method" /\ Parts(r)[2] = "line" /\ Parts(r)[3] = "blank"
          /\ \A j \in 1 .. Len(body) : Parts(r)[3 + j] = body[j]
      <3> HIDE DEF body
      <3> QED
        BY <1>2, <1>3, <2>1, Head3
    <2> HIDE DEF body
    <2> QED
      BY <1>2, <1>4, <2>2
  <1>5. CASE r.kind # "no_fields"
    <2>1. Parts(r) = <<"method", "line">> \o <<"fields", "end">> \o body
      BY <1>5 DEF Parts
    <2>2. /\ Parts(r) \in Seq(PartName) /\ Len(Parts(r)) = 4 + Len(body)
          /\ Parts(r)[1] = "method" /\ Parts(r)[2] = "line"
          /\ Parts(r)[3] = "fields" /\ Parts(r)[4] = "end"
          /\ \A j \in 1 .. Len(body) : Parts(r)[4 + j] = body[j]
      <3> HIDE DEF body
      <3> QED
        BY <1>2, <1>3, <2>1, Head4
    <2> HIDE DEF body
    <2> QED
      BY <1>2, <1>5, <2>2
  <1> QED
    BY <1>4, <1>5

LEMMA BytesShape ==
    ASSUME NEW r \in Request, NEW i \in Nat \ {0}
    PROVE  /\ Bytes(i, r) \in Seq(Piece(i)) /\ Len(Bytes(i, r)) = Len(Parts(r))
           /\ \A j \in 1 .. Len(Parts(r)) : Bytes(i, r)[j] = [req |-> i, part |-> Parts(r)[j]]
  <1>1. Parts(r) \in Seq(PartName) /\ Len(Parts(r)) \in Nat
    <2>1. Parts(r) \in Seq(PartName)
      BY PartsShape
    <2> QED
      BY <2>1
  <1>2. Bytes(i, r) = [j \in 1 .. Len(Parts(r)) |-> [req |-> i, part |-> Parts(r)[j]]]
    BY <1>1 DEF Bytes
  <1>3. \A j \in 1 .. Len(Parts(r)) : [req |-> i, part |-> Parts(r)[j]] \in Piece(i)
    BY <1>1 DEF Piece
  <1> QED
    BY <1>1, <1>2, <1>3

\* The two lemmas together, piece by piece.
LEMMA RequestShape ==
    ASSUME NEW r \in Request, NEW i \in Nat \ {0}
    PROVE  LET in == Bytes(i, r) IN
           /\ in \in Seq(Piece(i)) /\ r.body \in Nat /\ Len(in) \in Nat /\ Len(in) >= 3
           /\ in[1] = [req |-> i, part |-> "method"] /\ in[2] = [req |-> i, part |-> "line"]
           /\ r.kind = "no_fields" =>
                  Len(in) = 3 /\ in[3] = [req |-> i, part |-> "blank"]
           /\ r.kind # "no_fields" =>
                  /\ Len(in) = 4 + r.body
                  /\ in[3] = [req |-> i, part |-> "fields"] /\ in[4] = [req |-> i, part |-> "end"]
                  /\ \A j \in 1 .. r.body : in[4 + j] = [req |-> i, part |-> "body"]
  <1> DEFINE in == Bytes(i, r)
             parts == Parts(r)
             size == Len(parts)
             kind == r.kind
             body == r.body
             P(part) == [req |-> i, part |-> part]
  <1>1. body \in Nat /\ (kind = "no_fields" => body = 0)
    BY RequestType
  <1>2. in \in Seq(Piece(i)) /\ Len(in) = size
    BY BytesShape
  <1>3. \A j \in 1 .. size : in[j] = P(parts[j])
    BY BytesShape
  <1>4. parts[1] = "method" /\ parts[2] = "line"
    BY PartsShape
  <1>5. kind = "no_fields" => size = 3 + body /\ parts[3] = "blank"
    BY PartsShape
  <1>6. kind # "no_fields" =>
            /\ size = 4 + body /\ parts[3] = "fields" /\ parts[4] = "end"
            /\ \A j \in 1 .. body : parts[4 + j] = "body"
    BY PartsShape
  <1> HIDE DEF in, parts, size, kind, body, P
  <1>7. CASE kind = "no_fields"
    <2>1. size = 3
      BY <1>1, <1>5, <1>7
    <2>2. in[1] = P("method") /\ in[2] = P("line") /\ in[3] = P("blank")
      BY <1>3, <1>4, <1>5, <1>7, <2>1
    <2>3. Len(in) = 3
      BY <1>2, <2>1
    <2> QED
      BY <1>1, <1>2, <1>7, <2>2, <2>3 DEF in, kind, body, P
  <1>8. CASE kind # "no_fields"
    <2>1. size >= 4 /\ size \in Nat
      BY <1>1, <1>6, <1>8
    <2>2. in[1] = P("method") /\ in[2] = P("line") /\ in[3] = P("fields") /\ in[4] = P("end")
      BY <1>3, <1>4, <1>6, <1>8, <2>1
    <2>3. \A j \in 1 .. body : in[4 + j] = P("body")
      <3> SUFFICES ASSUME NEW j \in 1 .. body PROVE in[4 + j] = P("body")
        OBVIOUS
      <3>1. 4 + j \in 1 .. size
        BY <1>1, <1>6, <1>8
      <3> QED
        BY <1>3, <1>6, <1>8, <3>1
    <2>4. Len(in) = 4 + body /\ Len(in) \in Nat /\ Len(in) >= 3
      BY <1>2, <1>6, <1>8, <2>1
    <2> QED
      BY <1>1, <1>2, <1>8, <2>2, <2>3, <2>4 DEF in, kind, body, P
  <1> QED
    BY <1>7, <1>8

-----------------------------------------------------------------------------
(* Every variable keeps its type.                                          *)

Typed ==
    /\ mode \in Modes /\ asked \in Seq(Request) /\ answers \in Seq(Answer)
    /\ fin \in BOOLEAN /\ task \in BOOLEAN /\ idle \in BOOLEAN /\ open \in BOOLEAN
    /\ unsent \in Seq(Piece(Len(asked))) /\ wire \in Seq(Piece(Len(asked)))
    /\ conn \in Connection(Len(asked)) /\ Len(conn.input) <= BUFFER_SIZE

LEMMA TypedInit == Init => Typed
  <1> SUFFICES ASSUME Init PROVE Typed
    OBVIOUS
  <1>1. asked = <<>> /\ Len(asked) = 0 /\ BUFFER_SIZE \in Nat
    BY BufferSize DEF Init
  <1>2. conn \in Connection(Len(asked)) /\ Len(conn.input) = 0
    BY <1>1, FreshType DEF Init
  <1>3. asked \in Seq(Request) /\ answers \in Seq(Answer)
            /\ unsent \in Seq(Piece(Len(asked))) /\ wire \in Seq(Piece(Len(asked)))
    BY EmptySeq DEF Init
  <1>4. mode \in Modes /\ fin \in BOOLEAN /\ task \in BOOLEAN /\ idle \in BOOLEAN /\ open \in BOOLEAN
    BY DEF Init
  <1> QED
    BY <1>1, <1>2, <1>3, <1>4 DEF Typed

LEMMA TypedClient ==
    ASSUME Typed
    PROVE  /\ \A r \in Request : Ask(r) => Typed'
           /\ \A n \in 1 .. Len(unsent) : Deliver(n) => Typed'
           /\ Finish => Typed'
  <1>1. ASSUME NEW r \in Request, Ask(r)
        PROVE  Typed'
    <2>1. asked' \in Seq(Request) /\ Len(asked') = Len(asked) + 1 /\ Len(asked) \in Nat
      BY <1>1, AppendProperties DEF Ask, Typed
    <2>2. Piece(Len(asked)) \subseteq Piece(Len(asked'))
      BY <2>1 DEF Piece
    <2>3. Seq(Piece(Len(asked))) \subseteq Seq(Piece(Len(asked')))
      BY <2>2, SeqMonotonic
    <2>4. Connection(Len(asked)) \subseteq Connection(Len(asked'))
      BY <2>3 DEF Connection
    <2>5. Bytes(Len(asked'), r) \in Seq(Piece(Len(asked')))
      BY <2>1, BytesShape
    <2>6. unsent' \in Seq(Piece(Len(asked')))
      BY <1>1, <2>3, <2>5, ConcatProperties DEF Ask, Typed
    <2>7. UNCHANGED <<mode, wire, fin, conn, task, answers, idle, open>>
      BY <1>1 DEF Ask
    <2>8. wire' \in Seq(Piece(Len(asked'))) /\ conn' \in Connection(Len(asked'))
      BY <2>3, <2>4, <2>7 DEF Typed
    <2> QED
      BY <2>1, <2>6, <2>7, <2>8 DEF Typed
  <1>2. ASSUME NEW n \in 1 .. Len(unsent), Deliver(n)
        PROVE  Typed'
    <2>1. SubSeq(unsent, 1, n) \in Seq(Piece(Len(asked))) /\ Rest(unsent, n) \in Seq(Piece(Len(asked)))
      BY SubSeqProperties, RestType DEF Typed
    <2>2. wire' \in Seq(Piece(Len(asked)))
      BY <1>2, <2>1, ConcatProperties DEF Deliver, Typed
    <2> QED
      BY <1>2, <2>1, <2>2 DEF Deliver, Typed
  <1>3. ASSUME Finish
        PROVE  Typed'
    BY <1>3, EmptySeq DEF Finish, Typed
  <1> QED
    BY <1>1, <1>2, <1>3

LEMMA TypedServer ==
    ASSUME Typed, Server
    PROVE  Typed'
  <1> USE DEF Typed
  <1>1. <<>> \in Seq(Piece(Len(asked)))
    BY EmptySeq
  <1>2. CASE HandleReadFails
    BY <1>1, <1>2 DEF HandleReadFails, Destroy
  <1>3. CASE HandleRead
    <2> DEFINE c == [conn EXCEPT !.input = @ \o wire, !.armed = None]
               done == ProcessHttp(c)
    <2>1. conn.input \o wire \in Seq(Piece(Len(asked)))
              /\ Len(conn.input \o wire) = Len(conn.input) + Len(wire)
      BY ConcatProperties DEF Connection
    <2>2. c \in Connection(Len(asked)) /\ c.input = conn.input \o wire
      BY <2>1 DEF Connection
    <2>3. Len(conn.input) + Len(wire) <= BUFFER_SIZE
      <3>1. Len(conn.input) \in Nat /\ Len(wire) \in Nat /\ BUFFER_SIZE \in Nat
        BY InputType, BufferSize
      <3> QED
        BY <1>3, <3>1 DEF HandleRead, ReadSucceeds, room
    <2>4. CASE mode.pool
      BY <1>1, <1>3, <2>1, <2>2, <2>3, <2>4 DEF HandleRead
    <2>5. CASE ~mode.pool /\ Destroy
      BY <1>1, <1>3, <2>5 DEF HandleRead, Destroy
    <2>6. CASE ~mode.pool /\ WriteOnce(done) /\ idle' = FALSE /\ UNCHANGED <<task, open>>
      <3>1. done \in Connection(Len(asked)) /\ Len(done.input) <= Len(c.input)
        BY <2>2, ProcessHttpType
      <3>2. conn' \in Connection(Len(asked)) /\ Len(conn'.input) <= Len(done.input)
                /\ answers' \in Seq(Answer)
        BY SMTT(30), <2>6, <3>1, WriteOnceType
      <3>3. Len(conn'.input) \in Nat /\ Len(done.input) \in Nat /\ Len(c.input) \in Nat
        BY <2>2, <3>1, <3>2, InputType
      <3>4. Len(conn'.input) <= BUFFER_SIZE
        <4>1. Len(c.input) <= BUFFER_SIZE
          BY <2>1, <2>2, <2>3
        <4> HIDE DEF c, done
        <4> QED
          BY <3>1, <3>2, <3>3, <4>1, BufferSize
      <3>5. idle' \in BOOLEAN /\ wire' = <<>> /\ UNCHANGED <<mode, asked, unsent, fin, task, open>>
        BY <1>3, <2>6 DEF HandleRead
      <3> HIDE DEF c, done
      <3> QED
        BY <1>1, <3>2, <3>4, <3>5
    <2> QED
      BY <1>3, <2>4, <2>5, <2>6 DEF HandleRead
  <1>4. CASE Work
    <2>5. conn' \in {ProcessHttp(conn), conn}
      BY <1>4 DEF Work
    <2>6. Len(conn.input) \in Nat
      BY InputType
    <2>1. conn' \in Connection(Len(asked)) /\ Len(conn'.input) <= Len(conn.input)
      BY <2>5, <2>6, ProcessHttpType
    <2>2. Len(conn'.input) \in Nat /\ Len(conn.input) \in Nat /\ BUFFER_SIZE \in Nat
      BY <2>1, InputType, BufferSize
    <2>3. Len(conn'.input) <= BUFFER_SIZE
      BY <2>1, <2>2
    <2>4. UNCHANGED <<mode, asked, unsent, wire, fin, answers, idle, open>> /\ task' = FALSE
      BY <1>4 DEF Work
    <2> QED
      BY <2>1, <2>3, <2>4
  <1>5. CASE HandleWrite
    <2>1. conn' \in Connection(Len(asked)) /\ Len(conn'.input) <= Len(conn.input)
              /\ answers' \in Seq(Answer)
      BY <1>5, WriteOnceType DEF HandleWrite
    <2>2. Len(conn'.input) \in Nat /\ Len(conn.input) \in Nat /\ BUFFER_SIZE \in Nat
      BY <2>1, InputType, BufferSize
    <2>3. Len(conn'.input) <= BUFFER_SIZE
      BY <2>1, <2>2
    <2>4. idle' = FALSE /\ UNCHANGED <<mode, asked, unsent, wire, fin, task, open>>
      BY <1>5 DEF HandleWrite
    <2> QED
      BY <2>1, <2>3, <2>4
  <1>6. CASE HandleWriteFails \/ Timeout
    BY <1>6 DEF HandleWriteFails, Timeout, Destroy
  <1>7. CASE Elapse
    BY <1>7 DEF Elapse
  <1> QED
    BY <1>2, <1>3, <1>4, <1>5, <1>6, <1>7 DEF Server

LEMMA TypedNext == Typed /\ [Next]_vars => Typed'
  <1>1. ASSUME Typed, UNCHANGED vars
        PROVE  Typed'
    BY <1>1 DEF vars, Typed
  <1> QED
    BY <1>1, TypedServer, TypedClient DEF Next

\* The read buffer never takes more than it has room for, whatever a connection
\* goes through (input_buffer.cpp:17), and all its parts keep their types.
THEOREM ConnectionTyped == Spec => []TypeOK
  <1>1. Typed => TypeOK
    BY DEF Typed, TypeOK, Connection, ParserState
  <1> QED
    BY <1>1, TypedInit, TypedNext, PTL DEF Spec

-----------------------------------------------------------------------------
(* What the parser makes of a whole request, and of its first piece.       *)

LEMMA MethodIsIncomplete ==
    ASSUME NEW n, NEW in \in Seq(Piece(n)), Len(in) = 1, in[1].part = "method", NEW length
    PROVE  ParseRequestLine(in, length) = Parsed("INCOMPLETE", "RequestLine", length, NoRequest, in)
  <1>1. Find(in, {"line", "fields", "end", "blank"}) = 0
    BY FindNone
  <1> QED
    BY <1>1 DEF ParseRequestLine

LEMMA WholeLine ==
    ASSUME asked \in Seq(Request), NEW i \in 1 .. Len(asked)
    PROVE  LET in == Bytes(i, asked[i]) IN
           ParseRequestLine(in, 0) =
               IF asked[i].kind = "bad" THEN Parsed("BAD_REQUEST", "RequestLine", 0, NoRequest, in)
               ELSE IF asked[i].kind = "bad_query" THEN Parsed("throw", "RequestLine", 0, NoRequest, in)
               ELSE ParseHeaders(Rest(in, 2), 0, [NoRequest EXCEPT !.line = i])
  <1> DEFINE in == Bytes(i, asked[i])
  <1>1. asked[i] \in Request
    OBVIOUS
  <1>2. i \in Nat \ {0} /\ in \in Seq(Piece(i)) /\ Len(in) \in Nat /\ Len(in) >= 3
    <2>1. i \in Nat \ {0}
      OBVIOUS
    <2> QED
      BY <1>1, <2>1, RequestShape
  <1>3. in[1] = [req |-> i, part |-> "method"] /\ in[2] = [req |-> i, part |-> "line"]
    BY <1>1, <1>2, RequestShape
  <1>4. Find(in, {"line", "fields", "end", "blank"}) = 2
    <2> HIDE DEF in
    <2> DEFINE ends == {"line", "fields", "end", "blank"}
    <2>1. in[1].part \notin ends /\ in[2].part \in ends
      BY <1>3
    <2> HIDE DEF ends
    <2>2. 2 \in 1 .. Len(in) /\ \A j \in 1 .. 2 - 1 : in[j].part \notin ends
      BY <1>2, <2>1
    <2>3. Find(in, ends) = 2
      BY <1>2, <2>1, <2>2, FindFirst
    <2> QED
      BY <2>3 DEF ends
  <1>5. in[2] = [in[1] EXCEPT !.part = "line"]
    BY <1>3
  <1> HIDE DEF in
  <1>6. ParseRequestLine(in, 0) =
            IF asked[i].kind = "bad" THEN Parsed("BAD_REQUEST", "RequestLine", 0, NoRequest, in)
            ELSE IF asked[i].kind = "bad_query" THEN Parsed("throw", "RequestLine", 0, NoRequest, in)
            ELSE ParseHeaders(Rest(in, 2), 0, [NoRequest EXCEPT !.line = i])
    BY <1>3, <1>4, <1>5 DEF ParseRequestLine
  <1> QED
    BY <1>6 DEF in

\* The pieces after the request line.
LEMMA AfterLine ==
    ASSUME NEW r \in Request, NEW i \in Nat \ {0}
    PROVE  LET h == Rest(Bytes(i, r), 2) IN
           /\ h \in Seq(Piece(i)) /\ r.body \in Nat
           /\ r.kind = "no_fields" => Len(h) = 1 /\ h[1].part = "blank"
           /\ r.kind # "no_fields" =>
                  /\ Len(h) = 2 + r.body
                  /\ h[1] = [req |-> i, part |-> "fields"] /\ h[2] = [req |-> i, part |-> "end"]
                  /\ \A j \in 1 .. r.body : h[2 + j] = [req |-> i, part |-> "body"]
  <1> DEFINE in == Bytes(i, r)
             h == Rest(in, 2)
             kind == r.kind
             body == r.body
             P(part) == [req |-> i, part |-> part]
  <1>1. in \in Seq(Piece(i)) /\ body \in Nat /\ Len(in) \in Nat /\ Len(in) >= 3
    BY RequestShape
  <1>2. kind = "no_fields" => Len(in) = 3 /\ in[3] = P("blank")
    BY RequestShape
  <1>3. kind # "no_fields" =>
            /\ Len(in) = 4 + body /\ in[3] = P("fields") /\ in[4] = P("end")
            /\ \A j \in 1 .. body : in[4 + j] = P("body")
    BY RequestShape
  <1> HIDE DEF in
  <1>4. h \in Seq(Piece(i)) /\ Len(h) = Len(in) - 2 /\ \A j \in 1 .. Len(in) - 2 : h[j] = in[2 + j]
    <2>1. 2 \in 0 .. Len(in)
      BY <1>1
    <2> QED
      BY <1>1, <2>1, RestType
  <1> HIDE DEF h, kind, body, P
  <1>5. CASE kind = "no_fields"
    <2>1. Len(h) = 1 /\ h[1] = P("blank")
      BY <1>1, <1>2, <1>4, <1>5
    <2> QED
      BY <1>1, <1>4, <1>5, <2>1 DEF h, in, kind, body, P
  <1>6. CASE kind # "no_fields"
    <2>1. Len(h) = 2 + body /\ h[1] = P("fields") /\ h[2] = P("end")
      BY <1>1, <1>3, <1>4, <1>6
    <2>2. \A j \in 1 .. body : h[2 + j] = P("body")
      <3> SUFFICES ASSUME NEW j \in 1 .. body PROVE h[2 + j] = P("body")
        OBVIOUS
      <3>1. 2 + j \in 1 .. Len(in) - 2 /\ 2 + (2 + j) = 4 + j
        BY <1>1, <1>3, <1>6
      <3> QED
        BY <1>3, <1>4, <1>6, <3>1
    <2> QED
      BY <1>1, <1>4, <1>6, <2>1, <2>2 DEF h, in, kind, body, P
  <1> QED
    BY <1>5, <1>6

\* The request that a whole, good one is parsed into.
Understood(i) ==
    [line |-> i, fields |-> i,
     body |-> [j \in 1 .. asked[i].body |-> [req |-> i, part |-> "body"]]]

LEMMA ParsingExcept ==
    ASSUME NEW l, NEW f, NEW b, NEW v
    PROVE  LET request == [line |-> l, fields |-> f, body |-> b] IN
           /\ [request EXCEPT !.line = v] = [line |-> v, fields |-> f, body |-> b]
           /\ [request EXCEPT !.fields = v] = [line |-> l, fields |-> v, body |-> b]
           /\ [request EXCEPT !.body = v] = [line |-> l, fields |-> f, body |-> v]
  OBVIOUS

LEMMA SequenceIs ==
    ASSUME NEW S, NEW s \in Seq(S), NEW n \in Nat, Len(s) = n, NEW v, \A j \in 1 .. n : s[j] = v
    PROVE  s = [j \in 1 .. n |-> v]
  OBVIOUS

LEMMA WholeFields ==
    ASSUME asked \in Seq(Request), NEW i \in 1 .. Len(asked),
           asked[i].kind \notin {"bad", "bad_query", "no_fields"}
    PROVE  LET p == ParseHeaders(Rest(Bytes(i, asked[i]), 2), 0, [NoRequest EXCEPT !.line = i]) IN
           IF asked[i].kind = "undecodable" THEN p.result = "throw"
           ELSE p.result = "OK" /\ p.request = Understood(i)
  <1> DEFINE r == asked[i]
             h == Rest(Bytes(i, r), 2)
             rest == Rest(h, 2)
             body == r.body
             piece == [req |-> i, part |-> "body"]
             line == [NoRequest EXCEPT !.line = i]
             seen == [line |-> i, fields |-> i, body |-> <<>>]
  <1>1. r \in Request /\ i \in Nat \ {0} /\ i # 0
    OBVIOUS
  <1>2. body \in Nat /\ (r.kind = "undecodable" => body > 0)
    BY <1>1, RequestType
  <1>3. h \in Seq(Piece(i)) /\ Len(h) = 2 + body
            /\ h[1] = [req |-> i, part |-> "fields"] /\ h[2] = [req |-> i, part |-> "end"]
            /\ \A j \in 1 .. body : h[2 + j] = piece
    BY <1>1, AfterLine
  <1>4. [line EXCEPT !.fields = i] = seen
    <2>1. line = [line |-> i, fields |-> 0, body |-> <<>>]
      BY ParsingExcept DEF NoRequest
    <2> HIDE DEF line
    <2> QED
      BY SMTT(30), <2>1, ParsingExcept
  <1> HIDE DEF h, line
  <1>5. EndOfFields(h) = 2
    <2> DEFINE tail == Rest(h, 1)
    <2>1. 1 \in 0 .. Len(h) /\ 1 \in 1 .. Len(h) - 1 /\ Len(h) \in Nat
      <3> HIDE DEF body
      <3> QED
        BY <1>2, <1>3
    <2>2. tail \in Seq(Piece(i)) /\ Len(tail) = Len(h) - 1 /\ \A j \in 1 .. Len(h) - 1 : tail[j] = h[1 + j]
      <3>1. h \in Seq(Piece(i))
        BY <1>3
      <3> QED
        BY <2>1, <3>1, RestType
    <2> HIDE DEF tail
    <2>3. 1 \in 1 .. Len(tail) /\ tail[1].part \in {"end", "blank"}
      BY <1>3, <2>1, <2>2
    <2>4. \A j \in 1 .. 1 - 1 : tail[j].part \notin {"end", "blank"}
      OBVIOUS
    <2>5. Find(tail, {"end", "blank"}) = 1
      BY <2>2, <2>3, <2>4, FindFirst
    <2> QED
      BY <2>5 DEF EndOfFields, tail
  <1>6. ParseHeaders(h, 0, line) =
            IF body = 0 THEN Parsed("OK", "Done", 0, seen, rest) ELSE ParseBody(rest, body, seen)
    BY <1>1, <1>3, <1>4, <1>5 DEF ParseHeaders
  <1>7. rest \in Seq(Piece(i)) /\ Len(rest) = body /\ \A j \in 1 .. body : rest[j] = piece
    <2>1. 2 \in 0 .. Len(h) /\ Len(h) - 2 = body
      <3> HIDE DEF body
      <3> QED
        BY <1>2, <1>3
    <2>2. rest \in Seq(Piece(i)) /\ Len(rest) = body /\ \A j \in 1 .. body : rest[j] = h[2 + j]
      <3> HIDE DEF body
      <3>1. /\ rest \in Seq(Piece(i)) /\ Len(rest) = Len(h) - 2
            /\ \A j \in 1 .. Len(h) - 2 : rest[j] = h[2 + j]
        BY <1>3, <2>1, RestType
      <3> QED
        BY <2>1, <3>1
    <2> QED
      BY <1>3, <2>2
  <1>8. rest = [j \in 1 .. body |-> piece]
    <2> HIDE DEF rest, body, piece
    <2> QED
      BY <1>2, <1>7, SequenceIs
  <1> HIDE DEF rest
  <1>9. CASE body = 0
    <2>1. <<>> = [j \in 1 .. body |-> piece]
      BY <1>9
    <2>2. seen = Understood(i)
      BY <2>1 DEF Understood
    <2> QED
      BY <1>2, <1>6, <1>9, <2>2 DEF Parsed, h, line
  <1>10. CASE body # 0 /\ r.kind = "undecodable"
    <2>1. ParseBody(rest, body, seen) = Parsed("throw", "Body", body, seen, rest)
      BY <1>1, <1>2, <1>7, <1>10 DEF ParseBody
    <2> QED
      BY <1>6, <1>10, <2>1 DEF Parsed, h, line
  <1>11. CASE body # 0 /\ r.kind # "undecodable"
    <2>1. SubSeq(rest, 1, body) = rest
      BY <1>2, <1>7, SubSeqFull
    <2>2. [seen EXCEPT !.body = rest] = Understood(i)
      <3>1. [seen EXCEPT !.body = rest] = [line |-> i, fields |-> i, body |-> rest]
        BY ParsingExcept
      <3> QED
        BY <1>8, <3>1 DEF Understood
    <2>3. ParseBody(rest, body, seen) = Parsed("OK", "Done", body, Understood(i), Rest(rest, body))
      <3>1. ~(Len(rest) < body) /\ ~(seen.fields # 0 /\ asked[seen.fields].kind = "undecodable")
        BY <1>2, <1>7, <1>11
      <3>2. ParseBody(rest, body, seen) =
                Parsed("OK", "Done", body, [seen EXCEPT !.body = SubSeq(rest, 1, body)],
                       Rest(rest, body))
        BY <3>1 DEF ParseBody
      <3> QED
        BY <2>1, <2>2, <3>2
    <2> QED
      BY <1>6, <1>11, <2>3 DEF Parsed, h, line
  <1> QED
    BY <1>9, <1>10, <1>11

\* The requests that are waited for although they are complete, or forgotten
\* because they cannot be decoded.
Forgotten == {"bad_query", "no_fields", "undecodable"}

\* ProcessHttp on a connection that has read a whole request and nothing else.
LEMMA WholeProcessed ==
    ASSUME asked \in Seq(Request), NEW i \in 1 .. Len(asked), NEW c \in Connection(Len(asked)),
           c.input = Bytes(i, asked[i]), c.state_ = "RequestLine", c.content_length_ = 0,
           c.output = None
    PROVE  LET done == ProcessHttp(c) IN
           /\ asked[i].kind \in {"bad_query", "undecodable"} => done.output = None /\ done.armed = c.armed
           /\ asked[i].kind = "no_fields" =>
                  /\ done.output = None /\ done.armed = "EPOLLIN"
                  /\ done.close_connection_ = c.close_connection_
           /\ asked[i].kind \notin Forgotten =>
                  done.output = Expected(i) /\ done.armed = "EPOLLOUT"
  <1> DEFINE kind == asked[i].kind
             p == ParseRequestLine(Bytes(i, asked[i]), 0)
             parsed == [c EXCEPT !.state_ = p.state_, !.content_length_ = p.content_length_]
  <1>1. Parse(c) = p
    BY DEF Parse
  <1>2. parsed.output = None /\ parsed.armed = c.armed /\ parsed.close_connection_ = c.close_connection_
            /\ DOMAIN parsed = DOMAIN c
    BY DEF Connection
  <1>3. kind \in {"plain", "bad", "bad_query", "no_host", "no_fields", "undecodable"}
    <2>1. asked[i] \in Request
      OBVIOUS
    <2> QED
      BY <2>1, RequestType
  <1>4. kind = "bad" => p.result = "BAD_REQUEST"
    <2>1. kind = "bad" => p = Parsed("BAD_REQUEST", "RequestLine", 0, NoRequest, Bytes(i, asked[i]))
      BY WholeLine
    <2> QED
      BY <2>1 DEF Parsed
  <1>5. kind = "no_fields" => p.result = "INCOMPLETE"
    <2> SUFFICES ASSUME kind = "no_fields" PROVE p.result = "INCOMPLETE"
      OBVIOUS
    <2> DEFINE h == Rest(Bytes(i, asked[i]), 2)
    <2>1. h \in Seq(Piece(i)) /\ Len(h) = 1 /\ h[1].part = "blank"
      <3>1. asked[i] \in Request /\ i \in Nat \ {0}
        OBVIOUS
      <3> QED
        BY <3>1, AfterLine
    <2>2. EndOfFields(h) = 0
      <3>1. EndOfFields(h) \in 0 .. 1 /\ EndOfFields(h) # 1
        BY <2>1, EndOfFieldsType
      <3> QED
        BY <3>1
    <2>3. p = ParseHeaders(h, 0, [NoRequest EXCEPT !.line = i])
      BY WholeLine
    <2> QED
      BY <2>2, <2>3 DEF ParseHeaders, Parsed
  <1>6. kind \in {"bad_query", "undecodable"} => p.result = "throw"
    <2>1. kind = "bad_query" => p = Parsed("throw", "RequestLine", 0, NoRequest, Bytes(i, asked[i]))
      BY WholeLine
    <2>2. kind = "undecodable" => p.result = "throw"
      BY WholeLine, WholeFields
    <2> QED
      BY <2>1, <2>2 DEF Parsed
  <1>7. kind \in {"plain", "no_host"} => p.result = "OK" /\ p.request = Understood(i)
    BY WholeLine, WholeFields
  <1>8. CASE kind \in {"bad_query", "undecodable"}
    <2>1. ProcessHttp(c) = parsed
      BY <1>1, <1>6, <1>8 DEF ProcessHttp
    <2> QED
      BY <1>2, <1>8, <2>1 DEF Forgotten
  <1>9. CASE kind = "no_fields"
    <2>1. ProcessHttp(c) = [parsed EXCEPT !.armed = "EPOLLIN"]
      BY <1>1, <1>5, <1>9 DEF ProcessHttp
    <2> QED
      BY <1>2, <1>9, <2>1 DEF Forgotten
  <1>10. CASE kind = "bad"
    <2>1. ProcessHttp(c) = [parsed EXCEPT !.output = Error, !.armed = "EPOLLOUT"]
      BY <1>1, <1>4, <1>10 DEF ProcessHttp
    <2> QED
      BY <1>2, <1>10, <2>1 DEF Expected
  <1>11. CASE kind \in {"plain", "no_host"}
    <2>1. ProcessHttp(c) =
              [parsed EXCEPT !.input = p.rest, !.output = AnswerTo(Understood(i)),
                             !.armed = "EPOLLOUT", !.close_connection_ = @ \/ ~KeepAlive(Understood(i))]
      BY <1>1, <1>7, <1>11 DEF ProcessHttp
    <2>2. AnswerTo(Understood(i)) = Expected(i)
      BY <1>11 DEF AnswerTo, Expected, Understood
    <2>3. ProcessHttp(c).output = AnswerTo(Understood(i)) /\ ProcessHttp(c).armed = "EPOLLOUT"
      BY <1>2, <2>1
    <2> QED
      BY <1>11, <2>2, <2>3
  <1> QED
    BY <1>3, <1>8, <1>9, <1>10, <1>11

-----------------------------------------------------------------------------
(* The phases of a request                                                 *)

\* The network cuts a request line off what follows, and only where the pool puts
\* the pieces together again.  Without this the connection loses its place in
\* the stream.
CutsAreHarmless == \A m \in Modes : m.cuts \subseteq (IF m.pool THEN {"method"} ELSE {})

Current == asked[Len(asked)]
Whole == Bytes(Len(asked), Current)

\* How much of the current request may have arrived.
Cuts == {0, Len(Whole)} \cup (IF mode.pool THEN {1} ELSE {})

Idle ==
    /\ Len(answers) = Len(asked)
    /\ conn = Fresh /\ ~task
    /\ wire = <<>> /\ unsent = <<>>

Unanswered == Len(asked) > 0 /\ Len(answers) = Len(asked) - 1 /\ ~conn.closing_

\* a pieces are in the buffer, b have been sent.
ReceivingAt(a, b) ==
    /\ conn.output = None /\ ~conn.close_connection_
    /\ conn.state_ = "RequestLine" /\ conn.content_length_ = 0
    /\ a <= b
    /\ conn.input = SubSeq(Whole, 1, a)
    /\ wire = SubSeq(Whole, a + 1, b)
    /\ unsent = IF fin THEN <<>> ELSE Rest(Whole, b)
    /\ IF task THEN mode.pool /\ a > 0 /\ conn.armed = None
       ELSE a < Len(Whole) /\ conn.armed = "EPOLLIN"

Receiving == Unanswered /\ \E a, b \in Cuts : ReceivingAt(a, b)

\* All of it has arrived.
Arrived == ~task /\ wire = <<>> /\ unsent = <<>>

\* A request without fields is waited for, one that cannot be decoded forgotten.
Stuck ==
    /\ Unanswered /\ Arrived
    /\ conn.output = None /\ conn.armed # "EPOLLOUT"
    /\ Current.kind \in Forgotten

Writing ==
    /\ Unanswered /\ Arrived
    /\ conn.output = Expected(Len(asked)) /\ conn.armed = "EPOLLOUT"

Closing ==
    /\ Len(answers) \in {Len(asked) - 1, Len(asked)}
    /\ conn.closing_ /\ conn.output = None /\ ~task
    /\ conn.armed = "EPOLLIN"

Progress == open => Idle \/ Receiving \/ Stuck \/ Writing \/ Closing

\* What a step may add to the answers.
AnswerStep ==
    \/ answers' = answers
    \/ /\ Len(asked) > 0 /\ Len(answers) = Len(asked) - 1
       /\ answers' = Append(answers, Expected(Len(asked)))
       /\ open /\ UNCHANGED <<asked, open>>

LEMMA NoneFacts ==
    None # "EPOLLIN" /\ None # "EPOLLOUT" /\ None \notin Answer
  BY NoneAssumption

LEMMA ExpectedType ==
    ASSUME asked \in Seq(Request), NEW i \in 1 .. Len(asked)
    PROVE  Expected(i) \in Answer
  <1> DEFINE body == [j \in 1 .. asked[i].body |-> [req |-> i, part |-> "body"]]
  <1>1. asked[i].body \in Nat
    <2>1. asked[i] \in Request
      OBVIOUS
    <2> QED
      BY <2>1, RequestType
  <1>2. body \in Seq([req : Nat, part : PartName])
    <2> DEFINE n == asked[i].body
               piece == [req |-> i, part |-> "body"]
    <2>1. piece \in [req : Nat, part : PartName]
      BY DEF PartName
    <2> HIDE DEF n, piece
    <2>2. \A S : piece \in S /\ n \in Nat => [j \in 1 .. n |-> piece] \in Seq(S)
      OBVIOUS
    <2> QED
      BY <1>1, <2>1, <2>2 DEF n, piece
  <1>3. [line |-> i, fields |-> i, body |-> body] \in Answer
    <2> HIDE DEF body
    <2> QED
      BY <1>2 DEF Answer
  <1>4. Expected(i) \in {Error, [line |-> i, fields |-> i, body |-> body]}
    BY DEF Expected
  <1> QED
    BY <1>3, <1>4, AnswerType

LEMMA MethodIsFirst ==
    ASSUME NEW r \in Request, NEW i \in Nat \ {0}, NEW j \in 1 .. Len(Bytes(i, r))
    PROVE  Bytes(i, r)[j].part = "method" <=> j = 1
  <1> DEFINE in == Bytes(i, r)
             kind == r.kind
             body == r.body
  <1>1. in[1].part = "method" /\ in[2].part = "line" /\ body \in Nat /\ Len(in) \in Nat
    <2>1. in[1] = [req |-> i, part |-> "method"] /\ in[2] = [req |-> i, part |-> "line"]
      BY RequestShape
    <2>2. body \in Nat /\ Len(in) \in Nat
      BY RequestShape
    <2> HIDE DEF in
    <2> QED
      BY <2>1, <2>2
  <1>2. kind = "no_fields" => Len(in) = 3 /\ in[3] = [req |-> i, part |-> "blank"]
    BY RequestShape
  <1>3. kind # "no_fields" =>
            /\ Len(in) = 4 + body
            /\ in[3] = [req |-> i, part |-> "fields"] /\ in[4] = [req |-> i, part |-> "end"]
            /\ \A m \in 1 .. body : in[4 + m] = [req |-> i, part |-> "body"]
    BY RequestShape
  <1>4. j \in 1 .. Len(in)
    OBVIOUS
  <1> HIDE DEF in, kind, body
  <1>5. CASE kind = "no_fields"
    <2>1. in[3].part = "blank"
      BY <1>2, <1>5
    <2>2. j \in {1, 2, 3}
      <3>1. Len(in) = 3
        BY <1>2, <1>5
      <3> QED
        BY <1>4, <3>1
    <2> QED
      BY <1>1, <2>1, <2>2 DEF in
  <1>6. CASE kind # "no_fields" /\ j <= 4
    <2>1. in[3].part = "fields" /\ in[4].part = "end" /\ j \in {1, 2, 3, 4}
      BY <1>1, <1>3, <1>4, <1>6
    <2> QED
      BY <1>1, <2>1 DEF in
  <1>7. CASE kind # "no_fields" /\ j > 4
    <2>1. j - 4 \in 1 .. body /\ 4 + (j - 4) = j
      BY <1>1, <1>3, <1>4, <1>7
    <2>2. in[j] = [req |-> i, part |-> "body"]
      BY <1>3, <1>7, <2>1
    <2> QED
      BY <1>7, <2>2 DEF in
  <1> QED
    BY <1>1, <1>4, <1>5, <1>6, <1>7

LEMMA WholeFacts ==
    ASSUME Typed, Len(asked) > 0
    PROVE  /\ Len(asked) \in 1 .. Len(asked) /\ Current \in Request
           /\ Whole \in Seq(Piece(Len(asked))) /\ Len(Whole) \in Nat /\ Len(Whole) >= 3
           /\ \A j \in 1 .. Len(Whole) : Whole[j].part = "method" <=> j = 1
           /\ Whole = Bytes(Len(asked), asked[Len(asked)])
  <1>1. Len(asked) \in 1 .. Len(asked) /\ Len(asked) \in Nat \ {0} /\ Current \in Request
    BY DEF Typed, Current
  <1>2. Whole \in Seq(Piece(Len(asked))) /\ Len(Whole) \in Nat /\ Len(Whole) >= 3
    BY <1>1, RequestShape DEF Whole
  <1>3. \A j \in 1 .. Len(Whole) : Whole[j].part = "method" <=> j = 1
    BY <1>1, MethodIsFirst DEF Whole
  <1> QED
    BY <1>1, <1>2, <1>3 DEF Whole, Current

LEMMA SubSeqType ==
    ASSUME NEW S, NEW s \in Seq(S), NEW m \in Nat \ {0}, NEW n \in Nat, m <= n + 1, n <= Len(s)
    PROVE  /\ SubSeq(s, m, n) \in Seq(S) /\ Len(SubSeq(s, m, n)) = n - m + 1
           /\ \A j \in 1 .. n - m + 1 : SubSeq(s, m, n)[j] = s[m + j - 1]
  <1>1. \A j \in m .. n : s[j] \in S
    OBVIOUS
  <1> QED
    BY <1>1, SubSeqProperties

LEMMA SplitSequence ==
    ASSUME NEW S, NEW s \in Seq(S), NEW a \in Nat, NEW b \in Nat, NEW n \in Nat,
           a <= b, b + n <= Len(s)
    PROVE  /\ SubSeq(Rest(s, b), 1, n) = SubSeq(s, b + 1, b + n)
           /\ Rest(Rest(s, b), n) = Rest(s, b + n)
           /\ SubSeq(s, 1, a) \o SubSeq(s, a + 1, b) = SubSeq(s, 1, b)
  <1>1. Len(s) \in Nat
    OBVIOUS
  <1>2. /\ Rest(s, b) \in Seq(S) /\ Len(Rest(s, b)) = Len(s) - b
        /\ \A j \in 1 .. Len(s) - b : Rest(s, b)[j] = s[b + j]
    <2>1. b \in 0 .. Len(s)
      BY <1>1
    <2> QED
      BY <2>1, RestType
  <1>3. SubSeq(Rest(s, b), 1, n) = SubSeq(s, b + 1, b + n)
    <2> DEFINE r == Rest(s, b)
               l == SubSeq(r, 1, n)
               u == SubSeq(s, b + 1, b + n)
    <2>1. l \in Seq(S) /\ Len(l) = n /\ \A j \in 1 .. n : l[j] = r[j]
      <3> HIDE DEF r
      <3>1. r \in Seq(S) /\ n <= Len(r)
        BY <1>1, <1>2 DEF r
      <3> QED
        BY <3>1, SubSeqType
    <2>2. u \in Seq(S) /\ Len(u) = n /\ \A j \in 1 .. n : u[j] = s[b + j]
      BY <1>1, SubSeqType
    <2>3. \A j \in 1 .. n : r[j] = s[b + j]
      BY <1>1, <1>2
    <2> HIDE DEF l, u, r
    <2>4. l = u
      BY <2>1, <2>2, <2>3, SeqEqual
    <2> QED
      BY <2>4 DEF l, u, r
  <1>4. Rest(Rest(s, b), n) = Rest(s, b + n)
    <2> DEFINE r == Rest(s, b)
               l == Rest(r, n)
               u == Rest(s, b + n)
               k == Len(s) - b - n
    <2>1. l \in Seq(S) /\ Len(l) = k /\ \A j \in 1 .. k : l[j] = r[n + j]
      <3> HIDE DEF r
      <3>1. r \in Seq(S) /\ n \in 0 .. Len(r) /\ Len(r) - n = k
        BY <1>1, <1>2 DEF r
      <3> QED
        BY <3>1, RestType
    <2>2. u \in Seq(S) /\ Len(u) = k /\ \A j \in 1 .. k : u[j] = s[b + n + j]
      <3>1. b + n \in 0 .. Len(s) /\ Len(s) - (b + n) = k
        BY <1>1
      <3> QED
        BY <3>1, RestType
    <2>3. \A j \in 1 .. k : r[n + j] = s[b + n + j]
      <3> SUFFICES ASSUME NEW j \in 1 .. k PROVE r[n + j] = s[b + n + j]
        OBVIOUS
      <3>1. n + j \in 1 .. Len(s) - b /\ b + (n + j) = b + n + j
        BY <1>1
      <3> QED
        BY <1>2, <3>1
    <2> HIDE DEF l, u, r, k
    <2>4. l = u
      BY <2>1, <2>2, <2>3, SeqEqual
    <2> QED
      BY <2>4 DEF l, u, r
  <1>5. SubSeq(s, 1, a) \o SubSeq(s, a + 1, b) = SubSeq(s, 1, b)
    BY <1>1, ConcatAdjacentSubSeq
  <1> QED
    BY <1>3, <1>4, <1>5

\* WriteOnce with an answer, and without one.
LEMMA WriteOnceAnswer ==
    ASSUME NEW n, NEW c \in Connection(n), c.output # None, WriteOnce(c)
    PROVE  \/ conn' = Fresh /\ answers' = Append(answers, c.output)
           \/ /\ conn'.closing_ /\ conn'.output = None /\ conn'.armed = "EPOLLIN"
              /\ answers' = Append(answers, c.output)
           \/ /\ conn'.closing_ = c.closing_ /\ conn'.output = c.output /\ conn'.armed = "EPOLLOUT"
              /\ answers' = answers
  <1>1. CASE conn' = Written(c) /\ answers' = Append(answers, c.output)
    BY <1>1 DEF Written, Connection
  <1>2. CASE conn' = [c EXCEPT !.armed = "EPOLLOUT"] /\ answers' = answers
    BY <1>2 DEF Connection
  <1> QED
    BY <1>1, <1>2 DEF WriteOnce

\* An answer that was computed is written, or written in part, or ends the connection.
LEMMA AnswerWritten ==
    ASSUME Typed, Len(asked) > 0, Len(answers) = Len(asked) - 1,
           NEW c \in Connection(Len(asked)), WriteOnce(c),
           c.output = Expected(Len(asked)), ~c.closing_,
           UNCHANGED <<asked, open>>, open,
           ~task', wire' = <<>>, unsent' = <<>>
    PROVE  Progress' /\ AnswerStep
  <1>1. c.output # None
    BY WholeFacts, ExpectedType, NoneFacts DEF Typed
  <1>2. Expected(Len(asked))' = Expected(Len(asked))
    BY DEF Expected
  <1>3. Len(asked) \in Nat /\ answers \in Seq(Answer) /\ c.output \in Answer
    BY <1>1 DEF Typed, Connection
  <1>4. Len(Append(answers, c.output)) = Len(asked)
    BY <1>3, AppendProperties
  <1>5. CASE conn' = Fresh /\ answers' = Append(answers, c.output)
    BY <1>4, <1>5 DEF Progress, Idle, AnswerStep
  <1>6. CASE /\ conn'.closing_ /\ conn'.output = None /\ conn'.armed = "EPOLLIN"
             /\ answers' = Append(answers, c.output)
    BY <1>4, <1>6 DEF Progress, Closing, AnswerStep
  <1>7. CASE /\ conn'.closing_ = c.closing_ /\ conn'.output = c.output /\ conn'.armed = "EPOLLOUT"
             /\ answers' = answers
    BY <1>2, <1>7 DEF Progress, Writing, Arrived, Unanswered, AnswerStep
  <1> QED
    BY <1>1, <1>5, <1>6, <1>7, WriteOnceAnswer

LEMMA AskProgress ==
    ASSUME Typed, Progress, NEW r \in Request, Ask(r)
    PROVE  Progress' /\ AnswerStep
  <1>1. /\ open /\ ~fin /\ Len(answers) = Len(asked) /\ asked' = Append(asked, r)
        /\ unsent' = unsent \o Bytes(Len(asked'), r)
        /\ UNCHANGED <<mode, wire, fin, conn, task, answers, open>>
    BY DEF Ask
  <1>2. Len(asked') = Len(asked) + 1 /\ Len(asked) \in Nat /\ asked'[Len(asked')] = r
    BY <1>1, AppendProperties DEF Typed
  <1>3. Idle \/ Closing
    BY <1>1, <1>2 DEF Progress, Receiving, Stuck, Writing, Unanswered
  <1>4. CASE Closing
    BY <1>1, <1>2, <1>4 DEF Closing, Progress, AnswerStep
  <1>5. CASE Idle
    <2> DEFINE w == Bytes(Len(asked'), r)
    <2>1. w \in Seq(Piece(Len(asked'))) /\ Len(w) \in Nat /\ Len(w) >= 3
      <3>1. Len(asked') \in Nat \ {0}
        BY <1>2
      <3> QED
        BY <3>1, RequestShape
    <2>2. Whole' = w
      BY <1>2 DEF Whole, Current
    <2> HIDE DEF w
    <2>3. SubSeq(w, 1, 0) = <<>> /\ Rest(w, 0) = w
      BY <2>1, SubSeqEmpty, SubSeqFull DEF Rest
    <2>4. unsent' = w
      BY <1>1, <1>5, <2>1, ConcatEmptySeq DEF Idle, w
    <2>5. ReceivingAt(0, 0)'
      BY <1>1, <1>5, <2>1, <2>2, <2>3, <2>4 DEF ReceivingAt, Idle, Fresh
    <2>6. 0 \in Cuts'
      BY DEF Cuts
    <2>7. Unanswered'
      BY <1>1, <1>2, <1>5 DEF Unanswered, Idle, Fresh
    <2>8. Receiving'
      BY <2>5, <2>6, <2>7 DEF Receiving
    <2> QED
      BY <1>1, <2>8 DEF Progress, AnswerStep
  <1> QED
    BY <1>3, <1>4, <1>5

LEMMA DeliverProgress ==
    ASSUME Typed, Progress, CutsAreHarmless, NEW n \in 1 .. Len(unsent), Deliver(n)
    PROVE  Progress' /\ AnswerStep
  <1>1. /\ open /\ (n = Len(unsent) \/ unsent[n].part \in mode.cuts)
        /\ wire' = wire \o SubSeq(unsent, 1, n) /\ unsent' = Rest(unsent, n)
        /\ UNCHANGED <<mode, asked, fin, conn, task, answers, open>>
    BY DEF Deliver
  <1>2. unsent # <<>>
    OBVIOUS
  <1>3. CASE Closing
    BY <1>1, <1>3 DEF Closing, Progress, AnswerStep
  <1>4. CASE Receiving
    <2>1. PICK a \in Cuts, b \in Cuts : ReceivingAt(a, b)
      BY <1>4 DEF Receiving
    <2>2. Unanswered /\ Len(asked) > 0
      BY <1>4 DEF Receiving, Unanswered
    <2>3. Whole \in Seq(Piece(Len(asked))) /\ Len(Whole) \in Nat /\ Len(Whole) >= 3
      BY <2>2, WholeFacts
    <2>4. a \in Nat /\ b \in Nat /\ a <= b /\ b <= Len(Whole)
      BY <2>1, <2>3 DEF Cuts, ReceivingAt
    <2>5. ~fin /\ unsent = Rest(Whole, b)
      BY <1>2, <2>1 DEF ReceivingAt
    <2>6. Len(unsent) = Len(Whole) - b /\ \A j \in 1 .. Len(Whole) - b : unsent[j] = Whole[b + j]
      <3>1. b \in 0 .. Len(Whole)
        BY <2>3, <2>4
      <3> QED
        BY <2>3, <2>5, <3>1, RestType
    <2>7. n \in Nat \ {0} /\ b + n <= Len(Whole) /\ unsent[n] = Whole[b + n]
      BY <2>3, <2>4, <2>6
    <2>8. b + n \in Cuts
      <3>1. CASE n = Len(unsent)
        BY <2>3, <2>4, <2>6, <3>1 DEF Cuts
      <3>2. CASE unsent[n].part \in mode.cuts
        <4>1. mode.pool /\ unsent[n].part = "method"
          BY <3>2 DEF CutsAreHarmless, Typed
        <4>2. b + n \in 1 .. Len(Whole) /\ Whole[b + n].part = "method"
          BY <2>4, <2>7, <4>1
        <4>3. b + n = 1
          BY <2>2, <4>2, WholeFacts
        <4> QED
          BY <4>1, <4>3 DEF Cuts
      <3> QED
        BY <1>1, <3>1, <3>2
    <2>9. wire' = SubSeq(Whole, a + 1, b + n) /\ unsent' = Rest(Whole, b + n)
      <3>1. wire = SubSeq(Whole, a + 1, b)
        BY <2>1 DEF ReceivingAt
      <3>2. n \in Nat
        OBVIOUS
      <3>3. SubSeq(Whole, a + 1, b) \o SubSeq(Rest(Whole, b), 1, n) = SubSeq(Whole, a + 1, b + n)
        <4>1. SubSeq(Rest(Whole, b), 1, n) = SubSeq(Whole, b + 1, b + n)
          BY SMTT(30), <2>3, <2>4, <2>7, <3>2, SplitSequence
        <4>2. SubSeq(Whole, a + 1, b) \o SubSeq(Whole, b + 1, b + n) = SubSeq(Whole, a + 1, b + n)
          BY <2>3, <2>4, <2>7, <3>2, ConcatAdjacentSubSeq
        <4> QED
          BY <4>1, <4>2
      <3>4. Rest(Rest(Whole, b), n) = Rest(Whole, b + n)
        BY <2>3, <2>4, <2>7, <3>2, SplitSequence
      <3> QED
        BY <1>1, <2>5, <3>1, <3>3, <3>4
    <2>10. Whole' = Whole /\ Cuts' = Cuts
      BY <1>1 DEF Whole, Current, Cuts
    <2>11. ReceivingAt(a, b + n)'
      BY SMTT(30), <1>1, <2>1, <2>4, <2>5, <2>7, <2>9, <2>10 DEF ReceivingAt
    <2>12. Unanswered'
      BY <1>1, <2>2 DEF Unanswered
    <2>13. Receiving'
      BY <2>8, <2>10, <2>11, <2>12 DEF Receiving
    <2> QED
      BY <1>1, <2>13 DEF Progress, AnswerStep
  <1> QED
    BY <1>1, <1>2, <1>3, <1>4 DEF Progress, Idle, Stuck, Writing, Arrived

LEMMA FinishProgress ==
    ASSUME Typed, Progress, Finish
    PROVE  Progress' /\ AnswerStep
  <1>1. /\ open /\ fin' = TRUE /\ unsent' = <<>>
        /\ UNCHANGED <<mode, asked, wire, conn, task, answers, open>>
    BY DEF Finish
  <1>2. CASE Receiving
    <2>1. PICK a \in Cuts, b \in Cuts : ReceivingAt(a, b)
      BY <1>2 DEF Receiving
    <2>2. Whole' = Whole /\ Cuts' = Cuts
      BY <1>1 DEF Whole, Current, Cuts
    <2>3. ReceivingAt(a, b)' /\ Unanswered'
      BY <1>1, <1>2, <2>1, <2>2 DEF ReceivingAt, Receiving, Unanswered
    <2>4. Receiving'
      BY <2>2, <2>3 DEF Receiving
    <2> QED
      BY <1>1, <2>4 DEF Progress, AnswerStep
  <1>3. CASE Idle \/ Closing
    BY <1>1, <1>3 DEF Progress, Idle, Closing, AnswerStep
  <1>4. CASE Stuck \/ Writing
    <2>1. Expected(Len(asked))' = Expected(Len(asked)) /\ Current' = Current
      BY <1>1 DEF Expected, Current
    <2> QED
      BY <1>1, <1>4, <2>1 DEF Progress, Stuck, Writing, Unanswered, Arrived, AnswerStep
  <1> QED
    BY <1>1, <1>2, <1>3, <1>4 DEF Progress

\* What has been read when the loop hands a request on.
LEMMA ReadWhole ==
    ASSUME Typed, Progress, HandleRead
    PROVE  LET c == [conn EXCEPT !.input = @ \o wire, !.armed = None] IN
           \E b \in Cuts \ {0} :
               /\ Unanswered /\ ~task /\ ~fin
               /\ c \in Connection(Len(asked)) /\ c.input = SubSeq(Whole, 1, b)
               /\ c.state_ = "RequestLine" /\ c.content_length_ = 0
               /\ c.output = None /\ c.armed = None /\ ~c.closing_ /\ ~c.close_connection_
               /\ unsent = Rest(Whole, b) /\ b <= Len(Whole)
  <1>1. /\ open /\ conn.armed = "EPOLLIN" /\ ~conn.closing_ /\ ~fin /\ wire # <<>>
    BY DEF HandleRead, Readable, ReadSucceeds
  <1>2. Receiving
    BY <1>1 DEF Progress, Idle, Stuck, Writing, Closing, Arrived
  <1>3. PICK a \in Cuts, b \in Cuts : ReceivingAt(a, b)
    BY <1>2 DEF Receiving
  <1>4. Unanswered /\ Len(asked) > 0
    BY <1>2 DEF Receiving, Unanswered
  <1>5. Whole \in Seq(Piece(Len(asked))) /\ Len(Whole) \in Nat /\ Len(Whole) >= 3
    BY <1>4, WholeFacts
  <1>6. a \in Nat /\ b \in Nat /\ a <= b /\ b <= Len(Whole)
    BY <1>3, <1>5 DEF Cuts, ReceivingAt
  <1>7. conn.input = SubSeq(Whole, 1, a) /\ wire = SubSeq(Whole, a + 1, b) /\ unsent = Rest(Whole, b)
    BY <1>1, <1>3 DEF ReceivingAt
  <1>8. conn.input \o wire = SubSeq(Whole, 1, b)
    <2>1. b + 0 <= Len(Whole)
      BY <1>5, <1>6
    <2> QED
      BY <1>5, <1>6, <1>7, <2>1, SplitSequence
  <1>9. b # 0
    BY <1>1, <1>6, <1>7, SubSeqEmpty
  <1>10. SubSeq(Whole, 1, b) \in Seq(Piece(Len(asked)))
    BY <1>5, <1>6, SubSeqType
  <1> DEFINE c == [conn EXCEPT !.input = @ \o wire, !.armed = None]
  <1>11. /\ conn.state_ = "RequestLine" /\ conn.content_length_ = 0
         /\ conn.output = None /\ ~conn.close_connection_ /\ ~task
    BY <1>1, <1>3, NoneFacts DEF ReceivingAt
  <1>12. /\ c \in Connection(Len(asked)) /\ c.input = SubSeq(Whole, 1, b) /\ c.armed = None
         /\ c.state_ = conn.state_ /\ c.content_length_ = conn.content_length_
         /\ c.output = conn.output /\ c.closing_ = conn.closing_
         /\ c.close_connection_ = conn.close_connection_
    BY <1>8, <1>10 DEF Typed, Connection
  <1> HIDE DEF c
  <1>13. /\ b \in Cuts \ {0}
         /\ Unanswered /\ ~task /\ ~fin
         /\ c \in Connection(Len(asked)) /\ c.input = SubSeq(Whole, 1, b)
         /\ c.state_ = "RequestLine" /\ c.content_length_ = 0
         /\ c.output = None /\ c.armed = None /\ ~c.closing_ /\ ~c.close_connection_
         /\ unsent = Rest(Whole, b) /\ b <= Len(Whole)
    BY <1>1, <1>4, <1>6, <1>7, <1>9, <1>11, <1>12
  <1> QED
    BY <1>13 DEF c

LEMMA HandleReadProgress ==
    ASSUME Typed, Progress, HandleRead
    PROVE  Progress' /\ AnswerStep
  <1> DEFINE c == [conn EXCEPT !.input = @ \o wire, !.armed = None]
             done == ProcessHttp(c)
             k == Len(asked)
             kind == Current.kind
  <1>1. PICK b \in Cuts \ {0} :
            /\ Unanswered /\ ~task /\ ~fin
            /\ c \in Connection(k) /\ c.input = SubSeq(Whole, 1, b)
            /\ c.state_ = "RequestLine" /\ c.content_length_ = 0
            /\ c.output = None /\ c.armed = None /\ ~c.closing_ /\ ~c.close_connection_
            /\ unsent = Rest(Whole, b) /\ b <= Len(Whole)
    BY ReadWhole
  <1>2. /\ Whole \in Seq(Piece(k)) /\ Len(Whole) \in Nat /\ Len(Whole) >= 3
        /\ k \in 1 .. k /\ k > 0 /\ Whole = Bytes(k, asked[k]) /\ asked \in Seq(Request)
    BY <1>1, WholeFacts DEF Unanswered, Typed
  <1>3. open /\ wire' = <<>> /\ UNCHANGED <<mode, asked, unsent, fin>>
    BY DEF HandleRead, Readable
  <1>4. Whole' = Whole /\ Cuts' = Cuts /\ Current' = Current
    BY <1>3 DEF Whole, Current, Cuts
  <1>5. \/ mode.pool /\ task' = TRUE /\ conn' = c /\ UNCHANGED <<answers, open>>
        \/ ~mode.pool /\ done.armed = None /\ Destroy
        \/ ~mode.pool /\ done.armed # None /\ WriteOnce(done) /\ UNCHANGED <<task, open>>
    BY DEF HandleRead
  <1> HIDE DEF c, done
  <1>6. CASE mode.pool /\ task' = TRUE /\ conn' = c /\ UNCHANGED <<answers, open>>
    <2>1. b \in Nat /\ b > 0
      BY <1>2 DEF Cuts
    <2>2. SubSeq(Whole, b + 1, b) = <<>>
      BY <2>1, SubSeqEmpty
    <2>3. ReceivingAt(b, b)'
      BY <1>1, <1>3, <1>4, <1>6, <2>1, <2>2 DEF ReceivingAt
    <2>4. Unanswered'
      BY <1>1, <1>3, <1>6 DEF Unanswered
    <2>5. Receiving'
      BY <1>4, <2>3, <2>4 DEF Receiving
    <2> QED
      BY <1>6, <2>5 DEF Progress, AnswerStep
  <1>7. CASE ~mode.pool /\ done.armed = None /\ Destroy
    BY <1>7 DEF Destroy, Progress, AnswerStep
  <1>8. CASE ~mode.pool /\ done.armed # None /\ WriteOnce(done) /\ UNCHANGED <<task, open>>
    <2>1. b = Len(Whole)
      BY <1>8 DEF Cuts
    <2>2. c.input = Bytes(k, asked[k]) /\ unsent = <<>>
      BY <1>1, <1>2, <2>1, SubSeqFull, SubSeqEmpty DEF Rest
    <2>3. /\ asked[k].kind \in {"bad_query", "undecodable"} => done.output = None /\ done.armed = c.armed
          /\ asked[k].kind = "no_fields" =>
                 /\ done.output = None /\ done.armed = "EPOLLIN"
                 /\ done.close_connection_ = c.close_connection_
          /\ asked[k].kind \notin Forgotten =>
                 done.output = Expected(k) /\ done.armed = "EPOLLOUT"
      BY <1>1, <1>2, <2>2, WholeProcessed DEF done
    <2>4. done \in Connection(k) /\ done.closing_ = c.closing_
      BY <1>1, <1>2, ProcessHttpType DEF done
    <2>5. CASE asked[k].kind \in {"bad_query", "undecodable"}
      BY <1>1, <1>8, <2>3, <2>5
    <2>6. CASE asked[k].kind = "no_fields"
      <3>1. done.output = None /\ ~done.close_connection_
        BY <1>1, <2>3, <2>6
      <3>2. conn' = Fresh /\ answers' = answers
        BY <1>8, <3>1 DEF WriteOnce, Written
      <3>3. ~conn'.closing_ /\ conn'.output = None /\ conn'.armed = "EPOLLIN"
        BY <3>2 DEF Fresh
      <3>4. Current'.kind \in Forgotten
        BY <1>4, <2>6 DEF Current, Forgotten
      <3> QED
        BY <1>1, <1>3, <1>8, <2>2, <3>2, <3>3, <3>4
           DEF Progress, Stuck, Unanswered, Arrived, AnswerStep
    <2>7. CASE asked[k].kind \notin Forgotten
      <3>1. done.output = Expected(k) /\ ~done.closing_
        BY <1>1, <2>3, <2>4, <2>7
      <3> QED
        BY <1>1, <1>2, <1>3, <1>8, <2>2, <2>4, <3>1, AnswerWritten DEF Unanswered
    <2> QED
      BY <2>5, <2>6, <2>7 DEF Forgotten
  <1> QED
    BY <1>5, <1>6, <1>7, <1>8

LEMMA WorkProgress ==
    ASSUME Typed, Progress, Work, open
    PROVE  Progress' /\ AnswerStep
  <1> DEFINE done == ProcessHttp(conn)
             k == Len(asked)
  <1>1. /\ open /\ task /\ ~task' /\ conn' = done
        /\ UNCHANGED <<mode, asked, unsent, wire, fin, answers, idle, open>>
    BY DEF Work
  <1>2. Receiving
    BY <1>1 DEF Progress, Idle, Stuck, Writing, Closing, Arrived
  <1>3. PICK a \in Cuts, b \in Cuts : ReceivingAt(a, b)
    BY <1>2 DEF Receiving
  <1>4. /\ Whole \in Seq(Piece(k)) /\ Len(Whole) \in Nat /\ Len(Whole) >= 3
        /\ k \in 1 .. k /\ k > 0 /\ Whole = Bytes(k, asked[k]) /\ asked \in Seq(Request)
        /\ Unanswered /\ Whole[1].part = "method"
    BY <1>2, WholeFacts DEF Receiving, Unanswered, Typed
  <1>5. a \in Nat \ {0} /\ b \in Nat /\ a <= b /\ b <= Len(Whole) /\ (a = 1 \/ a = Len(Whole))
    BY <1>1, <1>3, <1>4 DEF Cuts, ReceivingAt
  <1>6. /\ conn.output = None /\ ~conn.close_connection_ /\ ~conn.closing_
        /\ conn.state_ = "RequestLine" /\ conn.content_length_ = 0 /\ conn.armed = None
        /\ conn.input = SubSeq(Whole, 1, a) /\ wire = SubSeq(Whole, a + 1, b)
        /\ unsent = IF fin THEN <<>> ELSE Rest(Whole, b)
    BY <1>1, <1>3, <1>4 DEF ReceivingAt, Unanswered
  <1>7. conn \in Connection(k)
    BY DEF Typed
  <1>8. done \in Connection(k) /\ done.closing_ = conn.closing_
    BY <1>4, <1>7, ProcessHttpType
  <1>9. Whole' = Whole /\ Cuts' = Cuts /\ Current' = Current /\ Expected(k)' = Expected(k)
    BY <1>1 DEF Whole, Current, Cuts, Expected
  <1>10. Unanswered'
    BY <1>1, <1>4, <1>6, <1>8 DEF Unanswered
  <1>11. CASE a = 1
    <2>1. conn.input \in Seq(Piece(k)) /\ Len(conn.input) = 1 /\ conn.input[1] = Whole[1]
      BY <1>4, <1>6, <1>11, SubSeqType
    <2>2. Parse(conn) = Parsed("INCOMPLETE", "RequestLine", 0, NoRequest, conn.input)
      BY <1>4, <1>6, <2>1, MethodIsIncomplete DEF Parse
    <2> DEFINE parsed == [conn EXCEPT !.state_ = "RequestLine", !.content_length_ = 0]
    <2>3. done = [parsed EXCEPT !.armed = "EPOLLIN"]
      BY <2>2 DEF ProcessHttp, Parsed
    <2>4. /\ done.input = conn.input /\ done.output = conn.output
          /\ done.close_connection_ = conn.close_connection_
          /\ done.state_ = "RequestLine" /\ done.content_length_ = 0 /\ done.armed = "EPOLLIN"
      BY <1>7, <2>3 DEF Connection
    <2> HIDE DEF done
    <2>5. ReceivingAt(a, b)'
      BY <1>1, <1>4, <1>5, <1>6, <1>9, <1>11, <2>4 DEF ReceivingAt
    <2>6. Receiving'
      BY <1>9, <1>10, <2>5 DEF Receiving
    <2> QED
      BY <1>1, <2>6 DEF Progress, AnswerStep
  <1>12. CASE a = Len(Whole)
    <2>1. b = Len(Whole)
      BY <1>4, <1>5, <1>12
    <2>2. conn.input = Bytes(k, asked[k]) /\ wire = <<>> /\ unsent = <<>>
      BY <1>4, <1>6, <1>12, <2>1, SubSeqFull, SubSeqEmpty DEF Rest
    <2>3. /\ asked[k].kind \in {"bad_query", "undecodable"} => done.output = None /\ done.armed = conn.armed
          /\ asked[k].kind = "no_fields" => done.output = None /\ done.armed = "EPOLLIN"
          /\ asked[k].kind \notin Forgotten =>
                 done.output = Expected(k) /\ done.armed = "EPOLLOUT"
      BY <1>4, <1>6, <1>7, <2>2, WholeProcessed
    <2> HIDE DEF done
    <2>4. Arrived'
      BY <1>1, <2>2 DEF Arrived
    <2>5. CASE asked[k].kind \in Forgotten
      <3>1. conn'.output = None /\ conn'.armed # "EPOLLOUT" /\ Current'.kind \in Forgotten
        BY <1>1, <1>6, <1>9, <2>3, <2>5, NoneFacts DEF Current, Forgotten
      <3> QED
        BY <1>1, <1>10, <2>4, <3>1 DEF Progress, Stuck, AnswerStep
    <2>6. CASE asked[k].kind \notin Forgotten
      <3>1. conn'.output = Expected(k)' /\ conn'.armed = "EPOLLOUT" /\ k' = k
        BY <1>1, <1>9, <2>3, <2>6
      <3> QED
        BY <1>1, <1>10, <2>4, <3>1 DEF Progress, Writing, AnswerStep
    <2> QED
      BY <2>5, <2>6
  <1> QED
    BY <1>5, <1>11, <1>12

LEMMA ProgressStays ==
    ASSUME Progress, UNCHANGED <<mode, asked, unsent, wire, fin, conn, task, answers, open>>
    PROVE  Progress' /\ AnswerStep
  <1>1. UNCHANGED <<Whole, Cuts, Current>>
    BY DEF Whole, Cuts, Current
  <1>2. Idle => Idle'
    BY DEF Idle
  <1>3. Unanswered => Unanswered'
    BY DEF Unanswered
  <1>4. Receiving => Receiving'
    <2>1. \A a, b \in Cuts : ReceivingAt(a, b) => ReceivingAt(a, b)'
      BY <1>1 DEF ReceivingAt
    <2> QED
      BY <1>1, <1>3, <2>1 DEF Receiving
  <1>5. Stuck => Stuck'
    BY <1>1, <1>3 DEF Stuck, Arrived
  <1>6. Writing => Writing'
    <2>1. Expected(Len(asked))' = Expected(Len(asked))
      BY DEF Expected
    <2> QED
      BY <1>3, <2>1 DEF Writing, Arrived
  <1>7. Closing => Closing'
    BY DEF Closing
  <1> QED
    BY <1>2, <1>4, <1>5, <1>6, <1>7 DEF Progress, AnswerStep

LEMMA ServerProgress ==
    ASSUME Typed, Progress, Server
    PROVE  Progress' /\ AnswerStep
  <1>1. CASE HandleReadFails \/ HandleWriteFails \/ Timeout
    BY <1>1 DEF HandleReadFails, HandleWriteFails, Timeout, Destroy, Progress, AnswerStep
  <1>2. CASE HandleWrite
    <2>1. /\ open /\ conn.armed = "EPOLLOUT" /\ WriteOnce(conn)
          /\ UNCHANGED <<mode, asked, unsent, wire, fin, task, open>>
      BY <1>2 DEF HandleWrite
    <2>2. CASE Writing
      BY <2>1, <2>2, AnswerWritten DEF Writing, Unanswered, Arrived, Typed
    <2>3. conn.armed # "EPOLLOUT" \/ Writing
      BY <2>1, NoneFacts DEF Progress, Idle, Receiving, ReceivingAt, Stuck, Closing, Fresh
    <2> QED
      BY <2>1, <2>2, <2>3
  <1>3. CASE Work /\ ~open
    BY <1>3 DEF Work, Progress, AnswerStep
  <1>4. CASE Elapse
    BY <1>4, ProgressStays DEF Elapse
  <1> QED
    BY <1>1, <1>2, <1>3, <1>4, HandleReadProgress, WorkProgress DEF Server

LEMMA NextProgress == Typed /\ Progress /\ CutsAreHarmless /\ [Next]_vars => Progress' /\ AnswerStep
  <1>1. ASSUME Progress, UNCHANGED vars
        PROVE  Progress' /\ AnswerStep
    BY <1>1, ProgressStays DEF vars
  <1> QED
    BY <1>1, AskProgress, DeliverProgress, FinishProgress, ServerProgress DEF Next

LEMMA InitProgress == Init => Progress
  BY DEF Init, Progress, Idle

-----------------------------------------------------------------------------
(* What the client gets                                                    *)

\* Only the client adds to the requests, and never while it is owed an answer.
LEMMA AskedGrows ==
    ASSUME Typed, [Next]_vars
    PROVE  \/ asked' = asked
           \/ /\ Len(answers) = Len(asked) /\ UNCHANGED <<answers, open>>
              /\ \E r \in Request : asked' = Append(asked, r)
  <1>1. CASE Server
    BY <1>1 DEF Server, HandleReadFails, HandleRead, Work, HandleWrite, HandleWriteFails, Elapse, Timeout
  <1>2. ASSUME NEW r \in Request, Ask(r)
        PROVE  /\ Len(answers) = Len(asked) /\ UNCHANGED <<answers, open>>
               /\ asked' = Append(asked, r)
    BY <1>2 DEF Ask
  <1>3. ASSUME NEW n \in 1 .. Len(unsent), Deliver(n)
        PROVE  asked' = asked
    BY <1>3 DEF Deliver
  <1> QED
    BY <1>1, <1>2, <1>3 DEF Next, Finish, vars

\* What was expected stays so.
LEMMA ExpectedStays ==
    ASSUME Typed, [Next]_vars
    PROVE  /\ Len(asked) \in Nat /\ Len(asked') \in Nat /\ Len(asked) <= Len(asked')
           /\ \A i \in 1 .. Len(asked) : Expected(i)' = Expected(i)
  <1>1. asked \in Seq(Request) /\ Len(asked) \in Nat
    BY DEF Typed
  <1>2. CASE asked' = asked
    BY <1>1, <1>2 DEF Expected
  <1>3. CASE \E r \in Request : asked' = Append(asked, r)
    <2>1. Len(asked') = Len(asked) + 1 /\ \A i \in 1 .. Len(asked) : asked'[i] = asked[i]
      BY <1>1, <1>3, AppendProperties
    <2>2. \A i \in 1 .. Len(asked) : Expected(i)' = Expected(i)
      BY <2>1 DEF Expected
    <2> QED
      BY <1>1, <2>1, <2>2
  <1> QED
    BY <1>2, <1>3, AskedGrows

LEMMA MatchStep ==
    ASSUME Typed, AnswersMatch, AnswerStep, [Next]_vars
    PROVE  AnswersMatch'
  <1>1. answers \in Seq(Answer) /\ Len(answers) \in Nat /\ DOMAIN answers = 1 .. Len(answers)
    BY DEF Typed
  <1>2. /\ Len(asked) \in Nat /\ Len(asked') \in Nat /\ Len(asked) <= Len(asked')
        /\ \A i \in 1 .. Len(asked) : Expected(i)' = Expected(i)
    BY ExpectedStays
  <1>3. \A i \in 1 .. Len(answers) : i \in 1 .. Len(asked) /\ answers[i] = Expected(i)
    BY <1>1, <1>2 DEF AnswersMatch
  <1>4. CASE answers' = answers
    <2>1. \A i \in 1 .. Len(answers) : i <= Len(asked') /\ answers'[i] = Expected(i)'
      BY <1>2, <1>3, <1>4
    <2> QED
      BY <1>1, <1>4, <2>1 DEF AnswersMatch
  <1>5. CASE /\ Len(asked) > 0 /\ Len(answers) = Len(asked) - 1
             /\ answers' = Append(answers, Expected(Len(asked)))
             /\ open /\ UNCHANGED <<asked, open>>
    <2>1. Expected(Len(asked)) \in Answer
      <3>1. Len(asked) \in 1 .. Len(asked) /\ asked \in Seq(Request)
        BY <1>2, <1>5 DEF Typed
      <3> QED
        BY <3>1, ExpectedType
    <2>2. /\ Len(answers') = Len(asked) /\ answers' \in Seq(Answer)
          /\ \A i \in 1 .. Len(answers) : answers'[i] = answers[i]
          /\ answers'[Len(asked)] = Expected(Len(asked))
      BY <1>1, <1>2, <1>5, <2>1, AppendProperties
    <2>3. DOMAIN answers' = 1 .. Len(asked)
      BY <2>2
    <2>4. ASSUME NEW i \in 1 .. Len(asked)
          PROVE  i <= Len(asked') /\ answers'[i] = Expected(i)'
      <3>1. i \in 1 .. Len(answers) \/ i = Len(asked)
        BY <1>1, <1>2, <1>5
      <3>2. answers'[i] = Expected(i)
        BY <1>3, <2>2, <3>1
      <3> QED
        BY <1>2, <3>2
    <2> QED
      BY <2>3, <2>4 DEF AnswersMatch
  <1> QED
    BY <1>4, <1>5 DEF AnswerStep

\* http_conn.cpp:187, http_parser.cpp:85: a request that arrives in two reads is
\* put together again, so every answer is the right one to the request in its
\* place, for all requests, lengths of bodies and sizes of the buffer.
THEOREM AnswersAreRight == ASSUME CutsAreHarmless PROVE Spec => []AnswersMatch
  <1>1. Init => Typed /\ Progress /\ AnswersMatch
    <2>1. Init => AnswersMatch
      BY DEF Init, AnswersMatch
    <2> QED
      BY <2>1, TypedInit, InitProgress
  <1>2. Typed /\ Progress /\ AnswersMatch /\ [Next]_vars => (Typed /\ Progress /\ AnswersMatch)'
    BY TypedNext, NextProgress, MatchStep
  <1> QED
    BY <1>1, <1>2, PTL DEF Spec

\* What the client wants, as the refinement maps it.
Wanted == [i \in DOMAIN asked |-> Expected(i)]

WantedShape ==
    /\ Wanted \in Seq(Answer) /\ Len(Wanted) = Len(asked) /\ Len(asked) \in Nat
    /\ \A i \in 1 .. Len(asked) : Wanted[i] = Expected(i)

LEMMA WantedIs == Typed => WantedShape
  <1> SUFFICES ASSUME Typed PROVE WantedShape
    OBVIOUS
  <1>1. asked \in Seq(Request) /\ Len(asked) \in Nat /\ DOMAIN asked = 1 .. Len(asked)
    BY DEF Typed
  <1>2. \A i \in 1 .. Len(asked) : Expected(i) \in Answer
    BY <1>1, ExpectedType
  <1>3. Wanted = [i \in 1 .. Len(asked) |-> Expected(i)]
    BY <1>1 DEF Wanted
  <1> QED
    BY <1>1, <1>2, <1>3 DEF WantedShape

LEMMA ReplyStep ==
    ASSUME Typed, Typed', AnswerStep, [Next]_vars
    PROVE  [Reply!Next]_(Reply!vars)
  <1>1. /\ Wanted \in Seq(Answer) /\ Len(Wanted) = Len(asked) /\ Len(asked) \in Nat
        /\ \A i \in 1 .. Len(asked) : Wanted[i] = Expected(i)
    BY WantedIs DEF WantedShape
  <1>2. CASE asked' = asked
    <2>1. Wanted' = Wanted
      BY <1>2 DEF Wanted, Expected
    <2>2. CASE answers' = answers
      <3>1. open' = open \/ open' = FALSE
        BY DEF Next, vars, Server, HandleReadFails, HandleRead, Work, HandleWrite, HandleWriteFails,
               Elapse, Timeout, Destroy, Ask, Deliver, Finish
      <3> QED
        BY <2>1, <2>2, <3>1 DEF Reply!Next, Reply!Close, Reply!vars, Wanted
    <2>3. CASE /\ Len(asked) > 0 /\ Len(answers) = Len(asked) - 1
               /\ answers' = Append(answers, Expected(Len(asked)))
               /\ open /\ UNCHANGED <<asked, open>>
      <3>1. Len(answers) < Len(Wanted) /\ Wanted[Len(answers) + 1] = Expected(Len(asked))
        BY <1>1, <2>3
      <3> QED
        BY <2>1, <2>3, <3>1 DEF Reply!Next, Reply!Answer, Wanted
    <2> QED
      BY <2>2, <2>3 DEF AnswerStep
  <1>3. CASE /\ UNCHANGED <<answers, open>>
             /\ \E r \in Request : asked' = Append(asked, r)
    <2>1. Len(asked') = Len(asked) + 1
      BY <1>3, AppendProperties DEF Typed
    <2>2. /\ Wanted' \in Seq(Answer) /\ Len(Wanted') = Len(asked) + 1
          /\ \A i \in 1 .. Len(asked) : Wanted'[i] = Wanted[i]
      <3>1. /\ Wanted' \in Seq(Answer) /\ Len(Wanted') = Len(asked')
            /\ \A i \in 1 .. Len(asked') : Wanted'[i] = Expected(i)'
        <4>1. WantedShape'
          BY WantedIs, PTL
        <4> QED
          BY <4>1 DEF WantedShape
      <3>2. \A i \in 1 .. Len(asked) : Expected(i)' = Expected(i)
        BY ExpectedStays
      <3> QED
        BY <1>1, <2>1, <3>1, <3>2
    <2> HIDE DEF Wanted
    <2>3. SubSeq(Wanted', 1, Len(asked)) = Wanted
      BY <1>1, <2>2
    <2> QED
      BY <1>1, <1>3, <2>2, <2>3 DEF Reply!Next, Reply!Ask, Wanted
  <1> QED
    BY <1>2, <1>3, AskedGrows

\* http_conn.cpp:187, http_parser.cpp:85: a connection gives each request its
\* one answer, in the order of the requests, and none after it was closed.
THEOREM ConnectionImplementsRequestReply ==
    ASSUME CutsAreHarmless PROVE Spec => ImplementsRequestReply
  <1>1. Init => Reply!Init
    BY DEF Init, Reply!Init
  <1>2. Init => Typed /\ Progress
    BY TypedInit, InitProgress
  <1>3. Typed /\ Progress /\ [Next]_vars => (Typed /\ Progress)'
    BY TypedNext, NextProgress
  <1>4. Typed /\ Typed' /\ Progress /\ [Next]_vars => [Reply!Next]_(Reply!vars)
    BY NextProgress, ReplyStep
  <1> QED
    BY <1>1, <1>2, <1>3, <1>4, PTL DEF Spec, ImplementsRequestReply, Reply!Spec

-----------------------------------------------------------------------------
(* What may end a connection                                               *)

\* While a complete request waits, all of it is in the buffer or can be read.
LEMMA WholeWaits ==
    ASSUME Typed, NEW a \in Cuts, NEW b \in Cuts, ReceivingAt(a, b), Unanswered, ~fin, unsent = <<>>
    PROVE  /\ b = Len(Whole) /\ a \in Nat /\ a <= Len(Whole) /\ Len(Whole) \in Nat
           /\ Len(conn.input) = a /\ Len(wire) = Len(Whole) - a
           /\ Len(Parts(Current)) = Len(Whole)
  <1>1. Len(asked) > 0
    BY DEF Unanswered
  <1>2. /\ Len(asked) \in 1 .. Len(asked) /\ Current \in Request
        /\ Whole \in Seq(Piece(Len(asked))) /\ Len(Whole) \in Nat /\ Len(Whole) >= 3
    BY <1>1, WholeFacts
  <1>3. a \in Nat /\ b \in Nat /\ a <= b /\ b <= Len(Whole)
    BY <1>2 DEF Cuts, ReceivingAt
  <1>4. /\ conn.input = SubSeq(Whole, 1, a) /\ wire = SubSeq(Whole, a + 1, b)
        /\ unsent = Rest(Whole, b)
    BY DEF ReceivingAt
  <1>5. b = Len(Whole)
    <2>1. b \in 0 .. Len(Whole)
      BY <1>2, <1>3
    <2>2. Len(unsent) = Len(Whole) - b
      BY <1>2, <1>4, <2>1, RestType
    <2>3. Len(unsent) = 0
      BY EmptySeq
    <2> QED
      BY <1>2, <1>3, <2>2, <2>3
  <1>6. Len(conn.input) = a
    BY <1>2, <1>3, <1>4, SubSeqType
  <1>7. Len(wire) = Len(Whole) - a
    BY <1>2, <1>3, <1>4, <1>5, SubSeqType
  <1>8. Len(Parts(Current)) = Len(Whole)
    <2>1. Len(asked) \in Nat \ {0}
      BY <1>2
    <2> QED
      BY <1>2, <2>1, BytesShape DEF Whole
  <1> QED
    BY <1>2, <1>3, <1>5, <1>6, <1>7, <1>8

\* A step closes the connection in four ways.
LEMMA ClosingSteps ==
    ASSUME open, ~open', [Next]_vars
    PROVE  \/ HandleReadFails \/ HandleWriteFails \/ Timeout
           \/ /\ HandleRead /\ ~mode.pool
              /\ ProcessHttp([conn EXCEPT !.input = @ \o wire, !.armed = None]).armed = None
  <1>1. ASSUME HandleRead
        PROVE  /\ ~mode.pool
               /\ ProcessHttp([conn EXCEPT !.input = @ \o wire, !.armed = None]).armed = None
    BY <1>1 DEF HandleRead
  <1> QED
    BY <1>1 DEF Next, vars, Server, Work, HandleWrite, Elapse, Ask, Deliver, Finish

LEMMA CloseStep ==
    ASSUME Typed, Progress, [Next]_vars, open, ~open', Len(answers) < Len(asked), unsent = <<>>
    PROVE  Dropped
  <1> DEFINE k == Len(asked)
  <1>1. k \in Nat /\ k > 0 /\ BUFFER_SIZE \in Nat /\ k \in 1 .. k
    BY BufferSize DEF Typed
  <1>2. Receiving \/ Stuck \/ Writing \/ Closing
    BY <1>1 DEF Progress, Idle
  <1>3. CASE Closing
    BY <1>3 DEF Closing, Dropped
  <1>4. CASE Stuck
    BY <1>4 DEF Stuck, Dropped, Current, Forgotten
  <1>5. CASE fin
    BY <1>5 DEF Dropped
  <1>6. CASE Receiving /\ ~fin /\ HandleReadFails
    <2>1. PICK a \in Cuts, b \in Cuts : ReceivingAt(a, b)
      BY <1>6 DEF Receiving
    <2>2. Unanswered /\ ~conn.closing_
      BY <1>6 DEF Receiving, Unanswered
    <2>3. /\ b = Len(Whole) /\ a \in Nat /\ a <= Len(Whole) /\ Len(Whole) \in Nat
          /\ Len(conn.input) = a /\ Len(wire) = Len(Whole) - a
          /\ Len(Parts(Current)) = Len(Whole)
      BY <1>6, <2>1, <2>2, WholeWaits
    <2>4. BUFFER_SIZE - a = 0 \/ Len(Whole) - a >= BUFFER_SIZE - a
      BY <1>6, <2>2, <2>3 DEF HandleReadFails, ReadFails, room
    <2>5. Len(Whole) >= BUFFER_SIZE
      BY <1>1, <2>3, <2>4
    <2> QED
      BY <2>3, <2>5 DEF Dropped, Current
  <1>7. CASE Writing /\ HandleReadFails
    BY <1>7, NoneFacts DEF Writing, HandleReadFails, Readable
  <1> DEFINE c == [conn EXCEPT !.input = @ \o wire, !.armed = None]
  <1>8. CASE HandleRead /\ ~mode.pool /\ ProcessHttp(c).armed = None
    <2>1. PICK b \in Cuts \ {0} :
              /\ c \in Connection(k) /\ c.input = SubSeq(Whole, 1, b)
              /\ c.state_ = "RequestLine" /\ c.content_length_ = 0
              /\ c.output = None
      BY <1>8, ReadWhole
    <2> HIDE DEF c
    <2>2. /\ Whole \in Seq(Piece(k)) /\ Whole = Bytes(k, asked[k]) /\ asked \in Seq(Request)
      BY <1>1, WholeFacts DEF Typed
    <2>3. b = Len(Whole)
      BY <1>8 DEF Cuts
    <2>4. c.input = Bytes(k, asked[k])
      BY <2>1, <2>2, <2>3, SubSeqFull
    <2>5. /\ asked[k].kind = "no_fields" => ProcessHttp(c).armed = "EPOLLIN"
          /\ asked[k].kind \notin Forgotten => ProcessHttp(c).armed = "EPOLLOUT"
      BY <1>1, <2>1, <2>2, <2>4, WholeProcessed
    <2> QED
      BY <1>8, <2>5, NoneFacts DEF Dropped, Forgotten
  <1>9. CASE Timeout
    BY <1>9 DEF Timeout, Dropped
  <1>10. CASE HandleWriteFails
    BY <1>10 DEF HandleWriteFails, Dropped
  <1>11. \/ HandleReadFails \/ HandleWriteFails \/ Timeout
         \/ HandleRead /\ ~mode.pool /\ ProcessHttp(c).armed = None
    BY ClosingSteps
  <1> QED
    BY <1>2, <1>3, <1>4, <1>5, <1>6, <1>7, <1>8, <1>9, <1>10, <1>11

\* sub_reactor.cpp:157 and :177, input_buffer.cpp:17: a connection is not closed
\* over a request that has arrived, unless the client closes, the buffer is too
\* small, the request is one the parser waits on or forgets, or the loop has neither
\* read nor written for 15 s.
THEOREM CompleteRequestsAreKept ==
    ASSUME CutsAreHarmless PROVE Spec => CompleteRequestsAreAnswered
  <1>1. Init => Typed /\ Progress
    BY TypedInit, InitProgress
  <1>2. Typed /\ Progress /\ [Next]_vars => (Typed /\ Progress)'
    BY TypedNext, NextProgress
  <1>3. Typed /\ Progress /\ [Next]_vars => [CloseOnlyDropped]_vars
    BY CloseStep DEF CloseOnlyDropped
  <1> QED
    BY <1>1, <1>2, <1>3, PTL DEF Spec, CompleteRequestsAreAnswered
=============================================================================
