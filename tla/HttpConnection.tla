--------------------------- MODULE HttpConnection ---------------------------
(***************************************************************************)
(* One connection and its client, from the bytes of the requests to the    *)
(* answers: http_conn.cpp with http_parser.cpp and input_buffer.cpp, as    *)
(* handleRead and handleWrite of sub_reactor.cpp call them, with and       *)
(* without the thread pool.                                                *)
(*                                                                         *)
(* A request is written in a few pieces, and TCP may deliver it cut after  *)
(* some of them.  A piece counts as one byte of the buffer.  An answer is  *)
(* known by what it was computed from.  The client waits for an answer     *)
(* before it sends the next request.  RequestHandler says what is answered *)
(* and OutputBuffer how that is sent; SubReactor has the races between the *)
(* timer, the loop and the workers, and a descriptor that is used again.   *)
(* Left out is a header line without a name, over which parse_headers      *)
(* loops for ever.                                                         *)
(***************************************************************************)
EXTENDS Integers, Sequences, SequencesExt

CONSTANTS
    Modes,          \* how the server is set up, and what the network may do
    Kinds, Bodies,  \* the requests: what is special, the lengths of bodies
    BUFFER_SIZE,
    MaxRequests,    \* bound on the requests of the client
    None

PartName == {"method", "line", "fields", "end", "blank", "body"}

ASSUME ConnectionAssumption ==
    /\ Modes \subseteq [pool : BOOLEAN, cuts : SUBSET PartName]
    /\ Kinds \subseteq {"plain", "bad", "bad_query", "no_host", "no_fields", "undecodable"}
    /\ Bodies \subseteq Nat /\ {BUFFER_SIZE, MaxRequests} \subseteq Nat

\* What an answer is computed from.
Answer == [line : Nat \cup {None}, fields : Nat, body : Seq([req : Nat, part : PartName])]

ASSUME NoneAssumption == None \notin Answer \cup {"EPOLLIN", "EPOLLOUT"}

VARIABLES
    mode,
    asked,          \* the requests of the client
    unsent, wire,   \* what it still has to send, and what recv() would return
    fin,            \* the client has closed its side
    conn,           \* the HttpConnection
    task,           \* a task of the pool will call ProcessHttp
    answers,        \* what the client has received
    idle,           \* 15 s have passed since the timer was set or refreshed
    open            \* the connection is not destroyed

vars == <<mode, asked, unsent, wire, fin, conn, task, answers, idle, open>>

Request == {r \in [kind : Kinds, keep : BOOLEAN, body : Bodies] :
               /\ r.kind \in {"bad", "bad_query", "no_fields"} => r.body = 0
               /\ r.kind = "undecodable" => r.body > 0}

\* A request without header fields ends with an empty line of its own.
Parts(r) ==
    <<"method", "line">> \o (IF r.kind = "no_fields" THEN <<"blank">> ELSE <<"fields", "end">>)
        \o [j \in 1 .. r.body |-> "body"]
Bytes(i, r) == [j \in DOMAIN Parts(r) |-> [req |-> i, part |-> Parts(r)[j]]]

-----------------------------------------------------------------------------
(* HttpRequestParser                                                       *)

\* A new HttpRequest: what its line, its fields and its body come from.
NoRequest == [line |-> 0, fields |-> 0, body |-> <<>>]

Find(in, parts) == SelectInSeq(in, LAMBDA b : b.part \in parts)
Rest(in, n) == SubSeq(in, n + 1, Len(in))

Parsed(result, state, length, request, rest) ==
    [result |-> result, state_ |-> state, content_length_ |-> length, request |-> request,
     rest |-> rest]

\* Forms are decoded when the fields seen in this call say that it is one.
ParseBody(in, length, request) ==
    IF Len(in) < length THEN Parsed("INCOMPLETE", "Body", length, request, in)
    ELSE IF request.fields # 0 /\ asked[request.fields].kind = "undecodable"
    THEN Parsed("throw", "Body", length, request, in)
    ELSE Parsed("OK", "Done", length, [request EXCEPT !.body = SubSeq(in, 1, length)],
                Rest(in, length))

\* The first empty line that follows another line: two ends of lines in a row.
EndOfFields(in) ==
    LET n == Find(Rest(in, 1), {"end", "blank"}) IN IF n = 0 THEN 0 ELSE n + 1

\* No field is seen if the buffer begins with an empty line; a request line among
\* the fields is one without a value.
ParseHeaders(in, length, request) ==
    LET n == EndOfFields(in)
        fields == IF n < 2 \/ in[n - 1].part # "fields" \/ in[1].part = "blank" THEN 0 ELSE in[n].req
        announced == IF fields = 0 THEN 0 ELSE asked[fields].body
        seen == [request EXCEPT !.fields = fields] IN
    IF n = 0 THEN Parsed("INCOMPLETE", "Headers", length, request, in)
    ELSE IF announced = 0 THEN Parsed("OK", "Done", 0, seen, Rest(in, n))
    ELSE ParseBody(Rest(in, n), announced, seen)

\* The request line ends with the first line feed.  The query of a GET is decoded
\* as a form is.
ParseRequestLine(in, length) ==
    LET n == Find(in, {"line", "fields", "end", "blank"}) IN
    IF n = 0 THEN Parsed("INCOMPLETE", "RequestLine", length, NoRequest, in)
    ELSE IF n # 2 \/ in[1].part # "method" \/ in[2] # [in[1] EXCEPT !.part = "line"]
                  \/ asked[in[1].req].kind = "bad"
    THEN Parsed("BAD_REQUEST", "RequestLine", length, NoRequest, in)
    ELSE IF asked[in[1].req].kind = "bad_query"
    THEN Parsed("throw", "RequestLine", length, NoRequest, in)
    ELSE ParseHeaders(Rest(in, 2), length, [NoRequest EXCEPT !.line = in[1].req])

\* parse() starts in the state where the last call ended, with a new HttpRequest
\* and at the beginning of the buffer.
Parse(c) ==
    CASE c.state_ = "RequestLine" -> ParseRequestLine(c.input, c.content_length_)
      [] c.state_ = "Headers" -> ParseHeaders(c.input, c.content_length_, NoRequest)
      [] c.state_ = "Body" -> ParseBody(c.input, c.content_length_, NoRequest)
      [] c.state_ = "Done" -> Parsed("OK", "Done", c.content_length_, NoRequest, c.input)

-----------------------------------------------------------------------------
(* HttpConnection                                                          *)

\* After Init(), which registers the descriptor.
Fresh == [input |-> <<>>, state_ |-> "RequestLine", content_length_ |-> 0, output |-> None,
          close_connection_ |-> FALSE, closing_ |-> FALSE, armed |-> "EPOLLIN"]

Error == [NoRequest EXCEPT !.line = None]

\* The pre-handlers reject a request without a Host.
AnswerTo(request) ==
    IF request.fields = 0 \/ asked[request.fields].kind = "no_host" THEN Error ELSE request

\* A connection is kept if the request is of a known version and asks for it.
KeepAlive(request) == request.line # 0 /\ request.fields # 0 /\ asked[request.fields].keep

\* ProcessHttp.  When parsing throws, nothing is armed.
ProcessHttp(c) ==
    LET p == Parse(c)
        parsed == [c EXCEPT !.state_ = p.state_, !.content_length_ = p.content_length_] IN
    CASE p.result = "OK" ->
            [parsed EXCEPT !.input = p.rest, !.output = AnswerTo(p.request), !.armed = "EPOLLOUT",
                           !.close_connection_ = @ \/ ~KeepAlive(p.request)]
      [] p.result = "INCOMPLETE" -> [parsed EXCEPT !.armed = "EPOLLIN"]
      [] p.result = "BAD_REQUEST" -> [parsed EXCEPT !.output = Error, !.armed = "EPOLLOUT"]
      [] p.result = "throw" -> parsed

\* Written that forgets to reset the parser.
WrittenKeepsParser(c) ==
    IF c.close_connection_
    THEN [c EXCEPT !.output = None, !.closing_ = TRUE, !.armed = "EPOLLIN"]
    ELSE [Fresh EXCEPT !.state_ = c.state_, !.content_length_ = c.content_length_]

\* Written that leaves the answer in the buffer.
WrittenTwice(c) ==
    IF c.close_connection_
    THEN [c EXCEPT !.closing_ = TRUE, !.armed = "EPOLLOUT"]
    ELSE Fresh

\* WriteOnce when nothing is left to write, with Init() or BeginGracefulClose().
Written(c) ==
    IF c.close_connection_
    THEN [c EXCEPT !.output = None, !.closing_ = TRUE, !.armed = "EPOLLIN"]
    ELSE Fresh

\* WriteOnce: all of an answer is out, or some of it is left.
WriteOnce(c) ==
    \/ /\ conn' = Written(c)
       /\ answers' = IF c.output = None THEN answers ELSE Append(answers, c.output)
    \/ /\ c.output # None
       /\ conn' = [c EXCEPT !.armed = "EPOLLOUT"]
       /\ UNCHANGED answers

Destroy ==
    /\ open' = FALSE
    /\ UNCHANGED <<conn, task, answers, idle>>

-----------------------------------------------------------------------------
(* The server                                                              *)

Readable == open /\ conn.armed = "EPOLLIN" /\ (wire # <<>> \/ fin)

room == BUFFER_SIZE - Len(conn.input)

\* ReadSucceeds that takes what the buffer has no room for.
ReadSucceedsBeyond == ~conn.closing_ /\ room > 0 /\ ~fin

\* read_et until there is nothing to read.
ReadSucceeds == ~conn.closing_ /\ room > 0 /\ ~fin /\ Len(wire) <= room

\* ReadFails one byte too early.
ReadFailsEarly == conn.closing_ \/ room = 0 \/ fin \/ Len(wire) >= room - 1

\* The client has closed, or the buffer is full: a recv() without room may return
\* 0 even if nothing is left to read.
ReadFails == conn.closing_ \/ room = 0 \/ fin \/ Len(wire) >= room

HandleReadFails ==
    /\ Readable /\ ReadFails
    /\ Destroy
    /\ wire' = <<>>
    /\ UNCHANGED <<mode, asked, unsent, fin>>

HandleRead ==
    LET c == [conn EXCEPT !.input = @ \o wire, !.armed = None]
        done == ProcessHttp(c) IN
    /\ Readable /\ ReadSucceeds
    /\ wire' = <<>>
    /\ IF mode.pool
       THEN task' = TRUE /\ conn' = c /\ idle' = FALSE /\ UNCHANGED <<answers, open>>
       \* Without the pool an exception ends the process.
       ELSE IF done.armed = None THEN Destroy
       ELSE WriteOnce(done) /\ idle' = FALSE /\ UNCHANGED <<task, open>>
    /\ UNCHANGED <<mode, asked, unsent, fin>>

\* The future of the task swallows an exception.  A task whose connection is gone
\* does nothing.
Work ==
    /\ task /\ task' = FALSE
    /\ conn' = IF open THEN ProcessHttp(conn) ELSE conn
    /\ UNCHANGED <<mode, asked, unsent, wire, fin, answers, idle, open>>

HandleWrite ==
    /\ open /\ conn.armed = "EPOLLOUT"
    /\ WriteOnce(conn)
    /\ idle' = FALSE
    /\ UNCHANGED <<mode, asked, unsent, wire, fin, task, open>>

\* The client has closed: what is sent to it may be refused.
HandleWriteFails ==
    /\ open /\ conn.armed = "EPOLLOUT" /\ fin
    /\ Destroy
    /\ UNCHANGED <<mode, asked, unsent, wire, fin>>

\* 15 s pass without a refresh, whatever goes on meanwhile: only the handlers of
\* the loop refresh, not a worker.
Elapse ==
    /\ open /\ ~idle /\ idle' = TRUE
    /\ UNCHANGED <<mode, asked, unsent, wire, fin, conn, task, answers, open>>

\* Timeout that spares a connection that waits for no event.
TimeoutIfArmed ==
    /\ open /\ idle /\ conn.armed # None
    /\ Destroy
    /\ UNCHANGED <<mode, asked, unsent, wire, fin>>

\* The callback of the timer, which tick() runs after the events of a batch.  It
\* asks neither for a task, nor for bytes to read or an answer to write.
Timeout ==
    /\ open /\ idle
    /\ Destroy
    /\ UNCHANGED <<mode, asked, unsent, wire, fin>>

-----------------------------------------------------------------------------
(* The client and the network                                              *)

Ask(r) ==
    /\ open /\ ~fin /\ Len(asked) < MaxRequests
    /\ Len(answers) = Len(asked)
    /\ asked' = Append(asked, r)
    /\ unsent' = unsent \o Bytes(Len(asked'), r)
    /\ UNCHANGED <<mode, wire, fin, conn, task, answers, idle, open>>

Deliver(n) ==
    /\ open
    /\ n = Len(unsent) \/ unsent[n].part \in mode.cuts
    /\ wire' = wire \o SubSeq(unsent, 1, n)
    /\ unsent' = Rest(unsent, n)
    /\ UNCHANGED <<mode, asked, fin, conn, task, answers, idle, open>>

Finish ==
    /\ open /\ ~fin /\ fin' = TRUE
    /\ unsent' = <<>>
    /\ UNCHANGED <<mode, asked, wire, conn, task, answers, idle, open>>

-----------------------------------------------------------------------------
Init ==
    /\ mode \in Modes
    /\ asked = <<>> /\ unsent = <<>> /\ wire = <<>> /\ fin = FALSE
    /\ conn = Fresh /\ task = FALSE
    /\ answers = <<>> /\ idle = FALSE /\ open = TRUE

Server ==
    \/ HandleReadFails \/ HandleRead \/ Work \/ HandleWrite \/ HandleWriteFails
    \/ Elapse \/ Timeout

Next ==
    \/ Server
    \/ \E r \in Request : Ask(r)
    \/ \E n \in 1 .. Len(unsent) : Deliver(n)
    \/ Finish

\* Neither the loop nor a worker has anything to do for the connection.
Quiet == ~task /\ conn.armed # "EPOLLOUT" /\ ~Readable

\* The loop and the workers go on, and an answer is cut finitely often.  That 15 s
\* pass is taken for granted only where nothing else can happen, so that the timer
\* does not stand in for a loop or a worker that stops.
Spec ==
    /\ Init /\ [][Next]_vars
    /\ WF_vars(HandleReadFails \/ HandleRead) /\ WF_vars(Work)
    /\ WF_vars(HandleWrite /\ conn' = Written(conn))
    /\ WF_vars(Quiet /\ (Elapse \/ Timeout))

-----------------------------------------------------------------------------
(* Properties.                                                             *)

TypeOK ==
    /\ mode \in Modes /\ asked \in Seq(Request)
    /\ {fin, task, idle, open} \subseteq BOOLEAN
    /\ conn.armed \in {None, "EPOLLIN", "EPOLLOUT"} /\ {conn.close_connection_, conn.closing_} \subseteq BOOLEAN
    /\ conn.state_ \in {"RequestLine", "Headers", "Body", "Done"} /\ conn.content_length_ \in Nat
    /\ Len(conn.input) <= BUFFER_SIZE

\* The right answer to request i is computed from all of it.
Expected(i) ==
    IF asked[i].kind \in {"bad", "no_host", "no_fields"} THEN Error
    ELSE [line |-> i, fields |-> i, body |-> [j \in 1 .. asked[i].body |-> [req |-> i, part |-> "body"]]]

\* http_conn.cpp:187, http_parser.cpp:85: the server keeps waiting for the rest
\* of a request.  Every answer is that to the request in its place.
AnswersMatch ==
    \A i \in DOMAIN answers : i <= Len(asked) /\ answers[i] = Expected(i)

\* No answer is lost, repeated or overtaken, and none follows the end.
Reply == INSTANCE RequestReply WITH wanted <- [i \in DOMAIN asked |-> Expected(i)]
ImplementsRequestReply == Reply!Spec

\* What may have become of a complete request that is never answered.
Dropped ==
    LET last == asked[Len(asked)] IN
    \/ fin \/ conn.closing_
    \/ idle
    \/ Len(Parts(last)) >= BUFFER_SIZE
    \/ last.kind \in {"bad_query", "no_fields", "undecodable"}

CloseOnlyDropped == open /\ ~open' /\ Len(answers) < Len(asked) /\ unsent = <<>> => Dropped

\* A complete, decodable request is dropped only if the client closes, the request
\* fills the buffer, or the loop has neither read nor written for 15 s: while the
\* request waited for the loop or a worker, while that waited for the database, or
\* while the client did not take its answer.
CompleteRequestsAreAnswered == [][CloseOnlyDropped]_vars

\* Nobody waits for ever: a request is answered or the connection is closed.
AnsweredOrClosed == \A i \in 1 .. MaxRequests :
    Len(asked) = i ~> Len(answers) >= i \/ ~open
=============================================================================
