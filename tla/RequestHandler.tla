--------------------------- MODULE RequestHandler ---------------------------
(***************************************************************************)
(* From a parsed request to the response that OutputBuffer sends: the part *)
(* of ProcessHttp (http_conn.cpp) after parse(), with the pre-handlers of  *)
(* webserver.cpp, http_router.cpp, the page handlers of                    *)
(* http_controller.cpp, static_file_controller.cpp and http_response.cpp.  *)
(*                                                                         *)
(* Texts are abstracted to their lengths, URIs to what the routes can tell *)
(* apart, the file behind a URI to whether it is there and how long it is. *)
(***************************************************************************)
EXTENDS OutputBuffer

CONSTANTS
    HeaderLength,   \* the lengths of status line and headers
    TextLength,     \* the length of the text of an error page
    FileSize,       \* the sizes of files
    RangeBound,     \* the numbers in a Range field, of any size
    SIZE_MODULUS,   \* of size_t: 2^64
    None            \* no header field, no bound, no handler

ASSUME HandlerAssumption ==
    /\ HeaderLength \subseteq Nat \ {0}
    /\ TextLength \in Nat \ {0}
    /\ SIZE_MODULUS \in Nat \ {0}
    /\ FileSize \subseteq 0 .. SIZE_MODULUS - 1 /\ RangeBound \subseteq Nat
    /\ None \notin Nat \cup {"show", "serve", "submit"}

VARIABLES
    response,       \* response_
    asked, disk     \* of a partial response: the Range field, and the file

vars == <<outvars, response, asked, disk>>

Absent == [kind |-> "absent", size |-> 0]
Disk == {Absent, [kind |-> "directory", size |-> 0]}
            \cup [kind : {"regular"}, size : FileSize]

NoRange == <<>>
Malformed == <<None>>
Range == {NoRange, Malformed} \cup ((RangeBound \cup {None}) \X (RangeBound \cup {None}))
Request == [lacks : {None, "syntax", "host"},   \* what is wrong with it
            keep_alive : BOOLEAN,
            method : {"GET", "POST"},
            uri : {"page", "form", "document", "static", "media", "static media", "other"},
            range : Range,
            unchanged : BOOLEAN]    \* If-Modified-Since or If-None-Match applies

\* HttpResponse::reset().
Blank == [status |-> 200, text |-> 0, has_file |-> FALSE, start |-> 0, size |-> 0,
          content_length |-> None, keep_alive |-> TRUE]

HandlerInit ==
    /\ Init
    /\ response = Blank
    /\ asked = NoRange /\ disk = Absent

-----------------------------------------------------------------------------
(* HttpResponse                                                            *)

\* set_status and set_body, which also sets the Content-Length.
Text(resp, status) ==
    [resp EXCEPT !.status = status, !.text = TextLength, !.content_length = TextLength]

\* set_file, which looks at the size of the file.
SetFile(resp, f) ==
    [resp EXCEPT !.has_file = TRUE, !.start = 0, !.size = f.size]

\* build_response: a Content-Length that nobody has set.
BuildResponse(resp) ==
    [resp EXCEPT !.content_length =
        IF @ # None THEN @ ELSE IF resp.has_file THEN resp.size ELSE resp.text]

\* Finalize that keeps the length of the file that is gone.
FinalizeKeepsLength(resp, f) == BuildResponse(
    IF resp.has_file /\ f.kind # "regular"
    THEN [resp EXCEPT !.status = 404, !.text = TextLength, !.has_file = FALSE, !.size = 0]
    ELSE resp)

\* finalize: a file that is not there, or not any more, becomes a text.
Finalize(resp, f) == BuildResponse(
    IF resp.has_file /\ f.kind # "regular"
    THEN [Text(resp, 404) EXCEPT !.has_file = FALSE, !.size = 0]
    ELSE resp)

-----------------------------------------------------------------------------
(* The handlers                                                            *)

\* HandleRange that compares without the last byte.
HandleRangeOffByOne(range, f, resp) ==
    LET start == IF range[1] = None THEN 0 ELSE range[1]
        end == IF range[2] = None THEN (f.size - 1) % SIZE_MODULUS ELSE range[2] IN
    IF start >= f.size \/ end > f.size \/ start > end THEN [resp EXCEPT !.status = 416]
    ELSE [resp EXCEPT !.status = 206, !.content_length = end - start + 1,
                      !.has_file = TRUE, !.start = start, !.size = end - start + 1]

\* HandleRange that takes the bounds in any order.
HandleRangeUnordered(range, f, resp) ==
    LET start == IF range[1] = None THEN 0 ELSE range[1]
        end == IF range[2] = None THEN (f.size - 1) % SIZE_MODULUS ELSE range[2] IN
    IF start >= f.size \/ end >= f.size THEN [resp EXCEPT !.status = 416]
    ELSE [resp EXCEPT !.status = 206, !.content_length = end - start + 1,
                      !.has_file = TRUE, !.start = start, !.size = end - start + 1]

\* handleRangeRequest; fileSize - 1 wraps around for an empty file.
HandleRange(range, f, resp) ==
    LET start == IF range[1] = None THEN 0 ELSE range[1]
        end == IF range[2] = None THEN (f.size - 1) % SIZE_MODULUS ELSE range[2] IN
    IF start >= f.size \/ end >= f.size \/ start > end THEN [resp EXCEPT !.status = 416]
    ELSE [resp EXCEPT !.status = 206, !.content_length = end - start + 1,
                      !.has_file = TRUE, !.start = start, !.size = end - start + 1]

\* StaticFileController::serveStaticFile.
ServeStaticFile(req, f, resp) ==
    CASE f.kind = "absent" -> Text(resp, 403)
      [] f.kind = "directory" -> Text(resp, 500)
      [] f.kind = "regular" /\ req.range = Malformed -> Text(resp, 400)
      [] f.kind = "regular" /\ req.range \notin {NoRange, Malformed} -> HandleRange(req.range, f, resp)
      [] OTHER -> [SetFile(resp, f) EXCEPT !.status = IF req.unchanged THEN 304 ELSE 200]

\* std::stoull throws if a bound does not fit a size_t.
TooLarge(range) ==
    /\ range \notin {NoRange, Malformed}
    /\ \E i \in {1, 2} : range[i] # None /\ range[i] >= SIZE_MODULUS

\* What a handler may answer, if it does not throw.  That of a form redirects,
\* shows a page, or misses a field.
Answers(handler, req, f, resp) ==
    CASE handler = "show" -> {SetFile(resp, f)}
      [] handler = "serve" -> IF f.kind = "regular" /\ TooLarge(req.range) THEN {}
                              ELSE {ServeStaticFile(req, f, resp)}
      [] handler = "submit" -> {[resp EXCEPT !.status = 302], SetFile(resp, f), Text(resp, 400)}
      [] handler = None -> {Text(resp, 405)}

\* RegisterRoutes: which URIs a route is for, exactly or by a wildcard, and its
\* handlers.  HttpController::serveStaticFile shows the file it is asked for.
Routes == {
    [exact |-> TRUE, uris |-> {"page"}, GET |-> "show", POST |-> None],
    [exact |-> TRUE, uris |-> {"form"}, GET |-> "show", POST |-> "submit"],
    [exact |-> TRUE, uris |-> {"document"}, GET |-> "serve", POST |-> None],
    [exact |-> FALSE, uris |-> {"static", "static media"}, GET |-> "show", POST |-> None],
    [exact |-> FALSE, uris |-> {"media", "static media"}, GET |-> "serve", POST |-> None]}

\* HttpRouter::match: an exact route before a wildcard, and whichever wildcard
\* the unordered map has first.
Handlers(req) ==
    LET found == {r \in Routes : req.uri \in r.uris}
        best == IF \E r \in found : r.exact THEN {r \in found : r.exact} ELSE found
    IN  {r[req.method] : r \in best}

\* A URI without a route leaves the response as it is: nobody looks at what match
\* returns.
Match(req, f, resp) ==
    IF Handlers(req) = {} THEN {resp}
    ELSE UNION {Answers(handler, req, f, resp) : handler \in Handlers(req)}

\* ProcessHttp with the two pre-handlers: keep-alive, then the Host field.
Responses(req, f) ==
    LET resp == [Blank EXCEPT !.keep_alive = req.keep_alive] IN
    IF req.lacks = "syntax" THEN {Text(Blank, 400)}
    ELSE IF req.lacks = "host" THEN {Text(resp, 400)}
    ELSE Match(req, f, resp)

\* The response is finalized, when the file may be gone, and handed over.
ProcessHttp(req, f) ==
    /\ phase = "idle" /\ response.keep_alive
    /\ \E resp \in Responses(req, f), g \in {f, Absent}, h \in HeaderLength :
          LET final == Finalize(resp, g) IN
          /\ SetResponse(h + (IF final.has_file THEN 0 ELSE final.text), final.start, final.size,
                         final.has_file)
          /\ response' = final
          /\ asked' = IF final.status = 206 THEN req.range ELSE NoRange
          /\ disk' = IF final.status = 206 THEN f ELSE Absent

\* The handler throws.  ProcessHttp is left without a response and without an event
\* armed, so that nothing but the end of the connection can follow, by its timer or,
\* without the pool, with the process: the two are one step here.
ProcessHttpThrows(req, f) ==
    /\ phase = "idle" /\ response.keep_alive
    /\ req.lacks = None /\ "serve" \in Handlers(req)
    /\ f.kind = "regular" /\ TooLarge(req.range)
    /\ response' = [Blank EXCEPT !.keep_alive = req.keep_alive]
    /\ asked' = NoRange /\ disk' = Absent
    /\ Destroy

-----------------------------------------------------------------------------
HandlerNext ==
    \/ \E req \in Request, f \in Disk : ProcessHttp(req, f) \/ ProcessHttpThrows(req, f)
    \/ WriteTo /\ UNCHANGED <<response, asked, disk>>
    \/ Destroy /\ UNCHANGED <<response, asked, disk>>

\* The descriptor becomes writable again as long as the client reads.
HandlerSpec == HandlerInit /\ [][HandlerNext]_vars /\ WF_outvars(WriteTo)

-----------------------------------------------------------------------------
(* Properties.                                                             *)

TypeOK ==
    /\ OutputTypeOK
    /\ response \in [status : Nat, text : {0, TextLength}, has_file : BOOLEAN, start : Nat,
                     size : Nat, content_length : Nat \cup {None}, keep_alive : BOOLEAN]
    /\ asked \in Range /\ disk \in Disk

\* http_response.cpp:114-118: whichever handler answers, and also if the file goes
\* away before the response is finalized, the client receives as many bytes after
\* the header as the Content-Length says, so that it finds the beginning of the
\* next response.  (A file that cannot be opened after its length was announced,
\* output_buffer.cpp:49, is not covered: OpenMayFail.  Clients expect no bytes after
\* a 304, for which the code sends the file.)
Framed == phase = "idle" /\ response # Blank =>
    Len(stream) - (plan.header - (IF response.has_file THEN 0 ELSE response.text))
        = response.content_length

\* What arrives of a range is inside the file, even an empty one, and is the
\* range that was asked for if its first byte was given.
RangeServed == response.status = 206 =>
    LET last == response.start + response.size - 1 IN
    /\ response.start <= last /\ last < disk.size
    /\ asked[1] # None => response.start = asked[1]
    /\ asked[1] # None => last = IF asked[2] = None THEN disk.size - 1 ELSE asked[2]
=============================================================================
