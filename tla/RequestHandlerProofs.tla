------------------------- MODULE RequestHandlerProofs -------------------------
(***************************************************************************)
(* Theorems about RequestHandler: ranges, whatever is asked for; framing,  *)
(* if an announced file can be opened; and those of OutputBuffer about the *)
(* responses that it is handed.                                            *)
(***************************************************************************)
EXTENDS RequestHandler, OutputBufferProofs

ResponseType ==
    [status : Nat, text : {0, TextLength}, has_file : BOOLEAN, start : Nat, size : Nat,
     content_length : Nat \cup {None}, keep_alive : BOOLEAN]

\* What is sent after the header.
BodyLength(resp) == IF resp.has_file THEN resp.size ELSE resp.text

\* A partial response is the range that was asked for.
Served(resp, range, f) ==
    LET last == resp.start + resp.size - 1 IN
    /\ resp.start <= last /\ last < f.size
    /\ range[1] # None => resp.start = range[1]
    /\ range[1] # None => last = IF range[2] = None THEN f.size - 1 ELSE range[2]

\* What every handler leaves behind.
Sound(resp, range, f) ==
    /\ resp \in ResponseType
    /\ ~resp.has_file => resp.size = 0
    /\ resp.content_length # None => resp.content_length = BodyLength(resp)
    /\ resp.status = 206 => resp.has_file /\ Served(resp, range, f)

-----------------------------------------------------------------------------
(* The handlers                                                             *)

LEMMA ConstantFacts ==
    /\ TextLength \in Nat \ {0} /\ SIZE_MODULUS \in Nat \ {0} /\ None \notin Nat
    /\ \A f \in Disk : /\ f.size \in Nat /\ f.size < SIZE_MODULUS
                       /\ f.kind \in {"absent", "directory", "regular"}
  <1>1. ASSUME NEW f \in Disk
        PROVE  /\ f.size \in Nat /\ f.size < SIZE_MODULUS
               /\ f.kind \in {"absent", "directory", "regular"}
    <2>1. CASE f \in [kind : {"regular"}, size : FileSize]
      <3>1. f.size \in 0 .. SIZE_MODULUS - 1 /\ f.kind = "regular"
        BY <2>1, HandlerAssumption
      <3> QED
        BY <3>1, HandlerAssumption
    <2>2. CASE f \in {Absent, [kind |-> "directory", size |-> 0]}
      BY <2>2, HandlerAssumption DEF Absent
    <2> QED
      BY <2>1, <2>2 DEF Disk
  <1> QED
    BY <1>1, HandlerAssumption

\* What the pre-handlers hand over.
Fresh(resp) == \E k \in BOOLEAN :
    resp = [status |-> 200, text |-> 0, has_file |-> FALSE, start |-> 0, size |-> 0,
            content_length |-> None, keep_alive |-> k]

LEMMA BlankFresh ==
    ASSUME NEW resp, NEW k \in BOOLEAN, resp = [Blank EXCEPT !.keep_alive = k]
    PROVE  Fresh(resp)
  <1>1. resp = [status |-> 200, text |-> 0, has_file |-> FALSE, start |-> 0, size |-> 0,
                content_length |-> None, keep_alive |-> k]
    BY DEF Blank
  <1> QED
    BY <1>1 DEF Fresh

LEMMA ResponseExcept ==
    ASSUME NEW resp \in ResponseType, NEW n \in Nat
    PROVE  /\ [resp EXCEPT !.status = n] \in ResponseType
           /\ [resp EXCEPT !.content_length = n] \in ResponseType
           /\ [resp EXCEPT !.has_file = TRUE] \in ResponseType
           /\ [resp EXCEPT !.start = n] \in ResponseType
           /\ [resp EXCEPT !.size = n] \in ResponseType
  <1>1. /\ [resp EXCEPT !.status = n] \in ResponseType
        /\ [resp EXCEPT !.content_length = n] \in ResponseType
    BY DEF ResponseType
  <1>2. [resp EXCEPT !.has_file = TRUE] \in ResponseType
    BY DEF ResponseType
  <1>3. /\ [resp EXCEPT !.start = n] \in ResponseType
        /\ [resp EXCEPT !.size = n] \in ResponseType
    BY DEF ResponseType
  <1> QED
    BY <1>1, <1>2, <1>3

LEMMA FreshSound ==
    ASSUME NEW resp, Fresh(resp)
    PROVE  /\ resp \in ResponseType /\ ~resp.has_file /\ resp.size = 0
           /\ resp.status = 200 /\ resp.content_length = None
  <1>1. PICK k \in BOOLEAN :
           resp = [status |-> 200, text |-> 0, has_file |-> FALSE, start |-> 0, size |-> 0,
                   content_length |-> None, keep_alive |-> k]
    BY DEF Fresh
  <1> QED
    BY <1>1, ConstantFacts DEF ResponseType

LEMMA TextFields ==
    ASSUME NEW resp \in ResponseType, NEW status \in Nat
    PROVE  /\ Text(resp, status) \in ResponseType
           /\ Text(resp, status).status = status /\ Text(resp, status).text = TextLength
           /\ Text(resp, status).content_length = TextLength
           /\ Text(resp, status).has_file = resp.has_file /\ Text(resp, status).size = resp.size
  <1>1. Text(resp, status) \in ResponseType
    BY ConstantFacts DEF Text, ResponseType
  <1> QED
    BY <1>1 DEF Text, ResponseType

LEMMA TextSound ==
    ASSUME NEW resp \in ResponseType, ~resp.has_file, resp.size = 0,
           NEW status \in Nat, status # 206, NEW range, NEW f
    PROVE  Sound(Text(resp, status), range, f)
  BY SMTT(30), TextFields DEF Sound, BodyLength

LEMMA SetFileSound ==
    ASSUME NEW resp, Fresh(resp), NEW f \in Disk, NEW range
    PROVE  Sound(SetFile(resp, f), range, f)
  <1>1. /\ resp \in ResponseType /\ resp.content_length = None /\ resp.status = 200
    BY FreshSound
  <1>2. f.size \in Nat
    BY ConstantFacts
  <1>3. /\ SetFile(resp, f) \in ResponseType
        /\ SetFile(resp, f).has_file /\ SetFile(resp, f).content_length = None
        /\ SetFile(resp, f).status = 200
    BY <1>1, <1>2 DEF SetFile, ResponseType
  <1> QED
    BY <1>3 DEF Sound

LEMMA SetFileStatusSound ==
    ASSUME NEW resp, Fresh(resp), NEW f \in Disk, NEW range, NEW status \in {200, 304},
           NEW r, r = [SetFile(resp, f) EXCEPT !.status = status]
    PROVE  Sound(r, range, f)
  <1>1. /\ resp \in ResponseType /\ resp.content_length = None /\ resp.status = 200
    BY FreshSound
  <1>2. f.size \in Nat
    BY ConstantFacts
  <1>3. /\ SetFile(resp, f) \in ResponseType
        /\ SetFile(resp, f).has_file /\ SetFile(resp, f).content_length = None
        /\ SetFile(resp, f).status = 200
    BY <1>1, <1>2 DEF SetFile, ResponseType
  <1>4. r \in ResponseType /\ r.has_file /\ r.content_length = None /\ r.status # 206
    BY <1>3 DEF ResponseType
  <1> QED
    BY <1>4 DEF Sound

\* static_file_controller.cpp:116: the arithmetic of a range.
LEMMA RangeSound ==
    ASSUME NEW resp, Fresh(resp), NEW f \in Disk, NEW range \in Range, range \notin {NoRange, Malformed}
    PROVE  Sound(HandleRange(range, f, resp), range, f)
  <1>1. /\ resp \in ResponseType /\ ~resp.has_file /\ resp.size = 0
        /\ resp.content_length = None /\ resp.status = 200
    BY FreshSound
  <1>2. f.size \in Nat /\ f.size < SIZE_MODULUS /\ SIZE_MODULUS \in Nat \ {0} /\ None \notin Nat
    BY ConstantFacts
  <1>3. range[1] \in Nat \cup {None} /\ range[2] \in Nat \cup {None}
    <2>1. range \in (RangeBound \cup {None}) \X (RangeBound \cup {None})
      BY DEF Range
    <2>2. RangeBound \subseteq Nat
      BY HandlerAssumption
    <2> QED
      BY <2>1, <2>2
  <1> DEFINE start == IF range[1] = None THEN 0 ELSE range[1]
             end == IF range[2] = None THEN (f.size - 1) % SIZE_MODULUS ELSE range[2]
             r416 == [resp EXCEPT !.status = 416]
             r206 == [resp EXCEPT !.status = 206, !.content_length = end - start + 1,
                                  !.has_file = TRUE, !.start = start, !.size = end - start + 1]
  <1>4. start \in Nat /\ end \in Nat
    BY <1>2, <1>3
  <1>5. HandleRange(range, f, resp) =
            IF start >= f.size \/ end >= f.size \/ start > end THEN r416 ELSE r206
    BY DEF HandleRange
  <1>6. CASE start >= f.size \/ end >= f.size \/ start > end
    <2>1. /\ r416 \in ResponseType /\ r416.status = 416 /\ r416.content_length = None
          /\ r416.size = 0
      BY <1>1 DEF ResponseType
    <2>2. HandleRange(range, f, resp) = r416
      BY <1>5, <1>6
    <2> HIDE DEF r416
    <2> QED
      BY <2>1, <2>2 DEF Sound
  <1>7. CASE ~(start >= f.size \/ end >= f.size \/ start > end)
    <2>1. start <= end /\ end < f.size /\ end - start + 1 \in Nat
      BY <1>2, <1>4, <1>7
    <2>2. range[2] = None => end = f.size - 1
      BY <1>2, <1>4, <2>1
    <2>3. /\ r206 \in ResponseType /\ r206.status = 206 /\ r206.has_file
          /\ r206.content_length = end - start + 1
          /\ r206.start = start /\ r206.size = end - start + 1
      <3> DEFINE size == end - start + 1
      <3>1. size \in Nat
        BY <2>1
      <3>2. r206 = [resp EXCEPT !.status = 206, !.content_length = size,
                                !.has_file = TRUE, !.start = start, !.size = size]
        OBVIOUS
      <3> HIDE DEF size, start, end, r206
      <3>3. /\ r206 \in ResponseType /\ r206.status = 206 /\ r206.has_file
            /\ r206.content_length = size /\ r206.start = start /\ r206.size = size
        <4>1. resp \in ResponseType /\ size \in Nat /\ start \in Nat
          BY <1>1, <1>4, <3>1
        <4>2. r206 \in ResponseType
          <5> DEFINE r1 == [resp EXCEPT !.status = 206]
                     r2 == [r1 EXCEPT !.content_length = size]
                     r3 == [r2 EXCEPT !.has_file = TRUE]
                     r4 == [r3 EXCEPT !.start = start]
          <5>1. r206 = [r4 EXCEPT !.size = size]
            BY <3>2
          <5>2. 206 \in Nat
            OBVIOUS
          <5>3. r1 \in ResponseType
            BY Zenon, <4>1, <5>2, ResponseExcept
          <5> HIDE DEF r1
          <5>4. r2 \in ResponseType
            BY Zenon, <4>1, <5>3, ResponseExcept
          <5> HIDE DEF r2
          <5>5. r3 \in ResponseType
            BY Zenon, <4>1, <5>4, ResponseExcept
          <5> HIDE DEF r3
          <5>6. r4 \in ResponseType
            BY Zenon, <4>1, <5>5, ResponseExcept
          <5> HIDE DEF r4
          <5> QED
            BY Zenon, <4>1, <5>1, <5>6, ResponseExcept
        <4>3. /\ r206.status = 206 /\ r206.has_file
              /\ r206.content_length = size /\ r206.start = start /\ r206.size = size
          BY ONLY <3>2, <4>1 DEF ResponseType
        <4> QED
          BY <4>2, <4>3
      <3> QED
        BY <3>3 DEF size
    <2>4. HandleRange(range, f, resp) = r206
      BY <1>5, <1>7
    <2> HIDE DEF r206
    <2>5. r206.start + r206.size - 1 = end
      BY <1>4, <2>1, <2>3
    <2>6. range[2] # None => end = range[2]
      OBVIOUS
    <2>7. range[1] # None => start = range[1]
      OBVIOUS
    <2> HIDE DEF start, end
    <2>8. Served(r206, range, f)
      BY <2>1, <2>2, <2>3, <2>5, <2>6, <2>7 DEF Served
    <2> QED
      BY <2>3, <2>4, <2>8 DEF Sound, BodyLength
  <1> QED
    BY <1>6, <1>7

LEMMA ServeSound ==
    ASSUME NEW req \in Request, NEW f \in Disk, NEW resp, Fresh(resp)
    PROVE  Sound(ServeStaticFile(req, f, resp), req.range, f)
  <1>1. resp \in ResponseType /\ ~resp.has_file /\ resp.size = 0
    BY FreshSound
  <1>2. req.range \in Range /\ f.kind \in {"absent", "directory", "regular"}
    BY ConstantFacts DEF Request
  <1>3. CASE f.kind = "absent"
    BY <1>1, <1>3, TextSound DEF ServeStaticFile
  <1>4. CASE f.kind = "directory"
    BY <1>1, <1>4, TextSound DEF ServeStaticFile
  <1>5. CASE f.kind = "regular" /\ req.range = Malformed
    BY <1>1, <1>5, TextSound DEF ServeStaticFile
  <1>6. CASE f.kind = "regular" /\ req.range \notin {NoRange, Malformed}
    <2>1. ServeStaticFile(req, f, resp) = HandleRange(req.range, f, resp)
      BY <1>6 DEF ServeStaticFile
    <2> QED
      BY <1>2, <1>6, <2>1, RangeSound
  <1>7. CASE f.kind = "regular" /\ req.range = NoRange
    <2>1. NoRange # Malformed
      BY DEF NoRange, Malformed
    <2>2. ServeStaticFile(req, f, resp) =
              [SetFile(resp, f) EXCEPT !.status = IF req.unchanged THEN 304 ELSE 200]
      BY <1>7, <2>1 DEF ServeStaticFile
    <2>3. PICK status \in {200, 304} : status = IF req.unchanged THEN 304 ELSE 200
      OBVIOUS
    <2> QED
      BY <2>2, <2>3, SetFileStatusSound
  <1> QED
    BY <1>2, <1>3, <1>4, <1>5, <1>6, <1>7

LEMMA AnswersSound ==
    ASSUME NEW req \in Request, NEW f \in Disk, NEW resp, Fresh(resp),
           NEW handler \in {"show", "serve", "submit", None}, NEW r \in Answers(handler, req, f, resp)
    PROVE  Sound(r, req.range, f)
  <1>1. /\ resp \in ResponseType /\ ~resp.has_file /\ resp.size = 0
        /\ resp.content_length = None /\ resp.status = 200
    BY FreshSound
  <1>2. Sound(SetFile(resp, f), req.range, f)
    BY SetFileSound
  <1>7. None \notin {"show", "serve", "submit"}
    BY HandlerAssumption
  <1>3. CASE handler = "show"
    <2>1. Answers(handler, req, f, resp) = {SetFile(resp, f)}
      BY <1>3, <1>7 DEF Answers
    <2> QED
      BY <1>2, <2>1
  <1>4. CASE handler = "serve"
    <2>1. r = ServeStaticFile(req, f, resp)
      BY <1>4, <1>7 DEF Answers
    <2> QED
      BY <2>1, ServeSound
  <1>5. CASE handler = "submit"
    <2>1. Sound([resp EXCEPT !.status = 302], req.range, f)
      <3> DEFINE r302 == [resp EXCEPT !.status = 302]
      <3>1. /\ r302 \in ResponseType /\ r302.status = 302 /\ r302.content_length = None
            /\ r302.size = 0
        BY <1>1 DEF ResponseType
      <3> HIDE DEF r302
      <3>2. Sound(r302, req.range, f)
        BY <3>1 DEF Sound
      <3> QED
        BY <3>2 DEF r302
    <2>2. Sound(Text(resp, 400), req.range, f)
      BY <1>1, TextSound
    <2>3. Answers(handler, req, f, resp) =
              {[resp EXCEPT !.status = 302], SetFile(resp, f), Text(resp, 400)}
      BY <1>5, <1>7 DEF Answers
    <2> QED
      BY <1>2, <2>1, <2>2, <2>3
  <1>6. CASE handler = None
    <2>1. Answers(handler, req, f, resp) = {Text(resp, 405)}
      BY <1>6, <1>7 DEF Answers
    <2> QED
      BY <1>1, <2>1, TextSound
  <1> QED
    BY <1>3, <1>4, <1>5, <1>6

LEMMA RouteHandlers ==
    ASSUME NEW r \in Routes
    PROVE  /\ r["GET"] \in {"show", "serve", "submit", None}
           /\ r["POST"] \in {"show", "serve", "submit", None}
  <1>1. CASE r = [exact |-> TRUE, uris |-> {"page"}, GET |-> "show", POST |-> None]
    BY <1>1
  <1>2. CASE r = [exact |-> TRUE, uris |-> {"form"}, GET |-> "show", POST |-> "submit"]
    BY <1>2
  <1>3. CASE r = [exact |-> TRUE, uris |-> {"document"}, GET |-> "serve", POST |-> None]
    BY <1>3
  <1>4. CASE r = [exact |-> FALSE, uris |-> {"static", "static media"}, GET |-> "show", POST |-> None]
    BY <1>4
  <1>5. CASE r = [exact |-> FALSE, uris |-> {"media", "static media"}, GET |-> "serve", POST |-> None]
    BY <1>5
  <1> QED
    BY <1>1, <1>2, <1>3, <1>4, <1>5, Zenon DEF Routes

LEMMA HandlersType ==
    ASSUME NEW req \in Request, NEW handler \in Handlers(req)
    PROVE  handler \in {"show", "serve", "submit", None}
  <1>1. PICK r \in Routes : handler = r[req.method]
    BY DEF Handlers
  <1>2. req.method \in {"GET", "POST"}
    BY DEF Request
  <1> QED
    BY <1>1, <1>2, RouteHandlers

\* http_conn.cpp:160: whatever comes in, what ProcessHttp finalizes is sound.
LEMMA ResponsesSound ==
    ASSUME NEW req \in Request, NEW f \in Disk, NEW resp \in Responses(req, f)
    PROVE  Sound(resp, req.range, f)
  <1> DEFINE fresh == [Blank EXCEPT !.keep_alive = req.keep_alive]
  <1>1. Fresh(fresh)
    <2>1. req.keep_alive \in BOOLEAN
      BY DEF Request
    <2> QED
      BY <2>1, BlankFresh
  <1>2. Fresh(Blank)
    BY DEF Blank, Fresh
  <1>3. CASE req.lacks = "syntax"
    <2>1. resp = Text(Blank, 400)
      BY <1>3 DEF Responses
    <2> QED
      BY <1>2, <2>1, FreshSound, TextSound
  <1>4. CASE req.lacks # "syntax" /\ req.lacks = "host"
    <2>1. resp = Text(fresh, 400)
      BY <1>4 DEF Responses
    <2> HIDE DEF fresh
    <2> QED
      BY <1>1, <2>1, FreshSound, TextSound
  <1>5. CASE req.lacks # "syntax" /\ req.lacks # "host"
    <2>1. resp \in Match(req, f, fresh)
      BY <1>5 DEF Responses
    <2> HIDE DEF fresh
    <2>2. CASE resp = fresh
      BY <1>1, <2>2, FreshSound DEF Sound
    <2>3. CASE resp # fresh
      <3>1. PICK handler \in Handlers(req) : resp \in Answers(handler, req, f, fresh)
        BY <2>1, <2>3 DEF Match
      <3>2. handler \in {"show", "serve", "submit", None}
        BY HandlersType
      <3> QED
        BY <1>1, <3>1, <3>2, AnswersSound
    <2> QED
      BY <2>2, <2>3
  <1> QED
    BY <1>3, <1>4, <1>5

\* What finalize makes of it is framed, and still the range if it is one.
LEMMA FinalizeSound ==
    ASSUME NEW resp, NEW range, NEW f, Sound(resp, range, f), NEW g \in Disk
    PROVE  LET final == Finalize(resp, g) IN
           /\ final \in ResponseType
           /\ ~final.has_file => final.size = 0
           /\ final.content_length = BodyLength(final)
           /\ final.status = 206 => Served(final, range, f)
  <1> DEFINE kept == resp
             gone == [Text(resp, 404) EXCEPT !.has_file = FALSE, !.size = 0]
             length(r) == IF r.content_length # None THEN r.content_length
                          ELSE IF r.has_file THEN r.size ELSE r.text
  <1>1. \A r \in ResponseType : /\ BuildResponse(r) = [r EXCEPT !.content_length = length(r)]
                                /\ length(r) \in Nat
    BY ConstantFacts DEF BuildResponse, ResponseType
  <1>2. CASE resp.has_file /\ g.kind # "regular"
    <2>1. Finalize(resp, g) = BuildResponse(gone)
      BY <1>2 DEF Finalize
    <2> DEFINE text == Text(resp, 404)
    <2>3. /\ text \in ResponseType /\ text.status = 404
          /\ text.text = TextLength /\ text.content_length = TextLength
      BY TextFields DEF Sound
    <2>2. gone = [text EXCEPT !.has_file = FALSE, !.size = 0]
      OBVIOUS
    <2> HIDE DEF text, gone
    <2>4. /\ gone \in ResponseType /\ ~gone.has_file /\ gone.size = 0 /\ gone.status = 404
          /\ gone.text = TextLength /\ gone.content_length = TextLength
      BY <2>2, <2>3 DEF ResponseType
    <2>5. length(gone) = TextLength
      BY <2>4, ConstantFacts
    <2>6. Finalize(resp, g) = [gone EXCEPT !.content_length = TextLength]
      BY <1>1, <2>1, <2>4, <2>5
    <2>7. Finalize(resp, g) = gone
      BY <2>4, <2>6 DEF ResponseType
    <2> QED
      BY <2>4, <2>7 DEF BodyLength
  <1>3. CASE ~(resp.has_file /\ g.kind # "regular")
    <2>1. Finalize(resp, g) = [resp EXCEPT !.content_length = length(resp)]
      BY <1>1, <1>3 DEF Finalize, Sound
    <2>2. length(resp) = BodyLength(resp) /\ length(resp) \in Nat
      BY <1>1 DEF Sound, BodyLength
    <2> DEFINE final == Finalize(resp, g)
    <2> HIDE DEF length
    <2>3. /\ final \in ResponseType /\ final.content_length = length(resp)
          /\ final.has_file = resp.has_file /\ final.size = resp.size /\ final.text = resp.text
          /\ final.start = resp.start /\ final.status = resp.status
      BY <2>1, <2>2 DEF Sound, ResponseType
    <2> HIDE DEF final
    <2>4. BodyLength(final) = BodyLength(resp)
      BY <2>3 DEF BodyLength
    <2>5. final.status = 206 => Served(final, range, f)
      BY <2>3 DEF Sound, Served
    <2> QED
      BY <2>2, <2>3, <2>4, <2>5 DEF Sound, final
  <1> QED
    BY <1>2, <1>3

\* The choice that ProcessHttp makes, and what is known of it.
LEMMA ProcessChoice ==
    ASSUME NEW req \in Request, NEW f \in Disk, ProcessHttp(req, f)
    PROVE  \E h \in Nat \ {0} :
             /\ Asked(h, response'.start, response'.size, response'.has_file)
             /\ SetResponse(h, response'.start, response'.size, response'.has_file)
             /\ response' \in ResponseType
             /\ ~response'.has_file => response'.size = 0
             /\ response'.content_length = BodyLength(response')
             /\ response'.status = 206 => asked' = req.range /\ disk' = f /\ Served(response', req.range, f)
             /\ asked' \in Range /\ disk' \in Disk
  <1>1. PICK resp \in Responses(req, f), g \in {f, Absent}, h \in HeaderLength :
          LET final == Finalize(resp, g) IN
          /\ SetResponse(h + (IF final.has_file THEN 0 ELSE final.text), final.start, final.size,
                         final.has_file)
          /\ response' = final
          /\ asked' = IF final.status = 206 THEN req.range ELSE NoRange
          /\ disk' = IF final.status = 206 THEN f ELSE Absent
    BY DEF ProcessHttp
  <1>2. g \in Disk /\ Absent \in Disk
    BY <1>1 DEF Disk
  <1>3. Sound(resp, req.range, f)
    BY ResponsesSound
  <1>4. /\ response' \in ResponseType
        /\ ~response'.has_file => response'.size = 0
        /\ response'.content_length = BodyLength(response')
        /\ response'.status = 206 => Served(response', req.range, f)
    BY <1>1, <1>2, <1>3, FinalizeSound
  <1>5. h \in Nat \ {0}
    BY <1>1, HandlerAssumption
  <1> DEFINE length == h + (IF response'.has_file THEN 0 ELSE response'.text)
  <1>6. length \in Nat \ {0}
    BY <1>4, <1>5, ConstantFacts DEF ResponseType
  <1>7. SetResponse(length, response'.start, response'.size, response'.has_file)
    BY <1>1
  <1>8. Asked(length, response'.start, response'.size, response'.has_file)
    BY <1>4, <1>6 DEF Asked, ResponseType
  <1>9. /\ response'.status = 206 => asked' = req.range /\ disk' = f
        /\ asked' \in Range /\ disk' \in Disk
    <2>1. req.range \in Range /\ NoRange \in Range
      BY DEF Request, Range
    <2> QED
      BY <1>1, <1>2, <2>1
  <1> HIDE DEF length
  <1> QED
    BY <1>4, <1>6, <1>7, <1>8, <1>9

-----------------------------------------------------------------------------
(* The handler's steps are steps of the buffer.                             *)

LEMMA StepIsBufferStep == [HandlerNext]_vars => [Next]_outvars
  <1> SUFFICES ASSUME [HandlerNext]_vars PROVE [Next]_outvars
    OBVIOUS
  <1>1. ASSUME NEW req \in Request, NEW f \in Disk, ProcessHttp(req, f)
        PROVE  Next
    <2>1. PICK h \in Nat \ {0} :
             /\ Asked(h, response'.start, response'.size, response'.has_file)
             /\ SetResponse(h, response'.start, response'.size, response'.has_file)
      BY <1>1, ProcessChoice
    <2> QED
      BY <2>1 DEF Next, Asked
  <1>2. CASE WriteTo
    BY <1>2 DEF Next
  <1>3. CASE Destroy
    BY <1>3 DEF Next
  <1>4. CASE UNCHANGED vars
    BY <1>4 DEF vars
  <1> QED
    BY <1>1, <1>2, <1>3, <1>4 DEF HandlerNext, ProcessHttpThrows

LEMMA HandlerIsBuffer == HandlerSpec => Spec
  <1>1. HandlerInit => Init
    BY DEF HandlerInit
  <1> QED
    BY <1>1, StepIsBufferStep, PTL DEF HandlerSpec, Spec

(* http_conn.cpp:52: no file stays open or mapped after its response.        *)
THEOREM HandlerReleases == HandlerSpec => []ResourcesReleased
  BY HandlerIsBuffer, ResourcesAreReleased, PTL

(* output_buffer.cpp:120: the bytes of the responses to requests arrive in   *)
(* order, each once, whatever the files do meanwhile.  Not those of a range   *)
(* that is mapped from within a page, and not if the kernel takes a header in *)
(* three pieces or more.                                                      *)
THEOREM HandlerSendsInOrder ==
    ASSUME ~HeaderCuts PROVE HandlerSpec => [](InPlace => BytesInOrder)
  BY HandlerIsBuffer, BytesArriveInOrder, PTL

(* http_conn.cpp:91: the responses to requests are a stream of complete ones, *)
(* where everything Fits: no header in three pieces or more, no file that     *)
(* cannot be opened after its length was announced, and no range mapped from  *)
(* within a page, unless all files are sent with sendfile.                    *)
THEOREM HandlerImplementsStream == ASSUME Fits PROVE HandlerSpec => StreamSpec
  BY HandlerIsBuffer, BufferImplementsStream, PTL

-----------------------------------------------------------------------------
(* Types and ranges                                                          *)

HandlerTyped == response \in ResponseType /\ asked \in Range /\ disk \in Disk

LEMMA InitHandler == HandlerInit => HandlerTyped /\ RangeServed
  <1> SUFFICES ASSUME HandlerInit PROVE HandlerTyped /\ RangeServed
    OBVIOUS
  <1>2. Fresh(response)
    BY DEF HandlerInit, Blank, Fresh
  <1>3. NoRange \in Range /\ Absent \in Disk
    BY DEF Range, Disk
  <1> QED
    BY <1>2, <1>3, FreshSound DEF HandlerInit, HandlerTyped, RangeServed

LEMMA NextHandler == HandlerTyped /\ RangeServed /\ [HandlerNext]_vars => HandlerTyped' /\ RangeServed'
  <1> SUFFICES ASSUME HandlerTyped, RangeServed, [HandlerNext]_vars
               PROVE  HandlerTyped' /\ RangeServed'
    OBVIOUS
  <1>1. ASSUME NEW req \in Request, NEW f \in Disk, ProcessHttp(req, f)
        PROVE  HandlerTyped' /\ RangeServed'
    <2>1. HandlerTyped'
      BY <1>1, ProcessChoice DEF HandlerTyped
    <2>2. response'.status = 206 => asked' = req.range /\ disk' = f /\ Served(response', req.range, f)
      BY <1>1, ProcessChoice
    <2> QED
      BY <2>1, <2>2 DEF RangeServed, Served
  <1>2. ASSUME NEW req \in Request, NEW f \in Disk, ProcessHttpThrows(req, f)
        PROVE  HandlerTyped' /\ RangeServed'
    <2>1. req.keep_alive \in BOOLEAN
      BY DEF Request
    <2>2. /\ response' = [Blank EXCEPT !.keep_alive = req.keep_alive]
          /\ asked' = NoRange /\ disk' = Absent
      BY <1>2 DEF ProcessHttpThrows
    <2>3. Fresh(response')
      BY <2>1, <2>2, BlankFresh
    <2>4. response' \in ResponseType /\ response'.status = 200
      BY <2>3, FreshSound
    <2>5. asked' \in Range /\ disk' \in Disk
      BY <2>2 DEF Range, Disk
    <2> QED
      BY <2>4, <2>5 DEF HandlerTyped, RangeServed
  <1>3. CASE UNCHANGED <<response, asked, disk>>
    BY <1>3 DEF HandlerTyped, RangeServed
  <1> QED
    BY <1>1, <1>2, <1>3 DEF HandlerNext, vars

(* Every variable of the handler and of its buffer keeps its type.           *)
THEOREM RequestHandlerTyped == HandlerSpec => []TypeOK
  <1>1. HandlerTyped /\ OutputTypeOK => TypeOK
    BY DEF HandlerTyped, TypeOK, ResponseType
  <1> QED
    BY <1>1, InitHandler, NextHandler, HandlerIsBuffer, OutputTyped, PTL DEF HandlerSpec

(* static_file_controller.cpp:116: a range is inside the file and the one    *)
(* that was asked for, whatever the sizes, also where fileSize - 1 wraps.    *)
THEOREM RangesAreServed == HandlerSpec => []RangeServed
  BY InitHandler, NextHandler, PTL DEF HandlerSpec

-----------------------------------------------------------------------------
(* Framing                                                                   *)

\* The plan of the buffer is the response, and a response that is out is whole.
FrameInv == response # Blank /\ phase # "closed" =>
    /\ plan.size = (IF response.has_file THEN response.size ELSE 0)
    /\ response.content_length = BodyLength(response)
    /\ phase = "idle" => Len(stream) = total

FramedInv == CountedInv /\ HandlerTyped /\ FrameInv

LEMMA NextFrame == ASSUME ~OpenMayFail PROVE FramedInv /\ [HandlerNext]_vars => FrameInv'
  <1> SUFFICES ASSUME FramedInv, [HandlerNext]_vars PROVE FrameInv'
    OBVIOUS
  <1> USE DEF FramedInv, CountedInv
  <1>1. ASSUME NEW req \in Request, NEW f \in Disk, ProcessHttp(req, f)
        PROVE  FrameInv'
    <2>1. PICK h \in Nat \ {0} :
             /\ Asked(h, response'.start, response'.size, response'.has_file)
             /\ SetResponse(h, response'.start, response'.size, response'.has_file)
             /\ ~response'.has_file => response'.size = 0
             /\ response'.content_length = BodyLength(response')
      BY <1>1, ProcessChoice
    <2>2. phase' = "sending" /\ plan'.size = response'.size
      <3>1. \E opened : SetHeader(h, response'.start, response'.size, opened)
        BY <2>1 DEF SetResponse, SetMmap, SetSendfile
      <3> QED
        BY <3>1 DEF SetHeader
    <2> QED
      BY <2>1, <2>2 DEF FrameInv
  <1>2. ASSUME WriteTo, UNCHANGED <<response, asked, disk>>
        PROVE  FrameInv'
    <2>1. PICK n \in 1 .. bytes_to_send : Writev(n) \/ Sendfile(n)
      BY <1>2 DEF WriteTo
    <2>2. CountersInv /\ phase = "sending"
      BY <2>1 DEF Writev, Sendfile
    <2>3. /\ Len(stream') = Len(stream) + n /\ UNCHANGED plan /\ total' = total
          /\ phase' = IF bytes_to_send = n THEN "idle" ELSE "sending"
      BY <2>1, <2>2, TransferCounters
    <2>4. phase' = "idle" => Len(stream') = total
      <3>1. total = Len(stream) + bytes_to_send
        BY <2>2 DEF CountersInv, planned
      <3> QED
        BY <2>3, <3>1
    <2> QED
      BY <1>2, <2>2, <2>3, <2>4 DEF FrameInv, BodyLength
  <1>3. CASE Destroy
    BY <1>3 DEF Destroy, FrameInv
  <1>4. CASE UNCHANGED vars
    BY <1>4 DEF vars, outvars, FrameInv, BodyLength, total
  <1> QED
    BY <1>1, <1>2, <1>3, <1>4 DEF HandlerNext, ProcessHttpThrows

(* http_response.cpp:114-118: a response that is out has, after its header, as *)
(* many bytes as its Content-Length says, whichever handler answered, however  *)
(* it is sent and cut, also if its file went away before it was finalized.     *)
(* Not if the file cannot be opened after that (OpenMayFail).                  *)
THEOREM ResponsesAreFramed == ASSUME ~OpenMayFail PROVE HandlerSpec => []Framed
  <1>1. HandlerInit => FramedInv
    <2>1. HandlerInit => CountedInv
      BY InitCounted DEF HandlerInit
    <2>2. HandlerInit => FrameInv
      BY DEF HandlerInit, FrameInv
    <2> QED
      BY <2>1, <2>2, InitHandler DEF FramedInv
  <1>2. FramedInv /\ RangeServed /\ [HandlerNext]_vars => FramedInv'
    BY NextFrame, NextCounted, NextHandler, StepIsBufferStep DEF FramedInv
  <1>3. FramedInv => Framed
    <2> SUFFICES ASSUME FramedInv, phase = "idle", response # Blank
                 PROVE  Len(stream) - (plan.header - (IF response.has_file THEN 0 ELSE response.text))
                            = response.content_length
      BY DEF Framed
    <2>1. /\ Len(stream) = total /\ response.content_length = BodyLength(response)
          /\ plan.size = (IF response.has_file THEN response.size ELSE 0)
      BY DEF FramedInv, FrameInv
    <2>2. plan.header \in Nat /\ plan.size \in Nat
      BY DEF FramedInv, CountedInv, TypeInv, OutputTypeOK
    <2>3. response.text \in Nat /\ response.size \in Nat /\ response.has_file \in BOOLEAN
      BY ConstantFacts DEF FramedInv, HandlerTyped, ResponseType
    <2> QED
      BY <2>1, <2>2, <2>3 DEF BodyLength, total
  <1> QED
    BY <1>1, <1>2, <1>3, RangesAreServed, PTL DEF HandlerSpec
=============================================================================
