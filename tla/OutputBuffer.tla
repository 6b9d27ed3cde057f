---------------------------- MODULE OutputBuffer ----------------------------
(***************************************************************************)
(* webserver/output_buffer.{h,cpp} with WriteOnce of http_conn.cpp: the    *)
(* responses of one connection on their way into the kernel.               *)
(*                                                                         *)
(* A response is a header (with the body, if that is text) and perhaps a   *)
(* range of a file, which is sent with writev from a mapping or with       *)
(* sendfile.  The kernel takes as much of it as it has room for; the rest  *)
(* is sent when the descriptor is writable again.                          *)
(*                                                                         *)
(* Bytes are known by where they come from: byte j of the header is j, and *)
(* those of the file are numbered on from the first one of the range, so   *)
(* that a response is right when its byte i is i.  An EAGAIN changes       *)
(* nothing and is no step.                                                 *)
(***************************************************************************)
EXTENDS Integers, Sequences

CONSTANTS
    PAGE_SIZE,
    Modes,          \* the values of server.use_sendfile under study
    OpenMayFail,    \* open() and mmap() may fail
    HeaderCuts,     \* the kernel may cut a header twice, with writev
    OffPage         \* ranges that start within a page may be mapped

ASSUME OutputAssumption ==
    /\ PAGE_SIZE \in Nat \ {0}
    /\ Modes \subseteq BOOLEAN
    /\ {OpenMayFail, HeaderCuts, OffPage} \subseteq BOOLEAN

VARIABLES
    enabled,        \* HttpConnection::use_sendfile_, set once
    use_sendfile,   \* how the current response is sent
    header, file,   \* iov_[0], iov_[1]: where they start and their lengths
    bytes_have_sent, bytes_to_send, response_bound,
    file_address,   \* the offset in the file where the mapping starts, or Null
    file_fd,        \* the file is open
    file_offset, file_remain,
    phase,          \* "idle", "sending", or "closed" with the connection
    plan,           \* what set_response_with_* was asked to send
    stream          \* what the kernel has taken of it

buffer == <<use_sendfile, header, file, bytes_have_sent, bytes_to_send, response_bound,
            file_address, file_fd, file_offset, file_remain>>
outvars == <<enabled, buffer, phase, plan, stream>>

Null == -1
Empty == [base |-> 0, len |-> 0]

Init ==
    /\ enabled \in Modes
    /\ use_sendfile = FALSE
    /\ header = Empty /\ file = Empty
    /\ bytes_have_sent = 0 /\ bytes_to_send = 0 /\ response_bound = 0
    /\ file_address = Null /\ file_fd = FALSE
    /\ file_offset = 0 /\ file_remain = 0
    /\ phase = "idle"
    /\ plan = [header |-> 0, offset |-> 0, size |-> 0]
    /\ stream = <<>>

\* Reset that leaves the file open.
ResetLeaks ==
    /\ use_sendfile' = FALSE
    /\ header' = Empty /\ file' = Empty
    /\ bytes_have_sent' = 0 /\ bytes_to_send' = 0 /\ response_bound' = 0
    /\ file_address' = Null /\ UNCHANGED file_fd
    /\ file_offset' = 0 /\ file_remain' = 0

\* reset(), with unmap_if_needed() and close_file_if_needed().
Reset ==
    /\ use_sendfile' = FALSE
    /\ header' = Empty /\ file' = Empty
    /\ bytes_have_sent' = 0 /\ bytes_to_send' = 0 /\ response_bound' = 0
    /\ file_address' = Null /\ file_fd' = FALSE
    /\ file_offset' = 0 /\ file_remain' = 0

-----------------------------------------------------------------------------
(* set_response_with_mmap and set_response_with_sendfile                   *)

\* What both do with the header, given that opened says whether the file goes
\* with it.
SetHeader(h, offset, size, opened) ==
    /\ phase = "idle" /\ phase' = "sending"
    /\ header' = [base |-> 0, len |-> h]
    /\ response_bound' = h
    /\ bytes_have_sent' = 0
    /\ bytes_to_send' = IF opened THEN h + size ELSE h
    /\ plan' = [header |-> h, offset |-> offset, size |-> size]
    /\ stream' = <<>>

\* Whether the file is opened, and mapped.
Opened(size) == IF size = 0 THEN {FALSE} ELSE IF OpenMayFail THEN BOOLEAN ELSE {TRUE}

SetMmap(h, offset, size) == \E opened \in Opened(size) :
    /\ OffPage \/ size = 0 \/ offset % PAGE_SIZE = 0
    /\ SetHeader(h, offset, size, opened)
    /\ use_sendfile' = FALSE
    /\ file_address' = IF opened THEN (offset \div PAGE_SIZE) * PAGE_SIZE ELSE Null
    /\ file' = IF opened THEN [base |-> offset, len |-> size] ELSE Empty
    /\ file_fd' = FALSE
    /\ UNCHANGED <<file_offset, file_remain>>

\* SetSendfile that starts at the beginning of the file.
SetSendfileFromStart(h, offset, size) == \E opened \in Opened(size) :
    /\ SetHeader(h, offset, size, opened)
    /\ use_sendfile' = TRUE
    /\ file_fd' = opened
    /\ file_offset' = 0
    /\ file_remain' = IF opened THEN size ELSE file_remain
    /\ file_address' = Null
    /\ UNCHANGED file

\* SetSendfile that does not set what remains of the file.
SetSendfileNoRemain(h, offset, size) == \E opened \in Opened(size) :
    /\ SetHeader(h, offset, size, opened)
    /\ use_sendfile' = TRUE
    /\ file_fd' = opened
    /\ file_offset' = IF opened THEN offset ELSE file_offset
    /\ UNCHANGED file_remain
    /\ file_address' = Null
    /\ UNCHANGED file

SetSendfile(h, offset, size) == \E opened \in Opened(size) :
    /\ SetHeader(h, offset, size, opened)
    /\ use_sendfile' = TRUE
    /\ file_fd' = opened
    /\ file_offset' = IF opened THEN offset ELSE file_offset
    /\ file_remain' = IF opened THEN size ELSE file_remain
    /\ file_address' = Null
    /\ UNCHANGED file

\* ProcessHttp chooses sendfile only for a response with a file.
SetResponse(h, offset, size, has_file) ==
    /\ IF enabled /\ has_file THEN SetSendfile(h, offset, size) ELSE SetMmap(h, offset, size)
    /\ UNCHANGED enabled

-----------------------------------------------------------------------------
(* write_to, as WriteOnce calls it                                         *)

\* The kernel takes n bytes: those of the header from byte h on, as many as
\* there are up to hlen, then those of the file from offset f on.
Transfer(n, h, hlen, f) ==
    stream' = [i \in 1 .. Len(stream) + n |->
        LET j == i - Len(stream) IN
        IF j <= 0 THEN stream[i]
        ELSE IF j <= hlen THEN h + j
        ELSE plan.header + (f - plan.offset) + (j - hlen)]

\* Finish that takes a header that is out for the end of the response.
FinishAfterHeader(n, next) ==
    IF bytes_have_sent + n >= response_bound THEN Reset /\ phase' = "idle"
    ELSE /\ next
         /\ bytes_have_sent' = bytes_have_sent + n
         /\ bytes_to_send' = bytes_to_send - n
         /\ UNCHANGED <<phase, use_sendfile, response_bound, file_address, file_fd>>

\* SUCCESS resets the buffer; on CONTINUE the rest of it is left as next says.
Finish(n, next) ==
    IF bytes_to_send = n THEN Reset /\ phase' = "idle"
    ELSE /\ next
         /\ bytes_have_sent' = bytes_have_sent + n
         /\ bytes_to_send' = bytes_to_send - n
         /\ UNCHANGED <<phase, use_sendfile, response_bound, file_address, file_fd>>

\* What is left of the two pieces when sent bytes have been written in all.
AdvanceIov(sent) ==
    IF sent >= response_bound
    THEN /\ header' = [base |-> header.base, len |-> 0]
         /\ file' = [base |-> file_address + (sent - response_bound),
                     len |-> bytes_have_sent + bytes_to_send - sent]
    ELSE /\ header' = [base |-> header.base + sent, len |-> response_bound - sent]
         /\ UNCHANGED file

Writev(n) ==
    /\ phase = "sending" /\ ~use_sendfile
    /\ n <= header.len + file.len
    /\ HeaderCuts \/ header.len = response_bound \/ n >= header.len
    /\ Transfer(n, header.base, header.len, file.base)
    /\ Finish(n, AdvanceIov(bytes_have_sent + n) /\ UNCHANGED <<file_offset, file_remain>>)
    /\ UNCHANGED <<enabled, plan>>

\* write() of the header, then, if that is complete, sendfile().
Sendfile(n) ==
    LET left == IF bytes_have_sent < response_bound THEN response_bound - bytes_have_sent ELSE 0
        sent == IF n > left THEN n - left ELSE 0 IN
    /\ phase = "sending" /\ use_sendfile
    /\ sent <= (IF file_fd THEN file_remain ELSE 0)
    /\ Transfer(n, header.base + bytes_have_sent, left, file_offset)
    /\ Finish(n, /\ file_offset' = file_offset + sent
                 /\ file_remain' = file_remain - sent
                 /\ UNCHANGED <<header, file>>)
    /\ UNCHANGED <<enabled, plan>>

WriteTo == \E n \in 1 .. bytes_to_send : Writev(n) \/ Sendfile(n)

\* ERROR, or the connection is destroyed for another reason.
Destroy ==
    /\ phase # "closed" /\ phase' = "closed"
    /\ Reset
    /\ UNCHANGED <<enabled, plan, stream>>

-----------------------------------------------------------------------------
Next ==
    \/ \E h \in Nat \ {0}, offset, size \in Nat, has_file \in BOOLEAN :
          (size > 0 => has_file) /\ SetResponse(h, offset, size, has_file)
    \/ WriteTo
    \/ Destroy

Spec == Init /\ [][Next]_outvars

-----------------------------------------------------------------------------
(* Properties.                                                             *)

total == plan.header + plan.size

\* Every variable keeps its type.
OutputTypeOK ==
    /\ enabled \in Modes
    /\ use_sendfile \in BOOLEAN
    /\ header \in [base : Nat, len : Nat] /\ file \in [base : Nat, len : Nat]
    /\ bytes_have_sent \in Nat /\ bytes_to_send \in Nat /\ response_bound \in Nat
    /\ file_address \in Nat \cup {Null} /\ file_fd \in BOOLEAN
    /\ file_offset \in Nat /\ file_remain \in Nat
    /\ phase \in {"idle", "sending", "closed"}
    /\ plan \in [header : Nat, offset : Nat, size : Nat]
    /\ stream \in Seq(Int)

\* However the kernel cuts a response, its bytes leave in order and none is sent
\* twice or left out.  output_buffer.cpp:83: iov[1] points to the data to send.
BytesInOrder == \A i \in DOMAIN stream : stream[i] = i

\* Between responses and after the end of a connection no file is open or mapped.
ResourcesReleased == phase # "sending" => file_address = Null /\ ~file_fd

\* The outside of the buffer is what a client is promised.
Stream == INSTANCE ResponseStream
StreamSpec == Stream!Spec

\* The file of the response, if there is one, is not mapped from within a page.
InPlace == enabled \/ plan.size = 0 \/ plan.offset % PAGE_SIZE = 0

\* What the kernel and the files must be like for that: a header is not cut
\* twice, a file that was there when its length was announced can be opened, and
\* no file is mapped from within a page (or all are sent with sendfile).
Fits == ~HeaderCuts /\ ~OpenMayFail /\ (~OffPage \/ Modes \subseteq {TRUE})

\* A response that is being sent comes to an end if the client reads.
ResponseEnds == phase = "sending" ~> phase # "sending"
=============================================================================
