-------------------------- MODULE OutputBufferProofs --------------------------
(***************************************************************************)
(* Theorems about OutputBuffer: types and resources whatever the kernel    *)
(* does, the order of the bytes of a response that is in place, and the    *)
(* abstract stream where everything Fits.                                  *)
(***************************************************************************)
EXTENDS OutputBuffer, TLAPS

-----------------------------------------------------------------------------
(* Types.  A piece of a file that is left implies that the file is mapped.  *)

MappedInv ==
    phase = "sending" /\ ~use_sendfile /\ file_address = Null =>
        bytes_have_sent + bytes_to_send = response_bound

TypeInv == OutputTypeOK /\ MappedInv

\* The arguments of SetResponse that Next allows.
Asked(h, offset, size, has_file) ==
    /\ h \in Nat \ {0} /\ offset \in Nat /\ size \in Nat /\ has_file \in BOOLEAN
    /\ size > 0 => has_file

LEMMA ResetTyped ==
    ASSUME Reset
    PROVE  /\ use_sendfile' \in BOOLEAN
           /\ header' \in [base : Nat, len : Nat] /\ file' \in [base : Nat, len : Nat]
           /\ bytes_have_sent' \in Nat /\ bytes_to_send' \in Nat /\ response_bound' \in Nat
           /\ file_address' \in Nat \cup {Null} /\ file_fd' \in BOOLEAN
           /\ file_offset' \in Nat /\ file_remain' \in Nat
  BY DEF Reset, Empty

\* The page that an offset is in starts at a natural number.
LEMMA PageStart ==
    ASSUME NEW offset \in Nat
    PROVE  (offset \div PAGE_SIZE) * PAGE_SIZE \in Nat
  <1>1. PAGE_SIZE \in Nat /\ PAGE_SIZE > 0
    BY OutputAssumption
  <1>2. offset \div PAGE_SIZE \in Nat
    BY <1>1
  <1> QED
    BY <1>1, <1>2

\* What a transfer adds is a sequence of numbers.
LEMMA TransferTyped ==
    ASSUME NEW n \in Nat, NEW h \in Nat, NEW hlen \in Nat, NEW f \in Nat,
           OutputTypeOK, Transfer(n, h, hlen, f)
    PROVE  stream' \in Seq(Int) /\ Len(stream') = Len(stream) + n
  <1>1. Len(stream) \in Nat /\ DOMAIN stream = 1 .. Len(stream)
    BY DEF OutputTypeOK
  <1>2. \A i \in 1 .. Len(stream) : stream[i] \in Int
    BY <1>1 DEF OutputTypeOK
  <1>3. plan.header \in Nat /\ plan.offset \in Nat
    BY DEF OutputTypeOK
  <1> DEFINE byte(i) == LET j == i - Len(stream) IN
                IF j <= 0 THEN stream[i]
                ELSE IF j <= hlen THEN h + j
                ELSE plan.header + (f - plan.offset) + (j - hlen)
  <1>4. \A i \in 1 .. Len(stream) + n : byte(i) \in Int
    <2> TAKE i \in 1 .. Len(stream) + n
    <2>1. CASE i <= Len(stream)
      <3>1. byte(i) = stream[i]
        BY <1>1, <2>1
      <3> QED
        BY <1>1, <1>2, <2>1, <3>1
    <2>2. CASE i > Len(stream)
      BY SMTT(30), <1>1, <1>3, <2>2
    <2> QED
      BY <1>1, <2>1, <2>2
  <1>5. stream' = [i \in 1 .. Len(stream) + n |-> byte(i)]
    BY DEF Transfer
  <1> HIDE DEF byte
  <1>6. stream' \in [1 .. Len(stream) + n -> Int]
    BY <1>4, <1>5
  <1> QED
    BY <1>1, <1>6

LEMMA InitTyped == Init => TypeInv
  <1> SUFFICES ASSUME Init PROVE TypeInv
    OBVIOUS
  <1>1. stream \in Seq(Int)
    BY DEF Init
  <1> QED
    BY <1>1, OutputAssumption DEF Init, TypeInv, OutputTypeOK, MappedInv, Empty

LEMMA SetResponseTyped ==
    ASSUME NEW h, NEW offset, NEW size, NEW has_file, Asked(h, offset, size, has_file),
           TypeInv, SetResponse(h, offset, size, has_file)
    PROVE  TypeInv'
  <1> USE DEF Asked
  <1>1. stream' = <<>> /\ stream' \in Seq(Int) /\ UNCHANGED enabled
    <2>1. SetSendfile(h, offset, size) \/ SetMmap(h, offset, size)
      BY DEF SetResponse
    <2>2. PICK opened : SetHeader(h, offset, size, opened)
      BY <2>1 DEF SetSendfile, SetMmap
    <2>3. stream' = <<>>
      BY <2>2 DEF SetHeader
    <2> QED
      BY <2>3 DEF SetResponse
  <1>2. CASE enabled /\ has_file
    <2>1. PICK opened \in Opened(size) :
             /\ SetHeader(h, offset, size, opened)
             /\ use_sendfile' = TRUE
             /\ file_fd' = opened
             /\ file_offset' = IF opened THEN offset ELSE file_offset
             /\ file_remain' = IF opened THEN size ELSE file_remain
             /\ file_address' = Null
             /\ UNCHANGED file
      BY <1>2 DEF SetResponse, SetSendfile
    <2>2. opened \in BOOLEAN
      BY OutputAssumption DEF Opened
    <2> QED
      BY <1>1, <2>1, <2>2 DEF TypeInv, OutputTypeOK, MappedInv, SetHeader
  <1>3. CASE ~(enabled /\ has_file)
    <2>1. PICK opened \in Opened(size) :
             /\ SetHeader(h, offset, size, opened)
             /\ use_sendfile' = FALSE
             /\ file_address' = IF opened THEN (offset \div PAGE_SIZE) * PAGE_SIZE ELSE Null
             /\ file' = IF opened THEN [base |-> offset, len |-> size] ELSE Empty
             /\ file_fd' = FALSE
             /\ UNCHANGED <<file_offset, file_remain>>
      BY <1>3 DEF SetResponse, SetMmap
    <2>2. opened \in BOOLEAN
      BY OutputAssumption DEF Opened
    <2>3. file_address' \in Nat \cup {Null} /\ (opened => file_address' # Null)
      BY <2>1, <2>2, PageStart DEF Null
    <2>4. OutputTypeOK'
      <3>1. header' \in [base : Nat, len : Nat] /\ file' \in [base : Nat, len : Nat]
        BY <2>1, <2>2 DEF SetHeader, Empty
      <3>2. /\ bytes_have_sent' \in Nat /\ bytes_to_send' \in Nat /\ response_bound' \in Nat
            /\ phase' = "sending" /\ plan' \in [header : Nat, offset : Nat, size : Nat]
        BY <2>1, <2>2 DEF SetHeader
      <3> QED
        BY <1>1, <2>1, <2>3, <3>1, <3>2 DEF TypeInv, OutputTypeOK
    <2>5. MappedInv'
      BY <2>1, <2>2, <2>3 DEF MappedInv, SetHeader
    <2> QED
      BY <2>4, <2>5 DEF TypeInv
  <1> QED
    BY <1>2, <1>3

LEMMA WritevTyped ==
    ASSUME NEW n \in 1 .. bytes_to_send, TypeInv, Writev(n)
    PROVE  TypeInv'
  <1>1. n \in Nat /\ n <= bytes_to_send /\ bytes_to_send \in Nat
    BY DEF TypeInv, OutputTypeOK
  <1>2. stream' \in Seq(Int)
    BY <1>1, TransferTyped DEF Writev, TypeInv, OutputTypeOK
  <1>3. CASE bytes_to_send = n
    BY <1>2, <1>3, ResetTyped DEF TypeInv, OutputTypeOK, MappedInv, Writev, Finish
  <1>4. CASE bytes_to_send # n
    <2>1. /\ AdvanceIov(bytes_have_sent + n)
          /\ UNCHANGED <<file_offset, file_remain>>
          /\ bytes_have_sent' = bytes_have_sent + n
          /\ bytes_to_send' = bytes_to_send - n
          /\ UNCHANGED <<phase, use_sendfile, response_bound, file_address, file_fd>>
          /\ UNCHANGED <<enabled, plan>>
          /\ phase = "sending" /\ ~use_sendfile
      BY <1>4 DEF Writev, Finish
    <2>2. bytes_have_sent' \in Nat /\ bytes_to_send' \in Nat
          /\ bytes_have_sent' + bytes_to_send' = bytes_have_sent + bytes_to_send
      BY <1>1, <2>1 DEF TypeInv, OutputTypeOK
    <2>3. header' \in [base : Nat, len : Nat] /\ file' \in [base : Nat, len : Nat]
      <3>1. CASE bytes_have_sent + n >= response_bound
        <4>1. file_address \in Nat
          BY <1>1, <1>4, <2>1, <3>1 DEF TypeInv, OutputTypeOK, MappedInv
        <4>2. /\ header' = [base |-> header.base, len |-> 0]
              /\ file' = [base |-> file_address + (bytes_have_sent + n - response_bound),
                          len |-> bytes_have_sent + bytes_to_send - (bytes_have_sent + n)]
          BY <1>1, <2>1, <3>1, <4>1 DEF TypeInv, OutputTypeOK, AdvanceIov
        <4>3. /\ file_address + (bytes_have_sent + n - response_bound) \in Nat
              /\ bytes_have_sent + bytes_to_send - (bytes_have_sent + n) \in Nat
          BY <1>1, <3>1, <4>1 DEF TypeInv, OutputTypeOK
        <4>4. header' \in [base : Nat, len : Nat]
          BY <4>2 DEF TypeInv, OutputTypeOK
        <4> QED
          BY <4>2, <4>3, <4>4
      <3>2. CASE ~(bytes_have_sent + n >= response_bound)
        BY <1>1, <2>1, <3>2 DEF TypeInv, OutputTypeOK, AdvanceIov
      <3> QED
        BY <3>1, <3>2
    <2> QED
      BY <1>2, <2>1, <2>2, <2>3 DEF TypeInv, OutputTypeOK, MappedInv
  <1> QED
    BY <1>3, <1>4

LEMMA SendfileTyped ==
    ASSUME NEW n \in 1 .. bytes_to_send, TypeInv, Sendfile(n)
    PROVE  TypeInv'
  <1>1. n \in Nat /\ n <= bytes_to_send /\ bytes_to_send \in Nat
    BY DEF TypeInv, OutputTypeOK
  <1> DEFINE left == IF bytes_have_sent < response_bound THEN response_bound - bytes_have_sent ELSE 0
             sent == IF n > left THEN n - left ELSE 0
  <1>2. left \in Nat /\ sent \in Nat
    BY <1>1 DEF TypeInv, OutputTypeOK
  <1>3. /\ phase = "sending" /\ use_sendfile
        /\ sent <= (IF file_fd THEN file_remain ELSE 0)
        /\ Transfer(n, header.base + bytes_have_sent, left, file_offset)
        /\ Finish(n, /\ file_offset' = file_offset + sent
                     /\ file_remain' = file_remain - sent
                     /\ UNCHANGED <<header, file>>)
        /\ UNCHANGED <<enabled, plan>>
    BY DEF Sendfile
  <1> HIDE DEF left, sent
  <1>4. stream' \in Seq(Int)
    BY <1>1, <1>2, <1>3, TransferTyped DEF TypeInv, OutputTypeOK
  <1>5. CASE bytes_to_send = n
    BY <1>3, <1>4, <1>5, ResetTyped DEF TypeInv, OutputTypeOK, MappedInv, Finish
  <1>6. CASE bytes_to_send # n
    BY <1>1, <1>2, <1>3, <1>4, <1>6 DEF TypeInv, OutputTypeOK, MappedInv, Finish
  <1> QED
    BY <1>5, <1>6

LEMMA NextTyped == TypeInv /\ [Next]_outvars => TypeInv'
  <1> SUFFICES ASSUME TypeInv, [Next]_outvars PROVE TypeInv'
    OBVIOUS
  <1>1. ASSUME NEW h \in Nat \ {0}, NEW offset \in Nat, NEW size \in Nat, NEW has_file \in BOOLEAN,
               size > 0 => has_file, SetResponse(h, offset, size, has_file)
        PROVE  TypeInv'
    BY <1>1, SetResponseTyped DEF Asked
  <1>2. CASE WriteTo
    BY <1>2, WritevTyped, SendfileTyped DEF WriteTo
  <1>3. CASE Destroy
    BY <1>3, ResetTyped DEF Destroy, TypeInv, OutputTypeOK, MappedInv
  <1>4. CASE UNCHANGED outvars
    BY <1>4 DEF outvars, buffer, TypeInv, OutputTypeOK, MappedInv
  <1> QED
    BY <1>1, <1>2, <1>3, <1>4 DEF Next

(* output_buffer.cpp: every variable keeps its type, also where the kernel  *)
(* cuts a header twice and open() fails.                                    *)
THEOREM OutputTyped == Spec => []OutputTypeOK
  <1>1. TypeInv => OutputTypeOK
    BY DEF TypeInv
  <1> QED
    BY <1>1, InitTyped, NextTyped, PTL DEF Spec

(* output_buffer.cpp:18: whatever ends a response, its file is closed and   *)
(* no longer mapped.                                                        *)
THEOREM ResourcesAreReleased == Spec => []ResourcesReleased
  <1>1. Init => ResourcesReleased
    BY DEF Init, ResourcesReleased
  <1>2. ResourcesReleased /\ [Next]_outvars => ResourcesReleased'
    <2> SUFFICES ASSUME ResourcesReleased, [Next]_outvars PROVE ResourcesReleased'
      OBVIOUS
    <2>1. ASSUME NEW h, NEW offset, NEW size, NEW has_file, SetResponse(h, offset, size, has_file)
          PROVE  ResourcesReleased'
      <3>1. phase' = "sending"
        <4>1. SetSendfile(h, offset, size) \/ SetMmap(h, offset, size)
          BY <2>1 DEF SetResponse
        <4>2. PICK opened : SetHeader(h, offset, size, opened)
          BY <4>1 DEF SetSendfile, SetMmap
        <4> QED
          BY <4>2 DEF SetHeader
      <3> QED
        BY <3>1 DEF ResourcesReleased
    <2>2. CASE WriteTo
      BY <2>2 DEF WriteTo, Writev, Sendfile, Finish, Reset, ResourcesReleased
    <2>3. CASE Destroy
      BY <2>3 DEF Destroy, Reset, ResourcesReleased
    <2>4. CASE UNCHANGED outvars
      BY <2>4 DEF outvars, buffer, ResourcesReleased
    <2> QED
      BY <2>1, <2>2, <2>3, <2>4 DEF Next
  <1> QED
    BY <1>1, <1>2, PTL DEF Spec

-----------------------------------------------------------------------------
(* The counters, whatever the kernel takes.                                 *)

\* What is sent of the response in all: without the file if that is not opened.
planned == bytes_have_sent + bytes_to_send

CountersInv ==
    /\ plan.header > 0 /\ response_bound = plan.header
    /\ bytes_have_sent = Len(stream) /\ bytes_to_send > 0
    /\ planned \in {plan.header, total}
    /\ ~OpenMayFail => planned = total

CountedInv == TypeInv /\ (phase = "sending" => CountersInv)

\* What a response that is being handed over begins with.
LEMMA SetResponseCounters ==
    ASSUME NEW h, NEW offset, NEW size, NEW has_file, Asked(h, offset, size, has_file),
           TypeInv, SetResponse(h, offset, size, has_file)
    PROVE  /\ CountersInv' /\ stream' = <<>> /\ total' = h + size
           /\ phase = "idle" /\ phase' = "sending"
  <1> USE DEF Asked
  <1>1. PICK opened \in Opened(size) : SetHeader(h, offset, size, opened)
    BY DEF SetResponse, SetMmap, SetSendfile
  <1>2. /\ phase = "idle" /\ phase' = "sending" /\ stream' = <<>>
        /\ response_bound' = h /\ bytes_have_sent' = 0
        /\ bytes_to_send' = (IF opened THEN h + size ELSE h)
        /\ plan' = [header |-> h, offset |-> offset, size |-> size]
    BY <1>1 DEF SetHeader
  <1>3. Len(stream') = 0 /\ total' = h + size /\ planned' = (IF opened THEN h + size ELSE h)
    BY <1>2 DEF total, planned
  <1>4. opened \in BOOLEAN /\ (~OpenMayFail => opened \/ size = 0)
    BY OutputAssumption DEF Opened
  <1> QED
    BY <1>2, <1>3, <1>4 DEF CountersInv

\* What one writev or one sendfile does to the counters.
LEMMA TransferCounters ==
    ASSUME NEW n \in 1 .. bytes_to_send, TypeInv, CountersInv, Writev(n) \/ Sendfile(n)
    PROVE  /\ Len(stream') = Len(stream) + n /\ UNCHANGED <<enabled, plan>> /\ total' = total
           /\ phase = "sending" /\ phase' = IF bytes_to_send = n THEN "idle" ELSE "sending"
           /\ phase' = "sending" =>
                  /\ CountersInv'
                  /\ bytes_have_sent' = bytes_have_sent + n /\ planned' = planned
                  /\ UNCHANGED <<use_sendfile, response_bound, file_address, file_fd>>
  <1>1. /\ n \in Nat /\ n > 0 /\ n <= bytes_to_send /\ bytes_to_send \in Nat
        /\ bytes_have_sent \in Nat /\ response_bound \in Nat /\ Len(stream) \in Nat
    BY DEF TypeInv, OutputTypeOK
  <1> DEFINE left == IF bytes_have_sent < response_bound THEN response_bound - bytes_have_sent ELSE 0
  <1>2. Len(stream') = Len(stream) + n
    <2>1. CASE Writev(n)
      BY <1>1, <2>1, TransferTyped DEF Writev, TypeInv, OutputTypeOK
    <2>2. CASE Sendfile(n)
      <3>1. Transfer(n, header.base + bytes_have_sent, left, file_offset)
        BY <2>2 DEF Sendfile
      <3>2. left \in Nat /\ header.base + bytes_have_sent \in Nat /\ file_offset \in Nat
        BY <1>1 DEF TypeInv, OutputTypeOK
      <3> HIDE DEF left
      <3> QED
        BY <1>1, <3>1, <3>2, TransferTyped DEF TypeInv
    <2> QED
      BY <2>1, <2>2
  <1>3. /\ phase = "sending" /\ UNCHANGED <<enabled, plan>>
        /\ phase' = IF bytes_to_send = n THEN "idle" ELSE "sending"
        /\ phase' = "sending" =>
               /\ bytes_to_send # n
               /\ bytes_have_sent' = bytes_have_sent + n
               /\ bytes_to_send' = bytes_to_send - n
               /\ UNCHANGED <<use_sendfile, response_bound, file_address, file_fd>>
    BY DEF Writev, Sendfile, Finish
  <1>4. total' = total
    BY <1>3 DEF total
  <1>5. ASSUME phase' = "sending"
        PROVE  CountersInv' /\ planned' = planned
    <2>1. planned' = planned
      BY <1>1, <1>3, <1>5 DEF planned
    <2>2. bytes_to_send' > 0 /\ bytes_have_sent' = Len(stream')
      BY <1>1, <1>2, <1>3, <1>5 DEF CountersInv
    <2> QED
      BY <1>3, <1>4, <1>5, <2>1, <2>2 DEF CountersInv
  <1> QED
    BY <1>2, <1>3, <1>4, <1>5

LEMMA InitCounted == Init => CountedInv
  BY InitTyped DEF Init, CountedInv

LEMMA NextCounted == CountedInv /\ [Next]_outvars => CountedInv'
  <1> SUFFICES ASSUME CountedInv, [Next]_outvars PROVE phase' = "sending" => CountersInv'
    BY NextTyped DEF CountedInv
  <1> USE DEF CountedInv
  <1>1. ASSUME NEW h \in Nat \ {0}, NEW offset \in Nat, NEW size \in Nat, NEW has_file \in BOOLEAN,
               size > 0 => has_file, SetResponse(h, offset, size, has_file)
        PROVE  CountersInv'
    BY <1>1, SetResponseCounters DEF Asked
  <1>2. ASSUME NEW n \in 1 .. bytes_to_send, Writev(n) \/ Sendfile(n)
        PROVE  phase' = "sending" => CountersInv'
    <2>1. CountersInv
      BY <1>2 DEF Writev, Sendfile
    <2> QED
      BY <1>2, <2>1, TransferCounters
  <1>3. CASE Destroy
    BY <1>3 DEF Destroy
  <1>4. CASE UNCHANGED outvars
    BY <1>4 DEF outvars, buffer, CountersInv, planned, total
  <1> QED
    BY <1>1, <1>2, <1>3, <1>4 DEF Next, WriteTo

-----------------------------------------------------------------------------
(* The window: where the two pieces stand is a function of what was sent.   *)

\* The first byte of the response, from 0, that is not one of the header and
\* has not been sent.
reached == IF bytes_have_sent < response_bound THEN response_bound ELSE bytes_have_sent

MmapInv ==
    /\ IF bytes_have_sent < response_bound
       THEN header = [base |-> bytes_have_sent, len |-> response_bound - bytes_have_sent]
       ELSE header.len = 0
    /\ file.len = planned - reached
    /\ planned > plan.header => /\ file.base = plan.offset + (reached - response_bound)
                                /\ file_address = plan.offset

SendfileInv ==
    /\ header.base = 0
    /\ file_fd => /\ file_remain = planned - reached
                  /\ file_offset = plan.offset + (reached - response_bound)

WindowInv == phase = "sending" => IF use_sendfile THEN SendfileInv ELSE MmapInv

StreamInv == CountedInv /\ (InPlace => WindowInv /\ BytesInOrder)

\* A transfer continues the response where the window is.
LEMMA TransferInOrder ==
    ASSUME TypeInv, CountersInv, BytesInOrder,
           NEW n \in Nat, NEW h \in Nat, NEW hlen \in Nat, NEW f \in Nat,
           Transfer(n, h, hlen, f),
           hlen = IF bytes_have_sent < response_bound THEN response_bound - bytes_have_sent ELSE 0,
           hlen > 0 => h = bytes_have_sent,
           n > hlen => f = plan.offset + (reached - response_bound)
    PROVE  BytesInOrder' /\ Len(stream') = Len(stream) + n
  <1>1. /\ Len(stream) \in Nat /\ DOMAIN stream = 1 .. Len(stream)
        /\ plan.header \in Nat /\ plan.offset \in Nat
        /\ bytes_have_sent \in Nat /\ response_bound \in Nat
    BY DEF TypeInv, OutputTypeOK
  <1>2. Len(stream') = Len(stream) + n /\ DOMAIN stream' = 1 .. Len(stream) + n
    <2>1. stream' \in Seq(Int) /\ Len(stream') = Len(stream) + n
      BY TransferTyped DEF TypeInv
    <2> QED
      BY <2>1
  <1>3. ASSUME NEW i \in 1 .. Len(stream) + n
        PROVE  stream'[i] = i
    <2>1. stream'[i] = LET j == i - Len(stream) IN
                       IF j <= 0 THEN stream[i]
                       ELSE IF j <= hlen THEN h + j
                       ELSE plan.header + (f - plan.offset) + (j - hlen)
      BY DEF Transfer
    <2>2. CASE i <= Len(stream)
      <3>1. i - Len(stream) <= 0 /\ i \in DOMAIN stream
        BY <1>1, <2>2
      <3> QED
        BY <2>1, <3>1 DEF BytesInOrder
    <2>3. CASE i > Len(stream) /\ i - Len(stream) <= hlen
      <3>1. h = bytes_have_sent
        BY <1>1, <2>3
      <3>2. stream'[i] = h + (i - Len(stream))
        BY <1>1, <2>1, <2>3
      <3>3. Len(stream) = bytes_have_sent
        BY DEF CountersInv
      <3> QED
        BY <1>1, <3>1, <3>2, <3>3
    <2>4. CASE i > Len(stream) /\ i - Len(stream) > hlen
      <3>1. f = plan.offset + (reached - response_bound)
        BY <1>1, <2>4
      <3>2. stream'[i] = plan.header + (f - plan.offset) + (i - Len(stream) - hlen)
        BY <1>1, <2>1, <2>4
      <3>3. reached \in Nat /\ reached - hlen = bytes_have_sent
        BY <1>1 DEF reached
      <3>4. f - plan.offset = reached - response_bound /\ i \in Int
        BY <1>1, <3>1, <3>3
      <3>5. plan.header = response_bound /\ Len(stream) = bytes_have_sent
        BY DEF CountersInv
      <3>6. stream'[i] = response_bound + (reached - response_bound) + (i - bytes_have_sent - hlen)
        BY <3>2, <3>4, <3>5
      <3> QED
        BY <1>1, <3>3, <3>4, <3>6
    <2> QED
      <3>1. i <= Len(stream) \/ (i > Len(stream) /\ (i - Len(stream) <= hlen \/ i - Len(stream) > hlen))
        BY <1>1
      <3> QED
        BY <2>2, <2>3, <2>4, <3>1
  <1> QED
    BY <1>2, <1>3 DEF BytesInOrder

LEMMA InitStream == Init => StreamInv
  <1> SUFFICES ASSUME Init PROVE StreamInv
    OBVIOUS
  <1>1. DOMAIN stream = {}
    BY DEF Init
  <1> QED
    BY <1>1, InitCounted DEF Init, StreamInv, WindowInv, BytesInOrder

\* A new response is all before the window.
LEMMA SetResponseWindow ==
    ASSUME NEW h, NEW offset, NEW size, NEW has_file, Asked(h, offset, size, has_file),
           TypeInv, SetResponse(h, offset, size, has_file), InPlace'
    PROVE  WindowInv' /\ BytesInOrder'
  <1> USE DEF Asked
  <1>1. PICK opened \in Opened(size) :
           /\ SetHeader(h, offset, size, opened)
           /\ \/ /\ use_sendfile' = TRUE
                 /\ file_fd' = opened
                 /\ file_offset' = IF opened THEN offset ELSE file_offset
                 /\ file_remain' = IF opened THEN size ELSE file_remain
              \/ /\ ~(enabled /\ has_file)
                 /\ use_sendfile' = FALSE
                 /\ file_address' = IF opened THEN (offset \div PAGE_SIZE) * PAGE_SIZE ELSE Null
                 /\ file' = IF opened THEN [base |-> offset, len |-> size] ELSE Empty
    <2>1. CASE enabled /\ has_file
      BY <2>1 DEF SetResponse, SetSendfile
    <2>2. CASE ~(enabled /\ has_file)
      BY <2>2 DEF SetResponse, SetMmap
    <2> QED
      BY <2>1, <2>2
  <1>2. opened \in BOOLEAN /\ (opened => size > 0)
    <2>1. CASE size = 0
      <3>1. opened = FALSE
        BY <2>1 DEF Opened
      <3> QED
        BY <3>1
    <2>2. CASE size # 0
      <3>1. opened \in BOOLEAN
        BY <2>2, OutputAssumption DEF Opened
      <3> QED
        BY <2>2, <3>1
    <2> QED
      BY <2>1, <2>2
  <1>3. /\ phase' = "sending" /\ stream' = <<>>
        /\ header' = [base |-> 0, len |-> h] /\ response_bound' = h
        /\ bytes_have_sent' = 0 /\ bytes_to_send' = (IF opened THEN h + size ELSE h)
        /\ plan' = [header |-> h, offset |-> offset, size |-> size]
    BY <1>1 DEF SetHeader
  <1>4. DOMAIN stream' = {} /\ BytesInOrder'
    <2>1. DOMAIN stream' = {}
      BY <1>3
    <2> QED
      BY <2>1 DEF BytesInOrder
  <1>5. reached' = h /\ planned' = (IF opened THEN h + size ELSE h)
    BY <1>3 DEF reached, planned
  <1>6. CASE use_sendfile'
    BY <1>1, <1>2, <1>3, <1>4, <1>5, <1>6 DEF WindowInv, SendfileInv
  <1>7. CASE ~use_sendfile'
    <2>1. /\ ~(enabled /\ has_file)
          /\ file_address' = IF opened THEN (offset \div PAGE_SIZE) * PAGE_SIZE ELSE Null
          /\ file' = IF opened THEN [base |-> offset, len |-> size] ELSE Empty
      BY <1>1, <1>7
    <2>2. opened => (offset \div PAGE_SIZE) * PAGE_SIZE = offset
      <3> HAVE opened
      <3>1. enabled' = enabled
        BY DEF SetResponse
      <3>2. offset % PAGE_SIZE = 0
        BY <1>2, <1>3, <2>1, <3>1 DEF InPlace
      <3>3. PAGE_SIZE \in Nat /\ PAGE_SIZE > 0
        BY OutputAssumption
      <3> QED
        BY <3>2, <3>3
    <2>3. MmapInv'
      BY <1>2, <1>3, <1>5, <2>1, <2>2 DEF MmapInv, Empty
    <2> QED
      BY <1>4, <1>7, <2>3 DEF WindowInv
  <1> QED
    BY <1>6, <1>7

\* One writev: the window moves by what was taken.
LEMMA WritevWindow ==
    ASSUME ~HeaderCuts, NEW n \in 1 .. bytes_to_send, TypeInv, CountersInv, WindowInv, BytesInOrder,
           Writev(n)
    PROVE  WindowInv' /\ BytesInOrder'
  <1>1. n \in Nat /\ n > 0 /\ n <= bytes_to_send /\ bytes_to_send \in Nat
        /\ bytes_have_sent \in Nat /\ response_bound \in Nat
        /\ plan.header \in Nat /\ plan.offset \in Nat /\ plan.size \in Nat
        /\ header.base \in Nat /\ header.len \in Nat /\ file.base \in Nat /\ file.len \in Nat
    BY DEF TypeInv, OutputTypeOK
  <1>2. /\ phase = "sending" /\ ~use_sendfile /\ MmapInv
        /\ n <= header.len + file.len
        /\ header.len = response_bound \/ n >= header.len
        /\ Transfer(n, header.base, header.len, file.base)
        /\ Finish(n, AdvanceIov(bytes_have_sent + n) /\ UNCHANGED <<file_offset, file_remain>>)
    BY DEF Writev, WindowInv
  <1>3. header.len = (IF bytes_have_sent < response_bound THEN response_bound - bytes_have_sent ELSE 0)
        /\ (header.len > 0 => header.base = bytes_have_sent)
    BY <1>1, <1>2 DEF MmapInv
  <1>4. /\ planned \in Nat /\ planned = bytes_have_sent + bytes_to_send
        /\ reached \in Nat /\ reached >= response_bound /\ response_bound = plan.header
    BY <1>1 DEF CountersInv, planned, reached
  <1>5. n > header.len => file.base = plan.offset + (reached - response_bound)
    <2> HAVE n > header.len
    <2>1. planned > reached
      BY <1>1, <1>2, <1>4 DEF MmapInv
    <2>2. planned > plan.header
      BY <1>1, <1>4, <2>1
    <2> QED
      BY <1>2, <2>2 DEF MmapInv
  <1>6. BytesInOrder'
    BY <1>1, <1>2, <1>3, <1>5, TransferInOrder
  <1>7. CASE phase' # "sending"
    BY <1>6, <1>7 DEF WindowInv
  <1>8. CASE phase' = "sending"
    <2>1. /\ bytes_to_send # n
          /\ AdvanceIov(bytes_have_sent + n)
          /\ bytes_have_sent' = bytes_have_sent + n /\ planned' = planned
          /\ UNCHANGED <<use_sendfile, response_bound, file_address, plan>>
      <3>1. bytes_to_send # n /\ AdvanceIov(bytes_have_sent + n)
        BY <1>2, <1>8 DEF Finish
      <3> QED
        BY <1>8, <3>1, TransferCounters
    <2>2. MmapInv'
      <3>1. CASE bytes_have_sent + n >= response_bound
        <4>1. /\ header'.len = 0
              /\ file' = [base |-> file_address + ((bytes_have_sent + n) - response_bound),
                          len |-> bytes_have_sent + bytes_to_send - (bytes_have_sent + n)]
          BY <1>1, <2>1, <3>1 DEF AdvanceIov
        <4>2. reached' = bytes_have_sent + n /\ reached' \in Nat
          BY <1>1, <2>1, <3>1 DEF reached
        <4>3. file_address = plan.offset
          <5>1. planned > plan.header
            BY <1>1, <1>4, <2>1, <3>1
          <5> QED
            BY <1>2, <5>1 DEF MmapInv
        <4>4. file'.base = plan.offset + (reached' - response_bound) /\ file'.len = planned - reached'
          BY <1>1, <1>4, <4>1, <4>2, <4>3
        <4> QED
          BY <1>1, <2>1, <3>1, <4>1, <4>3, <4>4 DEF MmapInv
      <3>2. CASE bytes_have_sent + n < response_bound
        <4>1. /\ header' = [base |-> header.base + (bytes_have_sent + n),
                            len |-> response_bound - (bytes_have_sent + n)]
              /\ file' = file
          BY <1>1, <2>1, <3>2 DEF AdvanceIov
        <4>2. bytes_have_sent = 0 /\ header.base = 0
          BY <1>1, <1>2, <1>3, <3>2
        <4>3. reached' = reached
          BY <1>1, <2>1, <3>2 DEF reached
        <4> QED
          BY <1>1, <1>2, <2>1, <3>2, <4>1, <4>2, <4>3 DEF MmapInv
      <3> QED
        BY <1>1, <3>1, <3>2
    <2> QED
      BY <1>2, <1>6, <2>1, <2>2 DEF WindowInv
  <1> QED
    BY <1>7, <1>8

\* One write and one sendfile: the same.
LEMMA SendfileWindow ==
    ASSUME NEW n \in 1 .. bytes_to_send, TypeInv, CountersInv, WindowInv, BytesInOrder, Sendfile(n)
    PROVE  WindowInv' /\ BytesInOrder'
  <1>1. n \in Nat /\ n > 0 /\ n <= bytes_to_send /\ bytes_to_send \in Nat
        /\ bytes_have_sent \in Nat /\ response_bound \in Nat
        /\ plan.header \in Nat /\ plan.offset \in Nat
        /\ file_offset \in Nat /\ file_remain \in Nat
    BY DEF TypeInv, OutputTypeOK
  <1> DEFINE left == IF bytes_have_sent < response_bound THEN response_bound - bytes_have_sent ELSE 0
             sent == IF n > left THEN n - left ELSE 0
  <1>2. left \in Nat /\ sent \in Nat
    BY <1>1
  <1>3. /\ phase = "sending" /\ use_sendfile /\ SendfileInv
        /\ sent <= (IF file_fd THEN file_remain ELSE 0)
        /\ Transfer(n, header.base + bytes_have_sent, left, file_offset)
        /\ Finish(n, /\ file_offset' = file_offset + sent
                     /\ file_remain' = file_remain - sent
                     /\ UNCHANGED <<header, file>>)
    BY DEF Sendfile, WindowInv
  <1>4. header.base + bytes_have_sent = bytes_have_sent
    BY <1>1, <1>3 DEF SendfileInv
  <1>5. n > left => file_offset = plan.offset + (reached - response_bound)
    BY <1>1, <1>2, <1>3 DEF SendfileInv
  <1>6. BytesInOrder'
    <2>1. Transfer(n, bytes_have_sent, left, file_offset)
      BY <1>3, <1>4
    <2> QED
      BY <1>1, <1>2, <1>5, <2>1, TransferInOrder
  <1>7. CASE phase' # "sending"
    BY <1>6, <1>7 DEF WindowInv
  <1>8. CASE phase' = "sending"
    <2>1. /\ file_offset' = file_offset + sent
          /\ file_remain' = file_remain - sent
          /\ UNCHANGED header
          /\ bytes_have_sent' = bytes_have_sent + n /\ planned' = planned
          /\ UNCHANGED <<use_sendfile, response_bound, file_fd, plan>>
      <3>1. /\ file_offset' = file_offset + sent
            /\ file_remain' = file_remain - sent
            /\ UNCHANGED header
        BY <1>3, <1>8 DEF Finish
      <3> HIDE DEF left, sent
      <3> QED
        BY <1>8, <3>1, TransferCounters
    <2>2. reached' = reached + sent
      BY <1>1, <2>1 DEF reached
    <2>3. SendfileInv'
      <3>1. planned \in Nat /\ reached \in Nat
        BY <1>1 DEF planned, reached, TypeInv, OutputTypeOK
      <3>2. header'.base = 0 /\ (file_fd' <=> file_fd)
        BY <1>3, <2>1 DEF SendfileInv
      <3>3. file_fd => /\ file_remain' = planned' - reached'
                       /\ file_offset' = plan'.offset + (reached' - response_bound')
        BY <1>1, <1>2, <1>3, <2>1, <2>2, <3>1 DEF SendfileInv
      <3> QED
        BY <3>2, <3>3 DEF SendfileInv
    <2> QED
      BY <1>3, <1>6, <2>1, <2>3 DEF WindowInv
  <1> QED
    BY <1>7, <1>8

LEMMA NextStream == ASSUME ~HeaderCuts PROVE StreamInv /\ [Next]_outvars => StreamInv'
  <1> SUFFICES ASSUME StreamInv, [Next]_outvars, InPlace' PROVE WindowInv' /\ BytesInOrder'
    BY NextCounted DEF StreamInv
  <1> USE DEF StreamInv, CountedInv
  <1>1. ASSUME NEW h \in Nat \ {0}, NEW offset \in Nat, NEW size \in Nat, NEW has_file \in BOOLEAN,
               size > 0 => has_file, SetResponse(h, offset, size, has_file)
        PROVE  WindowInv' /\ BytesInOrder'
    BY <1>1, SetResponseWindow DEF Asked
  <1>2. ASSUME NEW n \in 1 .. bytes_to_send, Writev(n) \/ Sendfile(n)
        PROVE  WindowInv' /\ BytesInOrder'
    <2>1. CountersInv
      BY <1>2 DEF Writev, Sendfile
    <2>2. InPlace
      BY <1>2, <2>1, TransferCounters DEF InPlace
    <2> QED
      BY <1>2, <2>1, <2>2, WritevWindow, SendfileWindow
  <1>3. CASE Destroy
    <2>1. InPlace
      BY <1>3 DEF Destroy, InPlace
    <2> QED
      BY <1>3, <2>1 DEF Destroy, WindowInv, BytesInOrder
  <1>4. CASE UNCHANGED outvars
    <2>1. InPlace
      BY <1>4 DEF outvars, InPlace
    <2> QED
      BY <1>4, <2>1 DEF outvars, buffer, WindowInv, BytesInOrder, MmapInv, SendfileInv, planned, reached
  <1> QED
    BY <1>1, <1>2, <1>3, <1>4 DEF Next, WriteTo

(* output_buffer.cpp:120: the kernel receives the bytes of a response in     *)
(* order, each once, however it cuts them, with writev and with sendfile,    *)
(* also if the file cannot be opened.  Not of a response whose file is       *)
(* mapped from within a page (~InPlace), and not if the kernel takes a       *)
(* header in three pieces or more (HeaderCuts).                              *)
THEOREM BytesArriveInOrder == ASSUME ~HeaderCuts PROVE Spec => [](InPlace => BytesInOrder)
  <1>1. StreamInv => (InPlace => BytesInOrder)
    BY DEF StreamInv
  <1> QED
    BY <1>1, InitStream, NextStream, PTL DEF Spec

-----------------------------------------------------------------------------
(* The refinement                                                            *)

\* Where everything fits, all responses are in place.
PlacedInv == StreamInv /\ InPlace

LEMMA InitPlaced == Init => PlacedInv
  BY InitStream DEF Init, InPlace, PlacedInv

LEMMA NextPlaced == ASSUME Fits PROVE PlacedInv /\ [Next]_outvars => PlacedInv'
  <1> SUFFICES ASSUME PlacedInv, [Next]_outvars PROVE InPlace'
    BY NextStream DEF PlacedInv, Fits
  <1> USE DEF PlacedInv, StreamInv, CountedInv
  <1>1. ASSUME NEW h, NEW offset, NEW size, NEW has_file, SetResponse(h, offset, size, has_file)
        PROVE  InPlace'
    <2>1. CASE enabled /\ has_file
      BY <1>1, <2>1 DEF SetResponse, InPlace
    <2>2. CASE ~(enabled /\ has_file)
      <3>1. PICK opened : SetHeader(h, offset, size, opened)
        BY <1>1, <2>2 DEF SetResponse, SetMmap
      <3>2. plan' = [header |-> h, offset |-> offset, size |-> size] /\ UNCHANGED enabled
        BY <1>1, <3>1 DEF SetHeader, SetResponse
      <3>3. OffPage \/ size = 0 \/ offset % PAGE_SIZE = 0
        BY <1>1, <2>2 DEF SetResponse, SetMmap
      <3>4. OffPage => enabled
        BY DEF Fits, TypeInv, OutputTypeOK
      <3> QED
        BY <3>2, <3>3, <3>4 DEF InPlace
    <2> QED
      BY <2>1, <2>2
  <1>2. CASE WriteTo
    <2>1. UNCHANGED <<enabled, plan>>
      BY <1>2 DEF WriteTo, Writev, Sendfile
    <2> QED
      BY <2>1 DEF InPlace
  <1>3. CASE Destroy
    BY <1>3 DEF Destroy, InPlace
  <1>4. CASE UNCHANGED outvars
    BY <1>4 DEF outvars, InPlace
  <1> QED
    BY <1>1, <1>2, <1>3, <1>4 DEF Next

\* Bytes in order, one more than before, are what the abstract stream delivers.
LEMMA TransferDelivers ==
    ASSUME ~OpenMayFail, TypeInv, TypeInv', CountersInv, BytesInOrder',
           NEW n \in 1 .. bytes_to_send, Writev(n) \/ Sendfile(n)
    PROVE  Stream!Deliver
  <1>1. /\ n \in Nat /\ n > 0 /\ n <= bytes_to_send /\ bytes_to_send \in Nat
        /\ Len(stream) \in Nat
    BY DEF TypeInv, OutputTypeOK
  <1>2. /\ Len(stream') = Len(stream) + n /\ UNCHANGED plan /\ total' = total
        /\ phase = "sending" /\ phase' = IF bytes_to_send = n THEN "idle" ELSE "sending"
    BY TransferCounters
  <1>3. total = Len(stream) + bytes_to_send
    BY DEF CountersInv, planned
  <1>4. Len(stream') \in Nat
    BY DEF TypeInv, OutputTypeOK
  <1>5. Len(stream') \in Len(stream) + 1 .. total /\ (Len(stream') = total <=> bytes_to_send = n)
    BY <1>1, <1>2, <1>3, <1>4
  <1>6. stream' = [i \in 1 .. Len(stream') |-> i]
    <2>1. stream' = [i \in DOMAIN stream' |-> stream'[i]] /\ DOMAIN stream' = 1 .. Len(stream')
      BY DEF TypeInv, OutputTypeOK
    <2> QED
      BY <2>1 DEF BytesInOrder
  <1> QED
    BY <1>2, <1>5, <1>6 DEF Stream!Deliver

LEMMA StepMaps == ASSUME Fits PROVE PlacedInv /\ PlacedInv' /\ [Next]_outvars => [Stream!Next]_(Stream!vars)
  <1> SUFFICES ASSUME PlacedInv, PlacedInv', [Next]_outvars PROVE [Stream!Next]_(Stream!vars)
    OBVIOUS
  <1> USE DEF PlacedInv, StreamInv, CountedInv
  <1>1. ASSUME NEW h \in Nat \ {0}, NEW offset \in Nat, NEW size \in Nat, NEW has_file \in BOOLEAN,
               size > 0 => has_file, SetResponse(h, offset, size, has_file)
        PROVE  Stream!Begin
    <2>1. /\ phase = "idle" /\ phase' = "sending" /\ stream' = <<>> /\ total' = h + size
      BY <1>1, SetResponseCounters DEF Asked
    <2>2. h + size \in Nat \ {0}
      OBVIOUS
    <2> QED
      BY <2>1, <2>2 DEF Stream!Begin
  <1>2. ASSUME NEW n \in 1 .. bytes_to_send, Writev(n) \/ Sendfile(n)
        PROVE  Stream!Deliver
    <2>1. CountersInv
      BY <1>2 DEF Writev, Sendfile
    <2> QED
      BY <1>2, <2>1, TransferDelivers DEF Fits
  <1>3. CASE Destroy
    <2>1. phase' = "closed" /\ UNCHANGED <<stream, plan>>
      BY <1>3 DEF Destroy
    <2>2. total' = total
      BY <2>1 DEF total
    <2> QED
      BY <2>1, <2>2 DEF Stream!Next, Stream!Close
  <1>4. CASE UNCHANGED outvars
    BY <1>4 DEF outvars, buffer, Stream!vars, total
  <1> QED
    BY <1>1, <1>2, <1>3, <1>4 DEF Next, WriteTo, Stream!Next

(* http_conn.cpp:91, output_buffer.cpp:120: what leaves the buffer is, for    *)
(* the client, a stream of complete responses, cut only by the end of the     *)
(* connection, where everything Fits: no header in three pieces or more, no   *)
(* file that cannot be opened after its length was announced, and no file     *)
(* mapped from within a page, unless all files are sent with sendfile.        *)
THEOREM BufferImplementsStream == ASSUME Fits PROVE Spec => StreamSpec
  <1>1. Init => Stream!Init
    BY DEF Init, Stream!Init, total
  <1>2. PlacedInv /\ PlacedInv' /\ [Next]_outvars => [Stream!Next]_(Stream!vars)
    BY StepMaps
  <1> QED
    BY <1>1, <1>2, InitPlaced, NextPlaced, PTL DEF Spec, StreamSpec, Stream!Spec
=============================================================================
