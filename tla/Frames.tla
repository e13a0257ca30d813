-------------------------------- MODULE Frames --------------------------------
(***************************************************************************)
(* The frames on the line, as far as their lengths and their judgement go: *)
(* the requests that are built (protocol.py _request, _read; profiles.py   *)
(* command; r410_cover.py request), how much receive() takes off the       *)
(* stream for an answer, what validate() says of it, and which frames are  *)
(* taken for reports of an S402 (s402.py).                                 *)
(*                                                                         *)
(* A frame has its first six bytes as slave, function and two words (what  *)
(* a shorter one lacks of them is arbitrary and not looked at), a length   *)
(* and whether its checksum fits.  Words are big-endian; the third byte of *)
(* an answer to a read is its count of bytes.  Of two frames of 8 bytes    *)
(* with a good checksum these fields are all there is to compare.          *)
(***************************************************************************)
EXTENDS Integers

CONSTANTS Slaves, Functions, Addresses, Values, Lengths   \* what frames may hold

FramesAssumption == {Slaves, Functions, Addresses, Values, Lengths} \subseteq SUBSET Nat
ASSUME FramesAssumption

Frame == [slave : Slaves, function : Functions, address : Addresses, value : Values,
          length : Lengths, crc : BOOLEAN]

REGISTER_BASE == 2090      \* 0x082A
MOMENTARY_REGISTER == 411  \* 0x019B, the pulse of an R410's relays
Bits == {1, 2}             \* functions that read bits
Words == {3, 4}            \* ... and registers
Reads == Bits \cup Words

\* _read
Readable(q) ==
  /\ q.function \in Reads
  /\ q.value >= 1 /\ q.value <= (IF q.function \in Bits THEN 2000 ELSE 125)
  /\ q.address + q.value <= 65536

\* write_single_coil and write_dimmer, as DeviceProfile.command calls them, and
\* the pulse of a Cover
Writable(q) ==
  \/ q.function = 5 /\ q.address \in 0 .. 3
  \/ q.function = 6 /\ q.address - REGISTER_BASE \in 0 .. 3
  \/ q.function = 6 /\ q.address = MOMENTARY_REGISTER

Requests ==
  {q \in [slave : Slaves, function : Functions, address : Addresses, value : Values,
          length : {8}, crc : {TRUE}] :
     q.slave \in 1 .. 247 /\ (Readable(q) \/ Writable(q))}

-----------------------------------------------------------------------------
ByteCount(p) == p.address \div 256

\* receive: how many bytes it takes for a frame that begins like p, 0 if it
\* gives the stream up.
Received(p) ==
  CASE p.function \in 129 .. 134 -> 5
    [] p.function \in {5, 6} -> 8
    [] /\ p.function \in Reads /\ ByteCount(p) \in 1 .. 250
       /\ p.function \in Words => ByteCount(p) % 2 = 0 -> ByteCount(p) + 5
    [] OTHER -> 0

\* The count of bytes that answers a read.
Expected(q) == IF q.function \in Bits THEN (q.value + 7) \div 8 ELSE q.value * 2

Validated(q, p) ==
  CASE p.length < 5 -> "length"
    [] p.length >= 5 /\ ~p.crc -> "crc"
    [] p.length >= 5 /\ p.crc /\ p.slave # q.slave -> "slave"
    [] p.length >= 5 /\ p.crc /\ p.slave = q.slave ->
         IF p.function = q.function + 128 /\ p.length = 5 THEN "exception"
         ELSE IF p.function # q.function THEN "function"
         ELSE IF q.function \in {5, 6} THEN IF p = q THEN "accepted" ELSE "echo"
         ELSE IF ByteCount(p) = Expected(q) /\ p.length = Expected(q) + 5 THEN "accepted"
         ELSE "count"

Answers(q) == {p \in Frame : Validated(q, p) \in {"accepted", "exception"}}

\* is_s402_candidate: the RX task keeps such a frame from the pending request.
S402Candidate(p) == p.slave = 1 /\ p.function = 6 /\ p.address = 416

-----------------------------------------------------------------------------
(***************************************************************************)
(* The two tables of lengths, receive()'s by the head of an answer and     *)
(* validate()'s by the request, agree on every answer to a request that    *)
(* can be built: what validate() would accept, or take for an exception of *)
(* the device, is read off the stream whole, so that the next frame starts *)
(* where it should; and it is never taken for a report of an S402, slave 1 *)
(* included, so that the request gets it (transport.py _read_loop).        *)
(***************************************************************************)
AnswersArrive ==
  \A q \in Requests : \A p \in Answers(q) : Received(p) = p.length /\ ~S402Candidate(p)
=============================================================================
