----------------------------- MODULE Frames_proofs -----------------------------
(***************************************************************************)
(* Every answer arrives, whatever the frames hold.                         *)
(***************************************************************************)
EXTENDS Frames, TLAPS

\* A request has one of the six functions, and its slave can answer.
LEMMA RequestShape ==
  ASSUME NEW q \in Requests
  PROVE  /\ q.function \in Reads \cup {5, 6} /\ q.length = 8 /\ q.value \in Nat
         /\ q.function \in Reads => Readable(q)
         /\ q.function = 6 => q.address \in Nat /\ (q.address >= REGISTER_BASE \/ q.address = MOMENTARY_REGISTER)
<1>1. /\ q.value \in Values /\ q.address \in Addresses /\ q.length = 8
      /\ Readable(q) \/ Writable(q)
  BY DEF Requests
<1>2. q.value \in Nat /\ q.address \in Nat
  BY <1>1, FramesAssumption DEF FramesAssumption
<1>3. CASE Readable(q)
  BY <1>1, <1>2, <1>3 DEF Readable, Reads, Bits, Words
<1>4. CASE Writable(q)
  BY <1>1, <1>2, <1>4 DEF Writable, REGISTER_BASE, Reads, Bits, Words
<1> QED
  BY <1>1, <1>3, <1>4

\* The answers to reads that can be built are within receive()'s bounds
\* (protocol.py _read, receive).
LEMMA ExpectedInBounds ==
  ASSUME NEW q \in Requests, q.function \in Reads
  PROVE  /\ Expected(q) \in 1 .. 250
         /\ q.function \in Words => Expected(q) % 2 = 0
<1>1. Readable(q) /\ q.value \in Nat
  BY RequestShape
<1>2. CASE q.function \in Bits
  <2>1. q.value >= 1 /\ q.value <= 2000
    BY <1>1, <1>2 DEF Readable
  <2>2. (q.value + 7) \div 8 \in 1 .. 250
    BY <1>1, <2>1
  <2> QED
    BY <1>2, <2>2 DEF Expected, Bits, Words
<1>3. CASE q.function \in Words
  <2>1. q.value >= 1 /\ q.value <= 125
    BY <1>1, <1>3 DEF Readable, Bits, Words
  <2>2. q.value * 2 \in 1 .. 250 /\ (q.value * 2) % 2 = 0
    BY <1>1, <2>1
  <2> QED
    BY <1>3, <2>2 DEF Expected, Bits, Words
<1> QED
  BY <1>2, <1>3 DEF Reads

\* An answer is an exception, the echo of a write, or a read of the right size.
LEMMA AnswerShape ==
  ASSUME NEW q \in Requests, NEW p \in Answers(q)
  PROVE  \/ p.function = q.function + 128 /\ p.length = 5
         \/ q.function \in {5, 6} /\ p = q
         \/ /\ q.function \in Reads /\ p.function = q.function
            /\ ByteCount(p) = Expected(q) /\ p.length = Expected(q) + 5
<1>1. p.length \in Nat
  BY FramesAssumption DEF FramesAssumption, Answers, Frame
<1>2. p.length >= 5 /\ p.crc /\ p.slave = q.slave
  BY <1>1 DEF Answers, Validated
<1> QED
  BY <1>1, <1>2, RequestShape DEF Answers, Validated

(***************************************************************************)
(* receive() and validate() agree on the length of every answer to every   *)
(* request the integration builds, and no answer is taken for a report of  *)
(* an S402: of the writes of registers, neither a dimmer's nor the pulse   *)
(* of a Cover, five below, goes to the address of the reports.             *)
(***************************************************************************)
THEOREM EveryAnswerArrives == AnswersArrive
<1> SUFFICES ASSUME NEW q \in Requests, NEW p \in Answers(q)
             PROVE  Received(p) = p.length /\ ~S402Candidate(p)
  BY DEF AnswersArrive
<1>1. CASE p.function = q.function + 128 /\ p.length = 5
  BY <1>1, RequestShape DEF Received, S402Candidate, Reads, Bits, Words
<1>2. CASE q.function \in {5, 6} /\ p = q
  <2>1. p.function \in {5, 6} /\ p.length = 8
    BY <1>2, RequestShape
  <2>2. Received(p) = 8
    <3>1. CASE p.function = 5
      BY <3>1 DEF Received, Reads, Bits, Words
    <3>2. CASE p.function = 6
      BY <3>2 DEF Received, Reads, Bits, Words
    <3> QED
      BY <2>1, <3>1, <3>2
  <2>3. q.function = 6 => q.address # 416
    BY RequestShape DEF REGISTER_BASE, MOMENTARY_REGISTER
  <2> QED
    BY <1>2, <2>1, <2>2, <2>3 DEF S402Candidate
<1>3. CASE /\ q.function \in Reads /\ p.function = q.function
           /\ ByteCount(p) = Expected(q) /\ p.length = Expected(q) + 5
  <2>1. p.function \notin 129 .. 134 /\ p.function \notin {5, 6}
    BY <1>3 DEF Reads, Bits, Words
  <2>2. ByteCount(p) \in 1 .. 250 /\ (p.function \in Words => ByteCount(p) % 2 = 0)
    BY <1>3, ExpectedInBounds
  <2>3. Received(p) = ByteCount(p) + 5
    BY <1>3, <2>1, <2>2 DEF Received
  <2> QED
    BY <1>3, <2>1, <2>3 DEF S402Candidate
<1> QED
  BY <1>1, <1>2, <1>3, AnswerShape
=============================================================================
