------------------------------ MODULE WsFrames ------------------------------
(***************************************************************************)
(* The WebSocket framing of tunnel-lite (class WebSocket of net.cpp), which *)
(* it does itself: frames it writes, frames it reads, and the loop that     *)
(* makes a message of several frames.  All of it is about the bytes of one  *)
(* direction of a connection.                                               *)
(***************************************************************************)
EXTENDS Integers, SequencesExt

Continuation == 0
Text         == 1
Binary       == 2
CloseOp      == 8
PingOp       == 9
PongOp       == 10

\* The mask of a client's frame: any four bytes; exclusive-or with 128 flips the top bit.
Mask == <<0, 128, 128, 0>>
Masked(d) ==
  LET flipped(c) == IF (c \div 128) % 2 = 0 THEN c + 128 ELSE c - 128
  IN [k \in DOMAIN d |-> IF Mask[((k - 1) % 4) + 1] = 0 THEN d[k] ELSE flipped(d[k])]

\* The length in 7 bits, or in the 2 or 8 bytes that follow.
LengthForm(n, maskBit) ==
  IF n < 126 THEN <<maskBit + n>>
  ELSE IF n <= 65535 THEN <<maskBit + 126, n \div 256, n % 256>>
  ELSE <<maskBit + 127, 0, 0, 0, 0, n \div 16777216,
         (n \div 65536) % 256, (n \div 256) % 256, n % 256>>

\* sendFrame: one final frame, masked.
SendFrame(opcode, payload) ==
  <<128 + opcode>> \o LengthForm(Len(payload), 128) \o Mask \o Masked(payload)

\* What a server writes: not masked, and final or not.
ServerFrame(fin, opcode, payload) ==
  <<(IF fin THEN 128 ELSE 0) + opcode>> \o LengthForm(Len(payload), 0) \o payload

\* The number that bytes stand for, the first the highest.
BigEndian(bs) == FoldLeft(LAMBDA v, b : v * 256 + b, 0, bs)

\* The frame at the head of d, as recvMessage takes it apart; whole tells
\* whether all of it has arrived (until then readExact waits).
FrameAt(d) ==
  LET has(n)  == Len(d) >= n
      short   == d[2] % 128
      ext     == CASE short = 126 -> 2 [] short = 127 -> 8 [] OTHER -> 0
      len     == IF ext = 0 THEN short ELSE BigEndian(SubSeq(d, 3, 2 + ext))
      masked  == d[2] >= 128
      start   == 2 + ext + (IF masked THEN 4 ELSE 0)
      raw     == SubSeq(d, start + 1, start + len)
  IN IF ~has(2) THEN [whole |-> FALSE]
     ELSE IF ~has(2 + ext) THEN [whole |-> FALSE]
     ELSE IF ~has(start + len) THEN [whole |-> FALSE]
     ELSE [whole |-> TRUE, fin |-> d[1] >= 128, opcode |-> d[1] % 16,
           payload |-> IF masked THEN Masked(raw) ELSE raw, next |-> start + len + 1]

\* Mutant: the answer forgets what the ping carried.
AnswerEmpty(f) == IF f.opcode = PingOp THEN SendFrame(PongOp, <<>>) ELSE <<>>

\* A ping is answered with its own payload.
Answer(f) == IF f.opcode = PingOp THEN SendFrame(PongOp, f.payload) ELSE <<>>

\* The locals of recvMessage: what has been put together, whether its kind is known, and which.
NoMessage == [data |-> <<>>, haveOp |-> FALSE, bin |-> FALSE]

\* Mutant: a control frame between two fragments starts the message again.
GatherFromLast(recv, f) ==
  IF f.opcode \notin {Continuation, Text, Binary} THEN NoMessage
  ELSE LET first == ~recv.haveOp /\ f.opcode # Continuation IN
       [data   |-> recv.data \o f.payload,
        haveOp |-> recv.haveOp \/ first,
        bin    |-> IF first THEN f.opcode = Binary ELSE recv.bin]

\* What one frame does to them; control frames change nothing.
Gather(recv, f) ==
  IF f.opcode \notin {Continuation, Text, Binary} THEN recv
  ELSE LET first == ~recv.haveOp /\ f.opcode # Continuation IN
       [data   |-> recv.data \o f.payload,
        haveOp |-> recv.haveOp \/ first,
        bin    |-> IF first THEN f.opcode = Binary ELSE recv.bin]

=============================================================================
