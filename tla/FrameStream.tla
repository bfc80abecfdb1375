------------------------------ MODULE FrameStream ------------------------------
(***************************************************************************)
(* Frames on a byte stream (crosspuck-core/src/protocol/frame.rs): a       *)
(* header of fixed length that names the length of the payload, and        *)
(* read_exact for each of the two.  A read that runs into its timeout      *)
(* gives up the call with the bytes it has already taken.                  *)
(*                                                                         *)
(* A byte is the frame it belongs to, that frame's payload length, and its *)
(* place; the first one of a frame stands for the magic number.  Payloads  *)
(* of this protocol start with an interface number or a status, never with *)
(* the magic number.  What one write_all sends arrives together, as it     *)
(* does on the loopback device for a few hundred bytes.                    *)
(***************************************************************************)
EXTENDS Naturals, Sequences

CONSTANT HeaderLen   \* FRAME_HEADER_LEN: 12 in the program

ASSUME HeaderLenAssumption == HeaderLen \in Nat \ {0}

Bytes(frame, len, from, to) ==
  [i \in 1..(to - from + 1) |-> [frame |-> frame, len |-> len, at |-> from + i - 1]]

\* write_frame: two calls of write_all.
Header(frame, len)  == Bytes(frame, len, 1, HeaderLen)
Payload(frame, len) == Bytes(frame, len, HeaderLen + 1, HeaderLen + len)

\* What read_frame still waits for, given what it has taken.
Wanted(taken) ==
  IF Len(taken) < HeaderLen THEN HeaderLen - Len(taken)
  ELSE HeaderLen + taken[1].len - Len(taken)

\* One recv: whatever is there, up to what is wanted.
Ready(stream, taken) ==
  IF Len(stream) < Wanted(taken) THEN Len(stream) ELSE Wanted(taken)
Taken(stream, taken) == taken \o SubSeq(stream, 1, Ready(stream, taken))
Left(stream, taken)  == SubSeq(stream, Ready(stream, taken) + 1, Len(stream))

\* FrameHeader::decode refuses 12 bytes that do not start with the magic.
Decodes(taken) == Len(taken) >= HeaderLen => taken[1].at = 1

\* read_frame returns the frame.
Complete(taken) == Len(taken) >= HeaderLen /\ Wanted(taken) = 0
=============================================================================
