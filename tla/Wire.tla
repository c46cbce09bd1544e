-------------------------------- MODULE Wire --------------------------------
(* The body of a mail on its way through DATA: the client stuffs it (outbound/mod.rs,   *)
(* send_mail_flow and apply_dot_stuffing), the server reads lines, unstuffs them and    *)
(* looks for the end (inbound/protocol.rs, handle_body_line and append).                *)
EXTENDS Naturals, Sequences, SequencesExt, SequenceFolds

\* A byte is a dot, CR, LF or something else.
Byte == {".", "CR", "LF", "x"}

CRLF == <<"CR", "LF">>

----------------------------------------------------------------------------
(* The client.  "start" is at_line_start.  A CR with its LF is copied in one step, which *)
(* leaves the flag as two steps would.                                                 *)

Stuffing == [out : Seq(Byte), start : BOOLEAN]

StuffByte(r, byte) ==
  IF r.start /\ byte = "."
  THEN [out |-> r.out \o <<".", ".">>, start |-> FALSE]
  ELSE [out |-> Append(r.out, byte), start |-> byte = "LF"]

StuffStep == [q \in Stuffing \X Byte |-> StuffByte(q[1], q[2])]

\* The first line taken for the middle of one.
apply_dot_stuffing_late(payload) ==
  Fold(StuffStep, [out |-> <<>>, start |-> FALSE], payload).out

apply_dot_stuffing(payload) ==
  Fold(StuffStep, [out |-> <<>>, start |-> TRUE], payload).out

\* What the client writes after 354: the body, ended by CRLF, and the dot.
SendBody(payload) ==
  LET stuffed == apply_dot_stuffing(payload)
      ended == IF IsSuffix(CRLF, stuffed) THEN stuffed ELSE stuffed \o CRLF
  IN  ended \o <<".">> \o CRLF

----------------------------------------------------------------------------
(* The server.  It reads up to each LF (external: BufReader::read_line) and hands the   *)
(* line to handle_body_line; what comes after the end is left for the next command.     *)

Receiving == [line : Seq(Byte), body : Seq(Byte), done : BOOLEAN, rest : Seq(Byte)]

\* Nothing but the dot is left when the line ends are trimmed.
IsEnd(line) ==
  line # <<>> /\ line[1] = "." /\ \A i \in 2..Len(line) : line[i] \in {"CR", "LF"}

Unstuffed(line) == IF line # <<>> /\ line[1] = "." THEN Tail(line) ELSE line

ReceiveByte(r, byte) ==
  LET line == Append(r.line, byte)
  IN  CASE r.done -> [r EXCEPT !.rest = Append(@, byte)]
        [] ~r.done /\ byte # "LF" -> [r EXCEPT !.line = line]
        [] ~r.done /\ byte = "LF" /\ IsEnd(line) -> [r EXCEPT !.line = <<>>, !.done = TRUE]
        [] ~r.done /\ byte = "LF" /\ ~IsEnd(line) ->
             [r EXCEPT !.line = <<>>, !.body = @ \o Unstuffed(line)]

ReceiveStep == [q \in Receiving \X Byte |-> ReceiveByte(q[1], q[2])]

ReceiveBody(bytes) ==
  Fold(ReceiveStep, [line |-> <<>>, body |-> <<>>, done |-> FALSE, rest |-> <<>>], bytes)
=============================================================================
