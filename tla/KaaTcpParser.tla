---------------------------- MODULE KaaTcpParser ----------------------------
(***************************************************************************)
(* The framing of Kaa TCP messages: how a message becomes bytes            *)
(* (create_basic_header of kaatcp_request.c) and how the parser            *)
(* (kaatcp_parser.c) makes messages of bytes that arrive in pieces.        *)
(*                                                                         *)
(* A byte is a number: the type in the first byte of a message, a digit of *)
(* its length in the following ones, an opaque value in the payload.       *)
(***************************************************************************)
EXTENDS Naturals, Sequences

CONSTANT Base   \* FIRST_BIT, 128: with the bit set another length digit follows

ASSUME BaseAssumption == Base \in Nat \ {0, 1}

Connect == 1
Connack == 2
Ping == 12
Pingresp == 13
Disconnect == 14
Kaasync == 15

Message(type, n, value) == [type |-> type, payload |-> [i \in 1 .. n |-> value]]

LengthDigits[n \in Nat] ==
  IF n < Base THEN <<n>> ELSE <<(n % Base) + Base>> \o LengthDigits[n \div Base]

Encode(m) == <<m.type>> \o LengthDigits[Len(m.payload)] \o m.payload
Size(m) == Len(Encode(m))
-----------------------------------------------------------------------------
(* payload is as much of it as has been processed. *)
Parsers ==
  [state : {"none", "length", "payload"}, type : Nat, length : Nat, multiplier : Nat,
   payload : Seq(Nat)]

(* kaatcp_parser_reset *)
NewParser == [state |-> "none", type |-> 0, length |-> 0, multiplier |-> 1, payload |-> <<>>]

(* A KAASYNC that is not of this protocol starts with 0. *)
Refused(p) == p.type = Kaasync /\ p.payload # <<>> /\ Head(p.payload) = 0

(* A parsing under way: the parser, the messages its handlers have got,    *)
(* whether it failed.                                                      *)
Done(parsing, p) == Append(parsing.done, [type |-> p.type, payload |-> p.payload])

(* Mutant: a message done resets the state only. *)
MessageDoneOnly(parsing, p) ==
  [parsing EXCEPT !.parser = [p EXCEPT !.state = "none"], !.done = Done(parsing, p)]

(* kaatcp_parser_message_done *)
MessageDone(parsing, p) ==
  IF Refused(p) THEN [parsing EXCEPT !.parser = p, !.error = TRUE]
  ELSE [parsing EXCEPT !.parser = NewParser, !.done = Done(parsing, p)]

(* Mutant: every digit counts alike. *)
WithDigitFlat(p, byte) ==
  [p EXCEPT !.length = @ + (byte % Base), !.state = IF byte < Base THEN "payload" ELSE @]

WithDigit(p, byte) ==
  [p EXCEPT !.length = @ + (byte % Base) * p.multiplier,
            !.multiplier = @ * Base,
            !.state = IF byte < Base THEN "payload" ELSE @]

(* One byte, of those kaatcp_parser_process_byte takes or of those the     *)
(* buffer loop copies to the payload.  After an error nothing is looked at. *)
Process(parsing, byte) ==
  LET p == CASE parsing.parser.state = "none" ->
                  [parsing.parser EXCEPT !.type = byte, !.state = "length"]
             [] parsing.parser.state = "length" -> WithDigit(parsing.parser, byte)
             [] OTHER -> [parsing.parser EXCEPT !.payload = Append(@, byte)]
  IN  CASE parsing.error -> parsing
        [] ~parsing.error /\ p.state = "payload" /\ Len(p.payload) = p.length ->
             MessageDone(parsing, p)
        [] OTHER -> [parsing EXCEPT !.parser = p]

(* kaatcp_parser_process_buffer: the parsing after the first i bytes. *)
ProcessBuffer(parser, bytes) ==
  LET after[i \in 0 .. Len(bytes)] ==
        IF i = 0 THEN [parser |-> parser, done |-> <<>>, error |-> FALSE]
        ELSE Process(after[i - 1], bytes[i])
  IN  after[Len(bytes)]
=============================================================================
