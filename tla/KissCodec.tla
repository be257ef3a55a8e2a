------------------------------ MODULE KissCodec ------------------------------
(***************************************************************************)
(* KISS framing (kiss.c): the parser as the code runs it, byte by byte,    *)
(* the encoder, and a reference that reads a whole stream at once.         *)
(*                                                                         *)
(* Bytes are the four KISS bytes, "zero" (as a type byte: port 0, data)    *)
(* and "one" (port 0, TXDELAY).  The types 0xc0, 0xdb, 0xdc and 0xdd are   *)
(* other ports.                                                            *)
(***************************************************************************)
EXTENDS Integers, Sequences, FiniteSets

CONSTANT MaxFrame  \* bytes of a frame, its type included: RTNC_LINK_MAX_MTU + 1

ASSUME MaxFrameAssumption == MaxFrame \in Nat \ {0, 1}

Byte == {"FEND", "FESC", "TFEND", "TFESC", "zero", "one"}

NewParser == [active |-> FALSE, escaped |-> FALSE, rejected |-> FALSE,
              frame |-> << >>]

-----------------------------------------------------------------------------
(* rtnc_kiss_parser_push_frame *)

EndFrame(p) == [NewParser EXCEPT !.active = TRUE]

\* Mutant: the buffer takes one byte more than it has.
KeepOneMore(p, byte) ==
  IF Len(p.frame) > MaxFrame
    THEN [p EXCEPT !.escaped = FALSE, !.rejected = TRUE]
    ELSE [p EXCEPT !.escaped = FALSE, !.frame = Append(@, byte)]

Keep(p, byte) ==
  IF Len(p.frame) >= MaxFrame
    THEN [p EXCEPT !.escaped = FALSE, !.rejected = TRUE]
    ELSE [p EXCEPT !.escaped = FALSE, !.frame = Append(@, byte)]

Unescaped(byte) == CASE byte = "TFEND" -> "FEND"
                     [] byte = "TFESC" -> "FESC"
                     [] OTHER -> byte

\* The parser after a byte.
Push(p, byte) ==
  IF byte = "FEND" THEN EndFrame(p)
  ELSE IF ~p.active \/ p.rejected THEN p
  ELSE IF p.escaped
    THEN IF byte \in {"TFEND", "TFESC"}
           THEN Keep(p, Unescaped(byte))
           ELSE [p EXCEPT !.escaped = FALSE, !.rejected = TRUE]
  ELSE IF byte = "FESC" THEN [p EXCEPT !.escaped = TRUE]
  ELSE Keep(p, byte)

\* Whether a byte completes the frame the parser holds.
Completes(p, byte) ==
  byte = "FEND" /\ p.active /\ ~p.rejected /\ p.frame # << >>

-----------------------------------------------------------------------------
(* rtnc_kiss_encode *)

\* Mutant: only FEND is escaped.
EscapeFendOnly(byte) == IF byte = "FEND" THEN <<"FESC", "TFEND">> ELSE <<byte>>

Escape(byte) == CASE byte = "FEND" -> <<"FESC", "TFEND">>
                  [] byte = "FESC" -> <<"FESC", "TFESC">>
                  [] OTHER -> <<byte>>

\* What the loop writes from each byte of the packet on, and the last FEND.
Written(packet) ==
  LET from[i \in 1 .. Len(packet) + 1] ==
        IF i > Len(packet) THEN <<"FEND">>
                           ELSE Escape(packet[i]) \o from[i + 1]
  IN from

Encode(packet) == <<"FEND", "zero">> \o Written(packet)[1]

-----------------------------------------------------------------------------
(* The reference: what a stream means, read as a whole. *)

\* The k-th smallest number of a set.
Nth(S, k) == CHOOSE i \in S : Cardinality({j \in S : j <= i}) = k

\* What stands between the k-th FEND and the next.
Ends(s) == {i \in 1 .. Len(s) : s[i] = "FEND"}
Body(s, k) == SubSeq(s, Nth(Ends(s), k) + 1, Nth(Ends(s), k + 1) - 1)

\* An escape at the very end of a body is ignored, as the code does.
Kept(body) == {i \in 1 .. Len(body) : body[i] # "FESC"}
Meaning(body, i) ==
  IF i > 1 /\ body[i - 1] = "FESC" THEN Unescaped(body[i]) ELSE body[i]
Content(body) ==
  [k \in 1 .. Cardinality(Kept(body)) |-> Meaning(body, Nth(Kept(body), k))]

EscapesAreGood(body) ==
  \A i \in 1 .. Len(body) - 1 :
    body[i] = "FESC" => body[i + 1] \in {"TFEND", "TFESC"}

IsFrame(body) == EscapesAreGood(body) /\ Len(Content(body)) \in 1 .. MaxFrame

GoodBodies(s) == {k \in 1 .. Cardinality(Ends(s)) - 1 : IsFrame(Body(s, k))}

Frames(s) ==
  [m \in 1 .. Cardinality(GoodBodies(s)) |->
     Content(Body(s, Nth(GoodBodies(s), m)))]
=============================================================================
