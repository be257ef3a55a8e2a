------------------------------- MODULE KissLink -------------------------------
(***************************************************************************)
(* The KISS side of the service's main loop (alsa_rx.c): one TCP client at *)
(* a time connects, sends bytes in chunks of any size, is sent packets,    *)
(* and closes or resets the connection at any moment.  A packet is written *)
(* with one blocking send; the client may stop reading in the middle.      *)
(***************************************************************************)
EXTENDS KissCodec

CONSTANTS
  Alphabet,   \* bytes the client sends
  MaxChunk,   \* bytes of one recv
  PacketBytes, \* bytes of the packets that come out of reassembly
  MaxBody,    \* bound of the model: bytes received between two FEND
  MaxSent     \* bound of the model: packets sent on one connection

ASSUME AlphabetAssumption == Alphabet \subseteq Byte /\ PacketBytes \subseteq Byte
ASSUME BoundAssumption ==
  MaxChunk \in Nat \ {0} /\ MaxBody \in Nat \ {0} /\ MaxSent \in Nat

\* A packet fits the link's MTU, one less than a frame.
Packets == UNION {[1 .. n -> PacketBytes] : n \in 1 .. MaxFrame - 1}

VARIABLES
  mainPc,      \* where the main thread is
  attached,    \* packet_client is a descriptor
  client,      \* what the attached client did: open, shut, reset
  parser,
  byteIndex,   \* byte_index: bytes of the last recv parsed already
  packet,      \* the packet that is sent, if any
  unsent,      \* bytes of the send in progress
  stopRequested,
  body,        \* history: bytes since the last FEND of this connection
  synced,      \* history: there was a FEND
  offered,     \* history: frames acted upon in this turn of the loop
  meant,       \* history: what its bytes mean, by the reference
  seen,        \* history: bytes sent on this connection
  completed    \* history: packets whose send was whole, on this connection

connection == <<attached, client>>
uplink == <<parser, byteIndex, body, synced, offered, meant>>
downlink == <<packet, unsent, seen, completed>>
kissVars == <<mainPc, connection, uplink, downlink, stopRequested>>

KissInit ==
  /\ mainPc = "head"
  /\ attached = FALSE /\ client = "open"
  /\ parser = NewParser /\ byteIndex = 0
  /\ packet = << >> /\ unsent = << >>
  /\ stopRequested = FALSE
  /\ body = << >> /\ synced = FALSE
  /\ offered = << >> /\ meant = << >>
  /\ seen = << >> /\ completed = << >>

MainMoves(from, to) == mainPc = from /\ mainPc' = to

-----------------------------------------------------------------------------
(* The client and the operator. *)

Leave ==
  /\ attached /\ client = "open"
  /\ client' \in {"shut", "reset"}
  /\ UNCHANGED <<mainPc, attached, uplink, downlink, stopRequested>>

\* A signal outside of a blocked call is noticed at the loop's head.
Signal ==
  /\ ~stopRequested
  /\ mainPc \notin {"sending", "done"}
  /\ stopRequested' = TRUE
  /\ UNCHANGED <<mainPc, connection, uplink, downlink>>

-----------------------------------------------------------------------------
(* The main loop. *)

Stop ==
  /\ MainMoves("head", "done")
  /\ stopRequested
  /\ UNCHANGED <<connection, uplink, downlink, stopRequested>>

\* Mutant: a new client inherits the parser of the last one.
AcceptKeepsParser ==
  /\ MainMoves("head", "receive")
  /\ ~stopRequested /\ ~attached
  /\ attached' = TRUE /\ client' = "open"
  /\ body' = << >> /\ synced' = FALSE
  /\ offered' = << >> /\ meant' = << >>
  /\ seen' = << >> /\ completed' = << >>
  /\ UNCHANGED <<parser, byteIndex, packet, unsent, stopRequested>>

\* A client waits in the listen backlog; the parser starts afresh for it.
Accept ==
  /\ MainMoves("head", "receive")
  /\ ~stopRequested /\ ~attached
  /\ attached' = TRUE /\ client' = "open"
  /\ parser' = NewParser
  /\ body' = << >> /\ synced' = FALSE
  /\ offered' = << >> /\ meant' = << >>
  /\ seen' = << >> /\ completed' = << >>
  /\ UNCHANGED <<byteIndex, packet, unsent, stopRequested>>

\* No client, and none in the backlog.
NoAccept ==
  /\ MainMoves("head", "deliver")
  /\ ~stopRequested /\ ~attached
  /\ UNCHANGED <<connection, uplink, downlink, stopRequested>>

\* A frame of port 0 with data, or with one byte of a parameter.
IsData(frame) == frame[1] = "zero" /\ Len(frame) > 1
IsTxDelay(frame) == frame[1] = "one" /\ Len(frame) = 2
IsActedUpon(frame) == IsData(frame) \/ IsTxDelay(frame)

\* The turn of the loop that calls recv: the first after accept, or any later.
Receives(to) ==
  /\ \/ MainMoves("receive", to)
     \/ MainMoves("head", to) /\ ~stopRequested
  /\ attached

\* recv returned bytes, which the client sent before it closed.  A reset
\* discards what had not been read.
Receive ==
  /\ Receives("parse")
  /\ client # "reset"
  /\ UNCHANGED <<connection, uplink, downlink, stopRequested>>

\* One byte through the parser; a complete frame is submitted to the transmit
\* queue (TxRuntime!SubmitPacket) or sets its parameter (SetPersistence there).
\* It may be the last byte of what recv returned.
Parse ==
  /\ mainPc = "parse"
  /\ \E byte \in Alphabet :
       /\ byte # "FEND" => Len(body) < MaxBody
       /\ parser' = Push(parser, byte)
       /\ offered' = IF Completes(parser, byte) /\ IsActedUpon(parser.frame)
                       THEN Append(offered, parser.frame) ELSE offered
       /\ meant' = IF /\ byte = "FEND" /\ synced /\ IsFrame(body)
                      /\ IsActedUpon(Content(body))
                     THEN Append(meant, Content(body)) ELSE meant
       /\ body' = IF byte = "FEND" THEN << >> ELSE Append(body, byte)
       /\ synced' = (synced \/ byte = "FEND")
  /\ \/ /\ mainPc' = "parse"
        /\ byteIndex + 1 < MaxChunk /\ byteIndex' = byteIndex + 1
     \/ mainPc' = "deliver" /\ byteIndex' = 0
  /\ UNCHANGED <<connection, downlink, stopRequested>>

\* recv had nothing (or its one ECONNRESET).
ReceiveNothing ==
  /\ Receives("deliver")
  /\ client # "shut"
  /\ UNCHANGED <<connection, uplink, downlink, stopRequested>>

\* recv returned zero.
ReceiveEnd ==
  /\ Receives("deliver")
  /\ client # "open"
  /\ attached' = FALSE
  /\ UNCHANGED <<client, uplink, downlink, stopRequested>>

\* No packet came out of reassembly, or no more.
NoPacket ==
  /\ MainMoves("deliver", "head")
  /\ offered' = << >> /\ meant' = << >>
  /\ UNCHANGED <<connection, parser, byteIndex, body, synced, downlink,
                 stopRequested>>

\* Without a client a packet is dropped, which is NoPacket.
BeginSend ==
  /\ MainMoves("deliver", "sending")
  /\ attached
  /\ Len(completed) < MaxSent
  /\ packet' \in Packets /\ unsent' = Encode(packet')
  /\ UNCHANGED <<connection, uplink, seen, completed, stopRequested>>

\* The kernel takes one byte more; with the last one send returns.
SendByte ==
  /\ mainPc = "sending"
  /\ client # "reset"
  /\ seen' = Append(seen, Head(unsent))
  /\ unsent' = Tail(unsent)
  /\ IF unsent' # << >>
       THEN UNCHANGED <<mainPc, packet, completed>>
       ELSE /\ mainPc' = "deliver"
            /\ packet' = << >> /\ completed' = Append(completed, packet)
  /\ UNCHANGED <<connection, uplink, stopRequested>>

\* Mutant: what is left of a short send is forgotten, the client is kept.
AbandonKeepsClient ==
  /\ MainMoves("sending", "deliver")
  /\ packet' = << >> /\ unsent' = << >>
  /\ UNCHANGED <<connection, uplink, seen, completed>>

\* send returned short: the client is closed.
Abandon ==
  /\ MainMoves("sending", "deliver")
  /\ packet' = << >> /\ unsent' = << >>
  /\ attached' = FALSE
  /\ UNCHANGED <<client, uplink, seen, completed>>

SendFails ==
  /\ client # "open"
  /\ Abandon
  /\ UNCHANGED stopRequested

\* A signal interrupts the blocked send: the handler is set without restart.
SendInterrupted ==
  /\ ~stopRequested
  /\ Abandon
  /\ stopRequested' = TRUE

Main ==
  \/ Stop \/ Accept \/ NoAccept \/ Receive \/ Parse \/ ReceiveNothing
  \/ ReceiveEnd \/ NoPacket \/ BeginSend \/ SendFails

KissNext == Leave \/ Signal \/ Main \/ SendByte \/ SendInterrupted

\* The main thread runs; nothing makes the client read, leave or come.
KissSpec == KissInit /\ [][KissNext]_kissVars /\ WF_kissVars(Main)

-----------------------------------------------------------------------------
\* Type invariant; the frame buffer is never longer than declared.
KissTypeOK ==
  /\ mainPc \in {"head", "receive", "parse", "deliver", "sending", "done"}
  /\ {attached, stopRequested} \subseteq BOOLEAN
  /\ client \in {"open", "shut", "reset"}
  /\ parser.frame \in Seq(Byte) /\ Len(parser.frame) <= MaxFrame
  /\ byteIndex \in 0 .. MaxChunk - 1
  /\ packet \in Packets \union {<< >>}
  /\ unsent \in Seq(Byte) /\ (unsent # << >>) = (mainPc = "sending")
  /\ body \in Seq(Byte) /\ Len(body) <= MaxBody

\* docs/kiss-runtime.md: "TCP read boundaries have no significance": what was
\* submitted or set is what the bytes of this connection mean, read as one
\* stream, whatever was cut where and whatever the last client left behind.
FramesAreTheStream == offered = meant

\* The client reads back exactly the packets whose send was whole: a frame cut
\* short is the last thing on its connection.
ClientSeesWholePackets ==
  Frames(seen) = [k \in 1 .. Len(completed) |-> <<"zero">> \o completed[k]]

\* A stop gets through if there is no client, or if the client goes on reading
\* or leaves; a client that does neither holds the loop in send (a signal that
\* came before the send does not interrupt it).
ClientAttends == WF_kissVars(SendByte)
StopGetsThrough ==
  /\ (stopRequested /\ ~attached) ~> (mainPc = "done")
  /\ ClientAttends => (stopRequested ~> (mainPc = "done"))
=============================================================================
