------------------------------- MODULE XYModem ------------------------------
(***************************************************************************)
(* XMODEM and YMODEM transfers (crates/hapcli-modem-transfer/src/          *)
(* xymodem_transfer.rs): send_xmodem against receive_xmodem, or            *)
(* send_ymodem_stream against receive_ymodem, over a line that damages and *)
(* loses what it carries and may be slower than the ten seconds a side     *)
(* waits for the next byte.                                                *)
(*                                                                         *)
(* The line carries whole blocks and single bytes; a block that is not     *)
(* read in step (its marker was lost) is noise, read byte by byte.  A step *)
(* is one read and everything the code does up to the next read.           *)
(***************************************************************************)
EXTENDS Integers, Sequences

CONSTANTS
    Protocols,      \* "xmodem" and "ymodem"
    Files,          \* the number of blocks of each file; XMODEM sends the first
    Modulus,        \* numbers of blocks before they wrap: 256 for a u8
    Retries,        \* XYMODEM_RETRIES; YMODEM needs a second round for its second EOT
    MaxFaults       \* bound: disturbances in one behaviour

ASSUME XYModemAssumption ==
    /\ Protocols \subseteq {"xmodem", "ymodem"}
    /\ Files \in Seq(Nat) /\ Files # <<>>
    /\ Modulus \in Nat /\ Modulus > 2
    /\ Retries \in Nat \ {0, 1}
    /\ MaxFaults \in Nat

VARIABLES
    protocol,       \* which pair of functions runs
    sender,         \* the sending function: where it waits and its locals
    receiver,       \* the receiving function: where it waits and its locals
    line,           \* what is on its way to the receiver
    back,           \* the bytes on their way to the sender
    written,        \* the blocks given to each file's writer
    disturbed,      \* history: the kinds of disturbance that happened
    faults          \* history: how many there were

vars == <<protocol, sender, receiver, line, back, written, disturbed, faults>>

-----------------------------------------------------------------------------
(* Data *)

Final == {"ok", "failed"}

\* Where the sender waits: wait_for_xymodem_start, the send_xymodem_block of a
\* header, a data block or the empty header, expect_byte_or_cancel(WANT_CRC),
\* finish_xymodem_send.
Senders == [at : {"start", "header", "want", "data", "eot", "null"} \union Final,
            file : 1..(Len(Files) + 1), block : Nat, tries : 0..Retries,
            crc : BOOLEAN, can : BOOLEAN]

\* Where the receiver waits: for a header, in receive_xymodem_blocks, for the
\* second EOT.
Receivers == [at : {"begin", "header", "data", "eot"} \union Final, file : 0..Len(Files),
              expected : 0..(Modulus - 1), retries : 0..Retries, crc : BOOLEAN,
              can : BOOLEAN]

\* A block is good, or bad when its check or its number fails; the other frames
\* are bytes.  index is 0 for a header, file is 0 for the empty one.
Frames == [kind : {"good", "bad", "noise", "eot", "can"}, number : 0..(Modulus - 1),
           file : 0..Len(Files), index : Nat, crc : BOOLEAN]

Byte(kind) == [kind |-> kind, number |-> 0, file |-> 0, index |-> 0, crc |-> TRUE]

Replies == {"ACK", "NAK", "WANT_CRC", "CAN", "junk"}

Init ==
    /\ protocol \in Protocols
    /\ sender = [at |-> "start", file |-> 1, block |-> 0, tries |-> 0, crc |-> TRUE,
                 can |-> FALSE]
    /\ \E crc \in BOOLEAN :
          /\ protocol = "ymodem" => crc
          /\ receiver = [at |-> "begin", file |-> 0, expected |-> 1, retries |-> 0,
                         crc |-> crc, can |-> FALSE]
    /\ line = <<>>
    /\ back = <<>>
    /\ written = [f \in 1..Len(Files) |-> <<>>]
    /\ disturbed = {}
    /\ faults = 0

-----------------------------------------------------------------------------
(* The sender *)

\* Faulty BlockNumber: the number is reset to 1 where it wraps.
BlockNumberFromOne(s) == IF s.at = "data" THEN 1 + ((s.block - 1) % (Modulus - 1)) ELSE 0

\* Faulty BlockNumber: the number does not wrap.
BlockNumberUnwrapped(s) == IF s.at = "data" THEN s.block ELSE 0

\* The number a block carries: data blocks count from 1 and wrap.
BlockNumber(s) == IF s.at = "data" THEN s.block % Modulus ELSE 0

\* What the sender writes before it waits in s.
Frame(s) ==
    IF s.at = "eot" THEN Byte("eot")
    ELSE [kind |-> "good", number |-> BlockNumber(s),
          file |-> IF s.at = "null" THEN 0 ELSE s.file,
          index |-> IF s.at = "data" THEN s.block ELSE 0,
          crc |-> s.crc \/ protocol = "ymodem"]

\* The sender goes on to s, writing if s is in a loop that writes.
Send(s) ==
    /\ sender' = s
    /\ line' = IF s.at \in {"header", "data", "eot", "null"} THEN Append(line, Frame(s))
                                                            ELSE line

\* send_xymodem_blocks goes on to a block, or to finish_xymodem_send behind the last.
SendData(s, block) ==
    Send([s EXCEPT !.at = IF block > Files[s.file] THEN "eot" ELSE "data",
                   !.block = block, !.tries = 0])

\* Faulty NextTry: the loop of send_xymodem_block falls through to Ok when its rounds are
\* used up.
NextTryFallsThrough ==
    IF sender.tries + 1 < Retries THEN Send([sender EXCEPT !.tries = @ + 1, !.can = FALSE])
    ELSE IF sender.at = "data" THEN SendData(sender, sender.block + 1)
    ELSE Send([sender EXCEPT !.at = "failed"])

\* Faulty NextTry: the rounds are not counted.
NextTryUncounted == Send([sender EXCEPT !.can = FALSE])

\* The next round of the loop the sender is in, or Err(Timeout).
NextTry ==
    IF sender.tries + 1 = Retries
    THEN Send([sender EXCEPT !.at = "failed"])
    ELSE Send([sender EXCEPT !.tries = @ + 1, !.can = FALSE])

\* The sender reads the next byte.
SenderReads(reply) ==
    /\ sender.at \notin Final
    /\ back # <<>>
    /\ reply = Head(back)
    /\ back' = Tail(back)
    /\ UNCHANGED <<protocol, receiver, written, disturbed, faults>>

\* A first CAN: every wait then reads a second byte.
ReadCan ==
    /\ ~sender.can
    /\ SenderReads("CAN")
    /\ sender' = [sender EXCEPT !.can = TRUE]
    /\ UNCHANGED line

\* The byte after a CAN: Cancelled, or the round is lost.
ReadAfterCan ==
    /\ sender.can
    /\ \E reply \in Replies :
          /\ SenderReads(reply)
          /\ IF reply = "CAN" \/ sender.at = "want"
             THEN Send([sender EXCEPT !.at = "failed"])
             ELSE NextTry

\* wait_for_xymodem_start.  YMODEM does not look at which of the two bytes came.
WaitForStart ==
    /\ sender.at = "start"
    /\ ~sender.can
    /\ \E reply \in Replies \ {"CAN"} :
          /\ SenderReads(reply)
          /\ \/ /\ reply \in {"WANT_CRC", "NAK"}
                /\ IF protocol = "xmodem"
                   THEN SendData([sender EXCEPT !.crc = reply = "WANT_CRC"], 1)
                   ELSE Send([sender EXCEPT
                          !.at = IF sender.file > Len(Files) THEN "null" ELSE "header",
                          !.tries = 0])
             \/ /\ reply \notin {"WANT_CRC", "NAK"}
                /\ NextTry

\* What follows the ACK of a block.
Acknowledged ==
    CASE sender.at = "header" -> Send([sender EXCEPT !.at = "want"])
      [] sender.at = "data"   -> SendData(sender, sender.block + 1)
      [] sender.at = "null"   -> Send([sender EXCEPT !.at = "ok"])

\* send_xymodem_block.
SendBlock ==
    /\ sender.at \in {"header", "data", "null"}
    /\ ~sender.can
    /\ \E reply \in Replies \ {"CAN"} :
          /\ SenderReads(reply)
          /\ CASE reply = "ACK"                 -> Acknowledged
               [] reply \in {"NAK", "WANT_CRC"} -> NextTry
               [] OTHER                         -> Send([sender EXCEPT !.at = "failed"])

\* expect_byte_or_cancel(WANT_CRC) between header and data.
ExpectWantCrc ==
    /\ sender.at = "want"
    /\ ~sender.can
    /\ \E reply \in Replies \ {"CAN"} :
          /\ SenderReads(reply)
          /\ IF reply = "WANT_CRC" THEN SendData(sender, 1)
                                   ELSE Send([sender EXCEPT !.at = "failed"])

\* finish_xymodem_send, and the next file of a batch.
FinishSend ==
    /\ sender.at = "eot"
    /\ ~sender.can
    /\ \E reply \in Replies \ {"CAN"} :
          /\ SenderReads(reply)
          /\ CASE reply = "ACK" /\ protocol = "xmodem" -> Send([sender EXCEPT !.at = "ok"])
               [] reply = "ACK" /\ protocol = "ymodem" ->
                     Send([sender EXCEPT !.at = "start", !.file = @ + 1, !.tries = 0])
               [] reply = "NAK"                        -> NextTry
               [] OTHER                                -> Send([sender EXCEPT !.at = "failed"])

-----------------------------------------------------------------------------
(* The receiver *)

\* The receiver goes on to r after writing some bytes.
Reply(r, bytes) ==
    /\ receiver' = r
    /\ back' = back \o bytes

\* receive_xmodem and receive_ymodem ask for the first block.
Begin ==
    /\ receiver.at = "begin"
    /\ Reply([receiver EXCEPT !.at = IF protocol = "xmodem" THEN "data" ELSE "header",
                              !.file = IF protocol = "xmodem" THEN 1 ELSE 0],
             <<IF receiver.crc THEN "WANT_CRC" ELSE "NAK">>)
    /\ UNCHANGED <<protocol, sender, line, written, disturbed, faults>>

\* What a read may find in a frame.  Noise is read byte by byte, and a byte of it may
\* look like an EOT or a CAN; a block in the other check mode is as good as damaged.
Seen(frame) ==
    CASE frame.kind = "noise" -> {"noise", "eot", "can"}
      [] frame.kind = "good"  -> {IF frame.crc = receiver.crc THEN "good" ELSE "bad"}
      [] OTHER                -> {frame.kind}

\* The receiver reads the frame at the head of the line; noise may go on.
ReceiverReads ==
    /\ line # <<>>
    /\ line' \in IF Head(line).kind = "noise" THEN {line, Tail(line)} ELSE {Tail(line)}
    /\ UNCHANGED <<protocol, sender, disturbed, faults>>

\* parse_block0_payload.  A block whose number has wrapped to 0 holds data: its bytes
\* may pass for no header, for the empty one or for one of a file nobody sent (file 0).
ParseHeader(frame) ==
    \/ /\ frame.index # 0
       /\ Reply([receiver EXCEPT !.at = "failed"], <<"ACK">>)
    \/ /\ frame.index # 0 \/ frame.file = 0
       /\ Reply([receiver EXCEPT !.at = "ok"], <<"ACK">>)
    \/ /\ frame.index # 0 \/ frame.file # 0
       /\ Reply([receiver EXCEPT !.at = "data", !.expected = 1, !.retries = 0,
                                 !.file = IF frame.index = 0 THEN frame.file ELSE 0],
                <<"ACK", "WANT_CRC">>)

\* read_xymodem_block in receive_ymodem: any error ends the transfer.
ReadHeader ==
    /\ receiver.at = "header"
    /\ ReceiverReads
    /\ \E kind \in Seen(Head(line)) :
          CASE kind # "good" -> Reply([receiver EXCEPT !.at = "failed"], <<>>)
            [] kind = "good" /\ Head(line).number # 0 ->
                  Reply(receiver, <<"NAK", "WANT_CRC">>)
            [] OTHER -> ParseHeader(Head(line))
    /\ UNCHANGED written

\* An error of read_xymodem_packet: NAK, until the retries are used up.
ReadError ==
    IF receiver.retries < Retries
    THEN Reply([receiver EXCEPT !.retries = @ + 1, !.can = FALSE], <<"NAK">>)
    ELSE Reply([receiver EXCEPT !.at = "failed"], <<>>)

\* Faulty Store: a repeated block is stored again.
StoreRepeated(frame) ==
    IF frame.number \in {receiver.expected, (receiver.expected - 1) % Modulus}
    THEN /\ written' = [written EXCEPT ![receiver.file] = Append(@, <<frame.file, frame.index>>)]
         /\ Reply([receiver EXCEPT !.expected = (frame.number + 1) % Modulus, !.retries = 0],
                  <<"ACK">>)
    ELSE /\ Reply([receiver EXCEPT !.retries = 0], <<"NAK">>)
         /\ UNCHANGED written

\* A whole block: the expected one is written, as far as the declared size of a
\* YMODEM file allows, the one before it is acknowledged again, others are refused.
Store(frame) ==
    IF frame.number = receiver.expected
    THEN /\ written' = IF \/ receiver.file = 0
                          \/ /\ protocol = "ymodem"
                             /\ Len(written[receiver.file]) >= Files[receiver.file]
                       THEN written
                       ELSE [written EXCEPT ![receiver.file] =
                               Append(@, <<frame.file, frame.index>>)]
         /\ Reply([receiver EXCEPT !.expected = (@ + 1) % Modulus, !.retries = 0], <<"ACK">>)
    ELSE /\ Reply([receiver EXCEPT !.retries = 0],
                  <<IF frame.number = (receiver.expected - 1) % Modulus
                    THEN "ACK" ELSE "NAK">>)
         /\ UNCHANGED written

\* An EOT between blocks: XMODEM is done, YMODEM asks for a second one.
EndOfFile ==
    IF protocol = "xmodem" THEN Reply([receiver EXCEPT !.at = "ok"], <<"ACK">>)
                           ELSE Reply([receiver EXCEPT !.at = "eot"], <<"NAK">>)

\* One round of receive_xymodem_blocks.
ReadPacket ==
    /\ receiver.at = "data"
    /\ ~receiver.can
    /\ ReceiverReads
    /\ \E kind \in Seen(Head(line)) :
          CASE kind = "good" -> Store(Head(line))
            [] kind = "eot"  -> EndOfFile /\ UNCHANGED written
            [] kind = "can"  -> Reply([receiver EXCEPT !.can = TRUE], <<>>) /\ UNCHANGED written
            [] OTHER         -> ReadError /\ UNCHANGED written

\* What the byte after a CAN leaves of the frame it was taken from.
AfterMarker == IF Head(line).kind \in {"good", "bad", "noise"}
               THEN {Tail(line), <<Byte("noise")>> \o Tail(line)} ELSE {Tail(line)}

\* The byte after a CAN: Cancelled, or an error like any other.
ReadAfterFirstCan ==
    /\ receiver.at \in {"data", "eot"}
    /\ receiver.can
    /\ line # <<>>
    /\ line' \in AfterMarker
    /\ \/ /\ Head(line).kind \in {"can", "noise"} \/ receiver.at = "eot"
          /\ Reply([receiver EXCEPT !.at = "failed"], <<>>)
       \/ /\ Head(line).kind # "can" /\ receiver.at = "data"
          /\ ReadError
    /\ UNCHANGED <<protocol, sender, written, disturbed, faults>>

\* Fewer bytes came than the header declared; what it declares of file 0 is not known.
Short == IF receiver.file = 0 THEN BOOLEAN
         ELSE {Len(written[receiver.file]) < Files[receiver.file]}

\* expect_byte_or_cancel(EOT); then the size is compared with the declared one, and
\* the next header asked for.
ReadSecondEot ==
    /\ receiver.at = "eot"
    /\ ~receiver.can
    /\ ReceiverReads
    /\ \E kind \in Seen(Head(line)), short \in Short :
          CASE kind = "eot" /\ short ->
                  Reply([receiver EXCEPT !.at = "failed"], <<"ACK">>)
            [] kind = "eot" /\ ~short ->
                  Reply([receiver EXCEPT !.at = "header"], <<"ACK", "WANT_CRC">>)
            [] kind = "can" -> Reply([receiver EXCEPT !.can = TRUE], <<>>)
            [] OTHER        -> Reply([receiver EXCEPT !.at = "failed"], <<>>)
    /\ UNCHANGED written

-----------------------------------------------------------------------------
(* Timeouts, cancellation and the line *)

\* Something happened that the bound counts.
Disturb(kind) ==
    /\ faults < MaxFaults
    /\ faults' = faults + 1
    /\ disturbed' = disturbed \union {kind}

\* A timeout is due when nothing is on its way and the other side waits too or has
\* returned; any other is a disturbance: the line was slower than XYMODEM_TIMEOUT.
TimeoutIn(silent) ==
    IF silent THEN UNCHANGED <<faults, disturbed>> ELSE Disturb("late")

\* read_byte returns Timeout: the sender gives up wherever it waits.
SenderTimeout ==
    /\ sender.at \notin Final
    /\ TimeoutIn(back = <<>> /\ (receiver.at \in Final \/ (line = <<>> /\ receiver.at # "begin")))
    /\ sender' = [sender EXCEPT !.at = "failed"]
    /\ UNCHANGED <<protocol, receiver, line, back, written>>

\* The receiver asks again, but only inside a file.
ReceiverTimeout ==
    /\ receiver.at \notin Final \union {"begin"}
    /\ TimeoutIn(line = <<>> /\ (sender.at \in Final \/ back = <<>>))
    /\ IF receiver.at = "data" THEN ReadError
                               ELSE Reply([receiver EXCEPT !.at = "failed"], <<>>)
    /\ UNCHANGED <<protocol, sender, line, written>>

\* ModemTransfer::stop: the next read or write returns Cancelled, what has not left
\* yet is replaced by CAN bytes.
StopSender ==
    /\ sender.at \notin Final
    /\ Disturb("stop")
    /\ sender' = [sender EXCEPT !.at = "failed"]
    /\ \E n \in 0..Len(line) :
          line' = SubSeq(line, 1, n) \o <<Byte("can"), Byte("can")>>
    /\ UNCHANGED <<protocol, receiver, back, written>>

StopReceiver ==
    /\ receiver.at \notin Final
    /\ Disturb("stop")
    /\ receiver' = [receiver EXCEPT !.at = "failed"]
    /\ \E n \in 0..Len(back) : back' = SubSeq(back, 1, n) \o <<"CAN", "CAN">>
    /\ UNCHANGED <<protocol, sender, line, written>>

\* A local error (reader, writer, a file that changed its size, a refused name)
\* returns without a word to the peer.
SenderError ==
    /\ sender.at \notin Final
    /\ Disturb("error")
    /\ sender' = [sender EXCEPT !.at = "failed"]
    /\ UNCHANGED <<protocol, receiver, line, back, written>>

ReceiverError ==
    /\ receiver.at \notin Final
    /\ Disturb("error")
    /\ receiver' = [receiver EXCEPT !.at = "failed"]
    /\ UNCHANGED <<protocol, sender, line, back, written>>

\* The line damages the inside of a block, or loses its marker.
DamageBlock ==
    /\ line # <<>> /\ Head(line).kind = "good"
    /\ \E kind \in {"bad", "noise"} :
          /\ line' = <<[Head(line) EXCEPT !.kind = kind]>> \o Tail(line)
          /\ Disturb(IF kind = "noise" THEN "noise"
                     ELSE IF Head(line).index = 0 THEN "header" ELSE "damage")
    /\ UNCHANGED <<protocol, sender, receiver, back, written>>

\* The line loses a whole frame, or a reply, or makes a reply unreadable.
LoseFrame ==
    /\ line # <<>>
    /\ Disturb("loss")
    /\ line' = Tail(line)
    /\ UNCHANGED <<protocol, sender, receiver, back, written>>

LoseReply ==
    /\ back # <<>>
    /\ Disturb("loss")
    /\ back' = Tail(back)
    /\ UNCHANGED <<protocol, sender, receiver, line, written>>

DamageReply ==
    /\ back # <<>> /\ Head(back) \in {"ACK", "NAK", "WANT_CRC"}
    /\ Disturb("loss")
    /\ \E byte \in {"junk", "CAN"} : back' = <<byte>> \o Tail(back)
    /\ UNCHANGED <<protocol, sender, receiver, line, written>>

-----------------------------------------------------------------------------
SenderStep == ReadCan \/ ReadAfterCan \/ WaitForStart \/ SendBlock \/ ExpectWantCrc
              \/ FinishSend \/ SenderTimeout

ReceiverStep == Begin \/ ReadHeader \/ ReadPacket \/ ReadAfterFirstCan \/ ReadSecondEot
                \/ ReceiverTimeout

Disturbance == StopSender \/ StopReceiver \/ SenderError \/ ReceiverError \/ DamageBlock
               \/ LoseFrame \/ LoseReply \/ DamageReply

Next == SenderStep \/ ReceiverStep \/ Disturbance

Spec == Init /\ [][Next]_vars

\* A thread inside one of the functions keeps running and its reads end, with a byte
\* or a timeout.  The line is not obliged to do anything.
FairSpec == Spec /\ WF_vars(SenderStep) /\ WF_vars(ReceiverStep)

-----------------------------------------------------------------------------
(* Properties *)

\* Types of all variables; the counters stay within the code's bounds.
TypeOK ==
    /\ protocol \in Protocols
    /\ sender \in Senders
    /\ receiver \in Receivers
    /\ line \in Seq(Frames)
    /\ back \in Seq(Replies)
    /\ written \in [1..Len(Files) -> Seq((0..Len(Files)) \X Nat)]
    /\ disturbed \subseteq {"late", "stop", "error", "damage", "header", "noise", "loss"}
    /\ faults \in 0..MaxFaults

\* Nothing made the two sides lose step: no answer came after its timeout, and no
\* block was read as noise.
InStep == disturbed \intersect {"late", "noise"} = {}

\* The most blocks and replies that disturbances can add to the one under way: a block
\* read as noise is refused again and again until the receiver's retries are used up.
Surplus == IF "noise" \in disturbed THEN (Retries + 1) * faults ELSE faults

\* A file's writer is given that file's blocks, from the first on, in order and each
\* once, whatever the line repeats, loses or damages and although block numbers wrap
\* (receive_xymodem_blocks, expected and expected - 1).  XMODEM keeps this when the
\* sides have lost step too, until the sender may be ahead by all block numbers.
\* YMODEM then does not: the header of the next file has number 0 and may be taken for
\* the 256th block.
WrittenInOrder ==
    InStep \/ (protocol = "xmodem" /\ Surplus + 1 < Modulus)
    => \A f \in 1..Len(Files) : written[f] = [i \in 1..Len(written[f]) |-> <<f, i>>]

\* The blocks of every file that this protocol sends were written.
Complete ==
    \A f \in 1..(IF protocol = "xmodem" THEN 1 ELSE Len(Files)) :
        Len(written[f]) = Files[f]

\* A side that returns Ok has moved everything, as long as the sides stay in step.
\* Otherwise receive_xmodem may take noise for the end of the file, and receive_ymodem
\* a data block for the end of the batch.
OkMeansComplete == InStep /\ "ok" \in {sender.at, receiver.at} => Complete

\* Damaged data blocks, fewer than the retries, are repaired: both sides return Ok.
DamageIsRepaired ==
    /\ sender.at \in Final /\ receiver.at \in Final
    /\ disturbed \subseteq {"damage"}
    /\ faults < Retries
    => sender.at = "ok" /\ receiver.at = "ok"

\* Run against each other, both functions return, whatever the line does: every read
\* has a timeout and the sender counts its rounds.  The receiver's loops over a wrong
\* header number and over valid blocks count nothing; they end because this sender
\* gives up, and a peer that repeats an old block for ever would keep them going.
Termination == <>(sender.at \in Final /\ receiver.at \in Final)

=============================================================================
