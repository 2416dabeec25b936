--------------------------- MODULE XYModemProofs ----------------------------
(***************************************************************************)
(* Theorems about XYModem for any number of files and blocks, any modulus  *)
(* of the block numbers, any number of retries and any disturbances.       *)
(***************************************************************************)
EXTENDS XYModem, SequenceTheorems, TLAPS

-----------------------------------------------------------------------------
(* Types *)

FileSet == 1..Len(Files)

Live(side) == side.at \notin Final

\* Where the sender may wait: on a file while it sends one, in XMODEM on the first and
\* only in the loops of XMODEM, and inside a loop with rounds left.
PlacedSender(s) ==
    /\ s \in Senders
    /\ s.at \in {"header", "want", "data", "eot"} => s.file <= Len(Files)
    /\ protocol = "xmodem" => s.file = 1 /\ s.at \notin {"header", "want", "null"}
    /\ Live(s) => s.tries < Retries

\* Where the receiver may wait: receive_xmodem on its one file and never for a header or
\* a second EOT; receive_ymodem always checks a CRC.
PlacedReceiver(r) ==
    /\ r \in Receivers
    /\ protocol = "xmodem" => r.at \notin {"header", "eot"} /\ (r.at = "data" => r.file = 1)
    /\ protocol = "ymodem" => r.crc

\* The first part of the invariant: types.
Typed == TypeOK /\ PlacedSender(sender) /\ PlacedReceiver(receiver)

\* Constants are of the kinds the assumption gives them.
LEMMA ConstantFacts ==
  /\ Len(Files) \in Nat /\ Len(Files) > 0 /\ 1 \in FileSet
  /\ \A f \in FileSet : Files[f] \in Nat
  /\ Modulus \in Nat /\ Modulus > 2 /\ Retries \in Nat /\ Retries > 1 /\ MaxFaults \in Nat
BY XYModemAssumption DEF FileSet

\* A block number is one of the modulus.
LEMMA NumberFits == \A n \in Nat : n % Modulus \in 0..(Modulus - 1)
BY ConstantFacts

\* A byte is a frame.
LEMMA ByteIsFrame == \A kind \in {"noise", "eot", "can"} : Byte(kind) \in Frames
BY ConstantFacts DEF Byte, Frames

\* What the sender writes in a loop that writes is a frame.
LEMMA FrameTyped ==
  ASSUME NEW s, PlacedSender(s), s.at \in {"header", "data", "eot", "null"}
  PROVE  Frame(s) \in Frames
<1>1. s.block \in Nat /\ s.file \in 1..(Len(Files) + 1) /\ s.crc \in BOOLEAN
  BY DEF PlacedSender, Senders
<1>2. BlockNumber(s) \in 0..(Modulus - 1)
  <2>1. s.block % Modulus \in 0..(Modulus - 1)
    BY <1>1, NumberFits
  <2>2. 0 \in 0..(Modulus - 1)
    BY ConstantFacts
  <2> QED
    BY <2>1, <2>2, Zenon DEF BlockNumber
<1>3. (IF s.at = "null" THEN 0 ELSE s.file) \in 0..Len(Files) \/ s.at = "eot"
  BY <1>1, ConstantFacts DEF PlacedSender
<1>4. (IF s.at = "data" THEN s.block ELSE 0) \in Nat
  BY <1>1
<1>5. (s.crc \/ protocol = "ymodem") \in BOOLEAN
  BY Zenon
<1>6. CASE s.at = "eot"
  BY <1>6, ByteIsFrame DEF Frame
<1>7. CASE s.at # "eot"
  BY <1>2, <1>3, <1>4, <1>5, <1>7 DEF Frame, Frames
<1> QED
  BY <1>6, <1>7

\* The sender goes on to a place.
LEMMA SendTyped ==
  ASSUME Typed, NEW s, PlacedSender(s), Send(s), UNCHANGED protocol
  PROVE  PlacedSender(sender)' /\ line' \in Seq(Frames)
<1>1. line \in Seq(Frames)
  BY DEF Typed, TypeOK
<1>2. PlacedSender(sender)'
  BY DEF Send, PlacedSender, Live
<1>3. CASE s.at \in {"header", "data", "eot", "null"}
  <2>1. Frame(s) \in Frames /\ line' = Append(line, Frame(s))
    BY <1>3, FrameTyped DEF Send
  <2> QED
    BY <1>1, <1>2, <2>1
<1>4. CASE s.at \notin {"header", "data", "eot", "null"}
  BY <1>1, <1>2, <1>4 DEF Send
<1> QED
  BY <1>3, <1>4

\* The next round, or none.
LEMMA NextTryTyped ==
  ASSUME Typed, Live(sender), NextTry, UNCHANGED protocol
  PROVE  PlacedSender(sender)' /\ line' \in Seq(Frames)
<1>1. CASE sender.tries + 1 = Retries
  <2>1. PlacedSender([sender EXCEPT !.at = "failed"])
    BY DEF Typed, PlacedSender, Senders, Live, Final
  <2> QED
    BY <1>1, <2>1, SendTyped DEF NextTry
<1>2. CASE sender.tries + 1 # Retries
  <2>1. sender.tries + 1 \in 0..Retries /\ sender.tries + 1 < Retries
    BY <1>2, ConstantFacts DEF Typed, PlacedSender, Senders
  <2>2. [sender EXCEPT !.tries = @ + 1, !.can = FALSE] \in Senders
    BY <2>1 DEF Typed, PlacedSender, Senders
  <2>3. PlacedSender([sender EXCEPT !.tries = @ + 1, !.can = FALSE])
    BY <2>1, <2>2 DEF Typed, PlacedSender, Senders, Live
  <2> QED
    BY <1>2, <2>3, SendTyped DEF NextTry
<1> QED
  BY <1>1, <1>2

\* A data block, or the end of the file.
LEMMA SendDataTyped ==
  ASSUME Typed, NEW s, PlacedSender(s), s.file <= Len(Files), NEW block \in Nat,
         SendData(s, block), UNCHANGED protocol
  PROVE  PlacedSender(sender)' /\ line' \in Seq(Frames)
<1>p. PICK place \in {"eot", "data"} :
        place = IF block > Files[s.file] THEN "eot" ELSE "data"
  OBVIOUS
<1>n. PICK new : new = [s EXCEPT !.at = place, !.block = block, !.tries = 0]
  OBVIOUS
<1>s. s \in Senders /\ 0 \in 0..Retries
  BY ConstantFacts DEF PlacedSender
<1>1. new \in Senders /\ new.at = place /\ new.file = s.file /\ new.tries = 0
  BY <1>n, <1>s DEF Senders
<1>2. PlacedSender(new)
  BY <1>1, ConstantFacts DEF PlacedSender, Live, Final
<1> QED
  BY <1>p, <1>n, <1>2, SendTyped DEF SendData

\* The sender gives up.
LEMMA SendFailedTyped ==
  ASSUME Typed, Send([sender EXCEPT !.at = "failed"]), UNCHANGED protocol
  PROVE  PlacedSender(sender)' /\ line' \in Seq(Frames)
<1>1. PlacedSender([sender EXCEPT !.at = "failed"])
  BY DEF Typed, PlacedSender, Senders, Live, Final
<1> QED
  BY <1>1, SendTyped

\* Reading takes a reply.
LEMMA SenderReadsTyped ==
  ASSUME Typed, NEW reply, SenderReads(reply)
  PROVE  /\ reply \in Replies /\ back' \in Seq(Replies) /\ Live(sender)
         /\ UNCHANGED <<protocol, receiver, written, disturbed, faults>>
<1>1. back \in Seq(Replies)
  BY DEF Typed, TypeOK
<1> QED
  BY <1>1, HeadTailProperties DEF SenderReads, Live

\* What every step of the sender that reads a reply leaves typed.
LEMMA SenderTyped ==
  ASSUME Typed, PlacedSender(sender)', line' \in Seq(Frames), back' \in Seq(Replies),
         UNCHANGED <<protocol, receiver, written, disturbed, faults>>
  PROVE  Typed'
BY DEF Typed, TypeOK, PlacedSender, PlacedReceiver, Live

\* ReadCan keeps the types.
LEMMA ReadCanTyped == Typed /\ ReadCan => Typed'
<1> SUFFICES ASSUME Typed, ReadCan PROVE Typed'
  OBVIOUS
<1>1. PlacedSender(sender)'
  BY DEF Typed, ReadCan, SenderReads, PlacedSender, Senders, Live
<1>2. back' \in Seq(Replies) /\ UNCHANGED <<protocol, receiver, written, disturbed, faults>>
  BY SenderReadsTyped DEF ReadCan
<1>3. line' \in Seq(Frames)
  BY DEF ReadCan, Typed, TypeOK
<1> QED
  BY <1>1, <1>2, <1>3, SenderTyped

\* ReadAfterCan keeps the types.
LEMMA ReadAfterCanTyped == Typed /\ ReadAfterCan => Typed'
<1> SUFFICES ASSUME Typed, ReadAfterCan PROVE Typed'
  OBVIOUS
<1>1. PICK reply \in Replies :
        /\ SenderReads(reply)
        /\ NextTry \/ Send([sender EXCEPT !.at = "failed"])
  BY DEF ReadAfterCan
<1>2. /\ back' \in Seq(Replies) /\ Live(sender)
      /\ UNCHANGED <<protocol, receiver, written, disturbed, faults>>
  BY <1>1, SenderReadsTyped
<1>3. PlacedSender(sender)' /\ line' \in Seq(Frames)
  BY <1>1, <1>2, NextTryTyped, SendFailedTyped
<1> QED
  BY <1>2, <1>3, SenderTyped

\* WaitForStart keeps the types.
LEMMA WaitForStartTyped == Typed /\ WaitForStart => Typed'
<1> SUFFICES ASSUME Typed, WaitForStart PROVE Typed'
  OBVIOUS
<1>1. PICK reply \in Replies \ {"CAN"} :
        /\ SenderReads(reply)
        /\ \/ /\ reply \in {"WANT_CRC", "NAK"}
              /\ IF protocol = "xmodem"
                 THEN SendData([sender EXCEPT !.crc = reply = "WANT_CRC"], 1)
                 ELSE Send([sender EXCEPT
                        !.at = IF sender.file > Len(Files) THEN "null" ELSE "header",
                        !.tries = 0])
           \/ NextTry
  BY DEF WaitForStart
<1>2. /\ back' \in Seq(Replies) /\ Live(sender)
      /\ UNCHANGED <<protocol, receiver, written, disturbed, faults>>
  BY <1>1, SenderReadsTyped
<1>3. sender.at = "start" /\ sender \in Senders /\ protocol \in {"xmodem", "ymodem"}
  BY XYModemAssumption DEF WaitForStart, Typed, PlacedSender, TypeOK
<1>4. CASE NextTry
  BY <1>2, <1>4, NextTryTyped, SenderTyped
<1>5. CASE protocol = "xmodem" /\ SendData([sender EXCEPT !.crc = reply = "WANT_CRC"], 1)
  <2>c. PICK crc \in BOOLEAN : crc = (reply = "WANT_CRC")
    OBVIOUS
  <2>n. PICK new : new = [sender EXCEPT !.crc = crc]
    OBVIOUS
  <2>1. new \in Senders /\ new.at = sender.at /\ new.file = sender.file /\ new.tries = sender.tries
    BY <1>3, <2>n DEF Senders
  <2>2. PlacedSender(new) /\ new.file <= Len(Files)
    BY <1>5, <2>1, ConstantFacts DEF Typed, PlacedSender, Live
  <2>3. SendData(new, 1)
    BY <1>5, <2>c, <2>n
  <2> QED
    BY <1>2, <2>2, <2>3, SendDataTyped, SenderTyped
<1>6. CASE protocol = "ymodem" /\ Send([sender EXCEPT
                        !.at = IF sender.file > Len(Files) THEN "null" ELSE "header",
                        !.tries = 0])
  <2>p. PICK place \in {"null", "header"} :
          place = IF sender.file > Len(Files) THEN "null" ELSE "header"
    OBVIOUS
  <2>n. PICK new : new = [sender EXCEPT !.at = place, !.tries = 0]
    OBVIOUS
  <2>z. 0 \in 0..Retries
    BY ConstantFacts
  <2>1. new \in Senders /\ new.at = place /\ new.file = sender.file /\ new.tries = 0
    BY <1>3, <2>n, <2>z DEF Senders
  <2>2. PlacedSender(new)
    BY <1>3, <1>6, <2>p, <2>1, ConstantFacts DEF PlacedSender, Senders, Live, Final
  <2> QED
    BY <1>2, <1>6, <2>p, <2>n, <2>2, SendTyped, SenderTyped
<1> QED
  BY <1>1, <1>3, <1>4, <1>5, <1>6

\* SendBlock keeps the types.
LEMMA SendBlockTyped == Typed /\ SendBlock => Typed'
<1> SUFFICES ASSUME Typed, SendBlock PROVE Typed'
  OBVIOUS
<1>1. PICK reply \in Replies \ {"CAN"} :
        /\ SenderReads(reply)
        /\ Acknowledged \/ NextTry \/ Send([sender EXCEPT !.at = "failed"])
  BY DEF SendBlock
<1>2. /\ back' \in Seq(Replies) /\ Live(sender)
      /\ UNCHANGED <<protocol, receiver, written, disturbed, faults>>
  BY <1>1, SenderReadsTyped
<1>3. CASE Acknowledged
  <2>1. CASE sender.at = "header"
    <3>1. PlacedSender([sender EXCEPT !.at = "want"])
      BY <2>1 DEF Typed, PlacedSender, Senders, Live, Final
    <3> QED
      BY <1>2, <1>3, <2>1, <3>1, SendTyped, SenderTyped DEF Acknowledged
  <2>2. CASE sender.at = "data"
    <3>1. /\ PlacedSender(sender) /\ sender.file <= Len(Files) /\ sender.block + 1 \in Nat
          /\ SendData(sender, sender.block + 1)
      BY <1>3, <2>2 DEF Acknowledged, Typed, PlacedSender, Senders
    <3> QED
      BY <1>2, <3>1, SendDataTyped, SenderTyped
  <2>3. CASE sender.at = "null"
    <3>1. PlacedSender([sender EXCEPT !.at = "ok"])
      BY <2>3 DEF Typed, PlacedSender, Senders, Live, Final
    <3> QED
      BY <1>2, <1>3, <2>3, <3>1, SendTyped, SenderTyped DEF Acknowledged
  <2> QED
    BY <2>1, <2>2, <2>3 DEF SendBlock
<1>4. CASE NextTry \/ Send([sender EXCEPT !.at = "failed"])
  BY <1>2, <1>4, NextTryTyped, SendFailedTyped, SenderTyped
<1> QED
  BY <1>1, <1>3, <1>4

\* ExpectWantCrc keeps the types.
LEMMA ExpectWantCrcTyped == Typed /\ ExpectWantCrc => Typed'
<1> SUFFICES ASSUME Typed, ExpectWantCrc PROVE Typed'
  OBVIOUS
<1>1. PICK reply \in Replies \ {"CAN"} :
        /\ SenderReads(reply)
        /\ SendData(sender, 1) \/ Send([sender EXCEPT !.at = "failed"])
  BY DEF ExpectWantCrc
<1>2. /\ back' \in Seq(Replies) /\ Live(sender)
      /\ UNCHANGED <<protocol, receiver, written, disturbed, faults>>
  BY <1>1, SenderReadsTyped
<1>3. PlacedSender(sender) /\ sender.file <= Len(Files)
  BY DEF ExpectWantCrc, Typed, PlacedSender
<1> QED
  BY <1>1, <1>2, <1>3, SendDataTyped, SendFailedTyped, SenderTyped

\* FinishSend keeps the types.
LEMMA FinishSendTyped == Typed /\ FinishSend => Typed'
<1> SUFFICES ASSUME Typed, FinishSend PROVE Typed'
  OBVIOUS
<1>1. PICK reply \in Replies \ {"CAN"} :
        /\ SenderReads(reply)
        /\ \/ protocol = "xmodem" /\ Send([sender EXCEPT !.at = "ok"])
           \/ /\ protocol = "ymodem"
              /\ Send([sender EXCEPT !.at = "start", !.file = @ + 1, !.tries = 0])
           \/ NextTry
           \/ Send([sender EXCEPT !.at = "failed"])
  BY DEF FinishSend
<1>2. /\ back' \in Seq(Replies) /\ Live(sender)
      /\ UNCHANGED <<protocol, receiver, written, disturbed, faults>>
  BY <1>1, SenderReadsTyped
<1>3. CASE protocol = "xmodem" /\ Send([sender EXCEPT !.at = "ok"])
  <2>1. PlacedSender([sender EXCEPT !.at = "ok"])
    BY DEF Typed, PlacedSender, Senders, Live, Final
  <2> QED
    BY <1>2, <1>3, <2>1, SendTyped, SenderTyped
<1>4. CASE /\ protocol = "ymodem"
           /\ Send([sender EXCEPT !.at = "start", !.file = @ + 1, !.tries = 0])
  <2>n. PICK new : new = [sender EXCEPT !.at = "start", !.file = @ + 1, !.tries = 0]
    OBVIOUS
  <2>f. /\ sender \in Senders /\ 0 \in 0..Retries
        /\ sender.file + 1 \in 1..(Len(Files) + 1)
    BY ConstantFacts DEF FinishSend, Typed, PlacedSender, Senders
  <2>1. new \in Senders /\ new.at = "start" /\ new.tries = 0
    BY <2>n, <2>f DEF Senders
  <2>2. PlacedSender(new)
    BY <1>4, <2>1, ConstantFacts DEF PlacedSender, Live, Final
  <2> QED
    BY <1>2, <1>4, <2>n, <2>2, SendTyped, SenderTyped
<1>5. CASE NextTry \/ Send([sender EXCEPT !.at = "failed"])
  BY <1>2, <1>5, NextTryTyped, SendFailedTyped, SenderTyped
<1> QED
  BY <1>1, <1>3, <1>4, <1>5

\* The receiver goes on to a place.
LEMMA ReplyTyped ==
  ASSUME Typed, NEW r, PlacedReceiver(r), NEW bytes \in Seq(Replies), Reply(r, bytes),
         UNCHANGED protocol
  PROVE  PlacedReceiver(receiver)' /\ back' \in Seq(Replies)
<1>1. back \in Seq(Replies)
  BY DEF Typed, TypeOK
<1>2. back' \in Seq(Replies)
  BY <1>1, ConcatProperties DEF Reply
<1> QED
  BY <1>2 DEF Reply, PlacedReceiver

\* What the receiver writes are replies.
LEMMA RepliesTyped ==
  /\ <<>> \in Seq(Replies)
  /\ \A a \in Replies : <<a>> \in Seq(Replies)
  /\ \A a, b \in Replies : <<a, b>> \in Seq(Replies)
  /\ {"ACK", "NAK", "WANT_CRC"} \subseteq Replies
BY DEF Replies

\* The receiver gives up, with or without a reply.
LEMMA ReplyFailedTyped ==
  ASSUME Typed, NEW bytes \in Seq(Replies), Reply([receiver EXCEPT !.at = "failed"], bytes),
         UNCHANGED protocol
  PROVE  PlacedReceiver(receiver)' /\ back' \in Seq(Replies)
<1>1. PlacedReceiver([receiver EXCEPT !.at = "failed"])
  BY DEF Typed, PlacedReceiver, Receivers, Final
<1> QED
  BY <1>1, ReplyTyped

\* The receiver waits for a second byte.
LEMMA ReplyCanTyped ==
  ASSUME Typed, Reply([receiver EXCEPT !.can = TRUE], <<>>), UNCHANGED protocol
  PROVE  PlacedReceiver(receiver)' /\ back' \in Seq(Replies)
<1>1. PlacedReceiver([receiver EXCEPT !.can = TRUE])
  BY DEF Typed, PlacedReceiver, Receivers
<1> QED
  BY <1>1, ReplyTyped, RepliesTyped

\* ReadError counts up to the retries.
LEMMA ReadErrorTyped ==
  ASSUME Typed, ReadError, UNCHANGED protocol
  PROVE  PlacedReceiver(receiver)' /\ back' \in Seq(Replies)
<1>1. CASE receiver.retries < Retries
  <2>1. receiver \in Receivers /\ receiver.retries + 1 \in 0..Retries
    BY <1>1, ConstantFacts DEF Typed, PlacedReceiver, Receivers
  <2>2. [receiver EXCEPT !.retries = @ + 1, !.can = FALSE] \in Receivers
    BY <2>1 DEF Receivers
  <2>3. PlacedReceiver([receiver EXCEPT !.retries = @ + 1, !.can = FALSE])
    BY <2>1, <2>2 DEF Typed, PlacedReceiver, Receivers
  <2> QED
    BY <1>1, <2>3, ReplyTyped, RepliesTyped DEF ReadError
<1>2. CASE ~(receiver.retries < Retries)
  BY <1>2, ReplyFailedTyped, RepliesTyped DEF ReadError
<1> QED
  BY <1>1, <1>2

\* Reading takes a frame, or stays with noise.
LEMMA ReceiverReadsTyped ==
  ASSUME Typed, ReceiverReads
  PROVE  /\ Head(line) \in Frames /\ line' \in Seq(Frames)
         /\ UNCHANGED <<protocol, sender, disturbed, faults>>
<1>1. line \in Seq(Frames) /\ line # <<>>
  BY DEF Typed, TypeOK, ReceiverReads
<1>2. Head(line) \in Frames /\ Tail(line) \in Seq(Frames)
  BY <1>1, HeadTailProperties
<1>3. line' = line \/ line' = Tail(line)
  BY DEF ReceiverReads
<1> QED
  BY <1>1, <1>2, <1>3 DEF ReceiverReads

\* What every step of the receiver leaves typed.
LEMMA ReceiverTyped ==
  ASSUME Typed, PlacedReceiver(receiver)', line' \in Seq(Frames), back' \in Seq(Replies),
         written' \in [FileSet -> Seq((0..Len(Files)) \X Nat)],
         UNCHANGED <<protocol, sender, disturbed, faults>>
  PROVE  Typed'
BY DEF Typed, TypeOK, PlacedSender, PlacedReceiver, Live, FileSet

\* Begin keeps the types.
LEMMA BeginTyped == Typed /\ Begin => Typed'
<1> SUFFICES ASSUME Typed, Begin PROVE Typed'
  OBVIOUS
<1>p. PICK place \in {"data", "header"} :
        place = IF protocol = "xmodem" THEN "data" ELSE "header"
  OBVIOUS
<1>f. PICK file \in 0..Len(Files) : file = IF protocol = "xmodem" THEN 1 ELSE 0
  BY ConstantFacts
<1>b. PICK byte \in Replies : byte = IF receiver.crc THEN "WANT_CRC" ELSE "NAK"
  BY DEF Replies
<1>n. PICK new : new = [receiver EXCEPT !.at = place, !.file = file]
  OBVIOUS
<1>1. /\ new \in Receivers /\ new.at = place /\ new.file = file
      /\ new.crc = receiver.crc
  BY <1>n DEF Typed, PlacedReceiver, Receivers
<1>2. PlacedReceiver(new)
  BY <1>1, <1>p, <1>f DEF Typed, PlacedReceiver
<1>3. Reply(new, <<byte>>) /\ UNCHANGED <<protocol, sender, line, written, disturbed, faults>>
  BY <1>n, <1>p, <1>f, <1>b DEF Begin
<1>4. PlacedReceiver(receiver)' /\ back' \in Seq(Replies)
  BY <1>2, <1>3, <1>b, RepliesTyped, ReplyTyped
<1> QED
  BY <1>3, <1>4, ReceiverTyped DEF Typed, TypeOK, FileSet

\* ParseHeader keeps the types.
LEMMA ParseHeaderTyped ==
  ASSUME Typed, NEW frame \in Frames, ParseHeader(frame), receiver.at = "header",
         UNCHANGED protocol
  PROVE  PlacedReceiver(receiver)' /\ back' \in Seq(Replies)
<1>1. CASE Reply([receiver EXCEPT !.at = "failed"], <<"ACK">>)
  BY <1>1, ReplyFailedTyped, RepliesTyped
<1>2. CASE Reply([receiver EXCEPT !.at = "ok"], <<"ACK">>)
  <2>1. PlacedReceiver([receiver EXCEPT !.at = "ok"])
    BY DEF Typed, PlacedReceiver, Receivers, Final
  <2> QED
    BY <1>2, <2>1, ReplyTyped, RepliesTyped
<1>3. CASE Reply([receiver EXCEPT !.at = "data", !.expected = 1, !.retries = 0,
                                  !.file = IF frame.index = 0 THEN frame.file ELSE 0],
                 <<"ACK", "WANT_CRC">>)
  <2>f. PICK file \in 0..Len(Files) : file = IF frame.index = 0 THEN frame.file ELSE 0
    BY ConstantFacts DEF Frames
  <2>n. PICK new : new = [receiver EXCEPT !.at = "data", !.expected = 1, !.retries = 0,
                                          !.file = file]
    OBVIOUS
  <2>r. /\ receiver \in Receivers /\ 1 \in 0..(Modulus - 1) /\ 0 \in 0..Retries
        /\ protocol # "xmodem"
    BY ConstantFacts DEF Typed, PlacedReceiver
  <2>1. new \in Receivers /\ new.crc = receiver.crc
    BY <2>n, <2>r DEF Receivers
  <2>2. PlacedReceiver(new)
    BY <2>1, <2>r DEF Typed, PlacedReceiver
  <2> QED
    BY <1>3, <2>f, <2>n, <2>2, ReplyTyped, RepliesTyped
<1> QED
  BY <1>1, <1>2, <1>3 DEF ParseHeader

\* ReadHeader keeps the types.
LEMMA ReadHeaderTyped == Typed /\ ReadHeader => Typed'
<1> SUFFICES ASSUME Typed, ReadHeader PROVE Typed'
  OBVIOUS
<1>1. /\ Head(line) \in Frames /\ line' \in Seq(Frames)
      /\ UNCHANGED <<protocol, sender, disturbed, faults>> /\ UNCHANGED written
      /\ receiver.at = "header"
  BY ReceiverReadsTyped DEF ReadHeader
<1>2. \/ Reply([receiver EXCEPT !.at = "failed"], <<>>)
      \/ Reply(receiver, <<"NAK", "WANT_CRC">>)
      \/ ParseHeader(Head(line))
  BY DEF ReadHeader
<1>3. PlacedReceiver(receiver)' /\ back' \in Seq(Replies)
  <2>1. PICK frame \in Frames : frame = Head(line)
    BY <1>1
  <2>2. PlacedReceiver(receiver)
    BY DEF Typed
  <2> QED
    BY <1>1, <1>2, <2>1, <2>2, ReplyFailedTyped, ReplyTyped, RepliesTyped, ParseHeaderTyped
<1> QED
  BY <1>1, <1>3, ReceiverTyped DEF Typed, TypeOK, FileSet

\* Store keeps the types.
LEMMA StoreTyped ==
  ASSUME Typed, NEW frame \in Frames, Store(frame), receiver.at = "data", UNCHANGED protocol
  PROVE  /\ PlacedReceiver(receiver)' /\ back' \in Seq(Replies)
         /\ written' \in [FileSet -> Seq((0..Len(Files)) \X Nat)]
<1>r. receiver \in Receivers /\ 0 \in 0..Retries /\ receiver.expected \in Nat
  BY ConstantFacts DEF Typed, PlacedReceiver, Receivers
<1>w. written \in [FileSet -> Seq((0..Len(Files)) \X Nat)]
  BY DEF Typed, TypeOK, FileSet
<1>1. CASE frame.number = receiver.expected
  <2>e. PICK next \in 0..(Modulus - 1) : next = (receiver.expected + 1) % Modulus
    BY <1>r, NumberFits
  <2>n. PICK new : new = [receiver EXCEPT !.expected = next, !.retries = 0]
    OBVIOUS
  <2>1. new \in Receivers /\ new.at = receiver.at /\ new.file = receiver.file
        /\ new.crc = receiver.crc
    BY <2>n, <1>r DEF Receivers
  <2>2. PlacedReceiver(new)
    BY <2>1 DEF Typed, PlacedReceiver
  <2>3. Reply(new, <<"ACK">>)
    BY <1>1, <2>e, <2>n DEF Store
  <2>4. written' \in [FileSet -> Seq((0..Len(Files)) \X Nat)]
    <3>1. CASE written' = written
      BY <3>1, <1>w
    <3>2. CASE written' # written
      <4>1. /\ written' = [written EXCEPT ![receiver.file] = Append(@, <<frame.file, frame.index>>)]
            /\ receiver.file # 0
        BY <1>1, <3>2 DEF Store
      <4>2. receiver.file \in FileSet
        BY <4>1, <1>r, ConstantFacts DEF Receivers, FileSet
      <4>3. <<frame.file, frame.index>> \in (0..Len(Files)) \X Nat
        BY DEF Frames
      <4>4. Append(written[receiver.file], <<frame.file, frame.index>>) \in Seq((0..Len(Files)) \X Nat)
        BY <4>2, <4>3, <1>w, AppendProperties
      <4> QED
        BY <4>1, <4>2, <4>4, <1>w
    <3> QED
      BY <3>1, <3>2
  <2> QED
    BY <2>2, <2>3, <2>4, ReplyTyped, RepliesTyped
<1>2. CASE frame.number # receiver.expected
  <2>b. PICK byte \in Replies :
          byte = IF frame.number = (receiver.expected - 1) % Modulus THEN "ACK" ELSE "NAK"
    BY DEF Replies
  <2>1. PlacedReceiver([receiver EXCEPT !.retries = 0])
    BY <1>r DEF Typed, PlacedReceiver, Receivers
  <2>2. Reply([receiver EXCEPT !.retries = 0], <<byte>>) /\ UNCHANGED written
    BY <1>2, <2>b DEF Store
  <2> QED
    BY <2>1, <2>2, <1>w, ReplyTyped, RepliesTyped
<1> QED
  BY <1>1, <1>2

\* EndOfFile keeps the types.
LEMMA EndOfFileTyped ==
  ASSUME Typed, EndOfFile, UNCHANGED protocol
  PROVE  PlacedReceiver(receiver)' /\ back' \in Seq(Replies)
<1>1. CASE protocol = "xmodem"
  <2>1. PlacedReceiver([receiver EXCEPT !.at = "ok"])
    BY DEF Typed, PlacedReceiver, Receivers, Final
  <2> QED
    BY <1>1, <2>1, ReplyTyped, RepliesTyped DEF EndOfFile
<1>2. CASE protocol # "xmodem"
  <2>1. PlacedReceiver([receiver EXCEPT !.at = "eot"])
    BY <1>2 DEF Typed, PlacedReceiver, Receivers, Final
  <2> QED
    BY <1>2, <2>1, ReplyTyped, RepliesTyped DEF EndOfFile
<1> QED
  BY <1>1, <1>2

\* ReadPacket keeps the types.
LEMMA ReadPacketTyped == Typed /\ ReadPacket => Typed'
<1> SUFFICES ASSUME Typed, ReadPacket PROVE Typed'
  OBVIOUS
<1>1. /\ Head(line) \in Frames /\ line' \in Seq(Frames)
      /\ UNCHANGED <<protocol, sender, disturbed, faults>>
      /\ receiver.at = "data"
  BY ReceiverReadsTyped DEF ReadPacket
<1>2. \/ Store(Head(line))
      \/ EndOfFile /\ UNCHANGED written
      \/ Reply([receiver EXCEPT !.can = TRUE], <<>>) /\ UNCHANGED written
      \/ ReadError /\ UNCHANGED written
  BY DEF ReadPacket
<1>3. written \in [FileSet -> Seq((0..Len(Files)) \X Nat)]
  BY DEF Typed, TypeOK, FileSet
<1>4. PICK frame \in Frames : frame = Head(line)
  BY <1>1
<1>5. /\ PlacedReceiver(receiver)' /\ back' \in Seq(Replies)
      /\ written' \in [FileSet -> Seq((0..Len(Files)) \X Nat)]
  BY <1>1, <1>2, <1>3, <1>4, StoreTyped, EndOfFileTyped, ReplyCanTyped, ReadErrorTyped
<1> QED
  BY <1>1, <1>5, ReceiverTyped

\* ReadAfterFirstCan keeps the types.
LEMMA ReadAfterFirstCanTyped == Typed /\ ReadAfterFirstCan => Typed'
<1> SUFFICES ASSUME Typed, ReadAfterFirstCan PROVE Typed'
  OBVIOUS
<1>1. line \in Seq(Frames) /\ line # <<>>
  BY DEF Typed, TypeOK, ReadAfterFirstCan
<1>2. Tail(line) \in Seq(Frames)
  BY <1>1, HeadTailProperties
<1>3. <<Byte("noise")>> \in Seq(Frames)
  BY ByteIsFrame
<1>4. <<Byte("noise")>> \o Tail(line) \in Seq(Frames)
  BY <1>2, <1>3, ConcatProperties
<1>5. line' \in Seq(Frames)
  BY <1>2, <1>4 DEF ReadAfterFirstCan, AfterMarker
<1>6. PlacedReceiver(receiver)' /\ back' \in Seq(Replies)
  BY ReplyFailedTyped, ReadErrorTyped, RepliesTyped DEF ReadAfterFirstCan
<1> QED
  BY <1>5, <1>6, ReceiverTyped DEF ReadAfterFirstCan, Typed, TypeOK, FileSet

\* ReadSecondEot keeps the types.
LEMMA ReadSecondEotTyped == Typed /\ ReadSecondEot => Typed'
<1> SUFFICES ASSUME Typed, ReadSecondEot PROVE Typed'
  OBVIOUS
<1>1. /\ line' \in Seq(Frames)
      /\ UNCHANGED <<protocol, sender, disturbed, faults>> /\ UNCHANGED written
      /\ receiver.at = "eot"
  BY ReceiverReadsTyped DEF ReadSecondEot
<1>2. \/ Reply([receiver EXCEPT !.at = "failed"], <<"ACK">>)
      \/ Reply([receiver EXCEPT !.at = "header"], <<"ACK", "WANT_CRC">>)
      \/ Reply([receiver EXCEPT !.can = TRUE], <<>>)
      \/ Reply([receiver EXCEPT !.at = "failed"], <<>>)
  BY DEF ReadSecondEot
<1>3. PlacedReceiver([receiver EXCEPT !.at = "header"])
  BY <1>1 DEF Typed, PlacedReceiver, Receivers
<1>4. PlacedReceiver(receiver)' /\ back' \in Seq(Replies)
  BY <1>1, <1>2, <1>3, ReplyFailedTyped, ReplyCanTyped, ReplyTyped, RepliesTyped
<1> QED
  BY <1>1, <1>4, ReceiverTyped DEF Typed, TypeOK, FileSet

\* A disturbance is counted and named.
LEMMA DisturbTyped ==
  ASSUME Typed, NEW kind \in {"late", "stop", "error", "damage", "header", "noise", "loss"},
         Disturb(kind)
  PROVE  /\ disturbed' \subseteq {"late", "stop", "error", "damage", "header", "noise", "loss"}
         /\ faults' \in 0..MaxFaults
BY ConstantFacts DEF Disturb, Typed, TypeOK

\* A timeout, due or not, keeps the types of the history.
LEMMA TimeoutInTyped ==
  ASSUME Typed, NEW silent, TimeoutIn(silent)
  PROVE  /\ disturbed' \subseteq {"late", "stop", "error", "damage", "header", "noise", "loss"}
         /\ faults' \in 0..MaxFaults
<1>1. UNCHANGED <<faults, disturbed>> \/ Disturb("late")
  BY DEF TimeoutIn
<1> QED
  BY <1>1, DisturbTyped DEF Typed, TypeOK

\* What any step leaves typed.
LEMMA StepTyped ==
  ASSUME Typed, PlacedSender(sender)', PlacedReceiver(receiver)', UNCHANGED <<protocol, written>>,
         line' \in Seq(Frames), back' \in Seq(Replies),
         disturbed' \subseteq {"late", "stop", "error", "damage", "header", "noise", "loss"},
         faults' \in 0..MaxFaults
  PROVE  Typed'
BY DEF Typed, TypeOK, PlacedSender, PlacedReceiver

\* A side that has failed is somewhere it may be.
LEMMA FailedPlaced ==
  ASSUME Typed, UNCHANGED protocol
  PROVE  /\ sender' = [sender EXCEPT !.at = "failed"] \/ UNCHANGED sender
            => PlacedSender(sender)'
         /\ receiver' = [receiver EXCEPT !.at = "failed"] \/ UNCHANGED receiver
            => PlacedReceiver(receiver)'
<1>1. PlacedSender([sender EXCEPT !.at = "failed"]) /\ PlacedSender(sender)
  BY DEF Typed, PlacedSender, Senders, Live, Final
<1>2. PlacedReceiver([receiver EXCEPT !.at = "failed"]) /\ PlacedReceiver(receiver)
  BY DEF Typed, PlacedReceiver, Receivers, Final
<1> QED
  BY <1>1, <1>2 DEF PlacedSender, PlacedReceiver, Live

\* A queue whose sender stops keeps what has left, and gets the cancellation.
LEMMA CutTyped ==
  ASSUME NEW S, NEW s \in Seq(S), NEW n \in 0..Len(s), NEW x \in S
  PROVE  SubSeq(s, 1, n) \o <<x, x>> \in Seq(S)
<1>1. \A i \in 1..n : s[i] \in S
  BY ElementOfSeq
<1>2. SubSeq(s, 1, n) \in Seq(S)
  BY <1>1, SubSeqProperties
<1>3. <<x, x>> \in Seq(S)
  OBVIOUS
<1> QED
  BY <1>2, <1>3, ConcatProperties

\* Timeouts and cancellation keep the types.
LEMMA EndingTyped ==
  Typed /\ (SenderTimeout \/ ReceiverTimeout \/ StopSender \/ StopReceiver \/ SenderError
            \/ ReceiverError) => Typed'
<1> SUFFICES ASSUME Typed PROVE
       SenderTimeout \/ ReceiverTimeout \/ StopSender \/ StopReceiver \/ SenderError
       \/ ReceiverError => Typed'
  OBVIOUS
<1>q. line \in Seq(Frames) /\ back \in Seq(Replies)
  BY DEF Typed, TypeOK
<1>1. CASE SenderTimeout
  BY <1>1, <1>q, TimeoutInTyped, FailedPlaced, StepTyped DEF SenderTimeout
<1>2. CASE ReceiverTimeout
  <2>1. PlacedReceiver(receiver)' /\ back' \in Seq(Replies)
    BY <1>2, ReadErrorTyped, ReplyFailedTyped, RepliesTyped DEF ReceiverTimeout
  <2> QED
    BY <1>2, <1>q, <2>1, TimeoutInTyped, FailedPlaced, StepTyped DEF ReceiverTimeout
<1>3. CASE StopSender
  <2>1. PICK n \in 0..Len(line) : line' = SubSeq(line, 1, n) \o <<Byte("can"), Byte("can")>>
    BY <1>3 DEF StopSender
  <2>2. line' \in Seq(Frames)
    BY <1>q, <2>1, ByteIsFrame, CutTyped
  <2> QED
    BY <1>3, <1>q, <2>2, DisturbTyped, FailedPlaced, StepTyped DEF StopSender
<1>4. CASE StopReceiver
  <2>1. PICK n \in 0..Len(back) : back' = SubSeq(back, 1, n) \o <<"CAN", "CAN">>
    BY <1>4 DEF StopReceiver
  <2>2. "CAN" \in Replies
    BY DEF Replies
  <2>3. back' \in Seq(Replies)
    BY <1>q, <2>1, <2>2, CutTyped
  <2> QED
    BY <1>4, <1>q, <2>3, DisturbTyped, FailedPlaced, StepTyped DEF StopReceiver
<1>5. CASE SenderError
  BY <1>5, <1>q, DisturbTyped, FailedPlaced, StepTyped DEF SenderError
<1>6. CASE ReceiverError
  BY <1>6, <1>q, DisturbTyped, FailedPlaced, StepTyped DEF ReceiverError
<1> QED
  BY <1>1, <1>2, <1>3, <1>4, <1>5, <1>6

\* The line keeps the types.
LEMMA LineTyped == Typed /\ (DamageBlock \/ LoseFrame \/ LoseReply \/ DamageReply) => Typed'
<1> SUFFICES ASSUME Typed PROVE DamageBlock \/ LoseFrame \/ LoseReply \/ DamageReply => Typed'
  OBVIOUS
<1>q. line \in Seq(Frames) /\ back \in Seq(Replies)
  BY DEF Typed, TypeOK
<1>1. CASE DamageBlock
  <2>1. PICK kind \in {"bad", "noise"} :
          line' = <<[Head(line) EXCEPT !.kind = kind]>> \o Tail(line)
    BY <1>1 DEF DamageBlock
  <2>2. line # <<>> /\ \E d \in {"noise", "header", "damage"} : Disturb(d)
    BY <1>1 DEF DamageBlock
  <2>3. Head(line) \in Frames /\ Tail(line) \in Seq(Frames)
    BY <1>q, <2>2, HeadTailProperties
  <2>4. [Head(line) EXCEPT !.kind = kind] \in Frames
    BY <2>3 DEF Frames
  <2>5. <<[Head(line) EXCEPT !.kind = kind]>> \in Seq(Frames)
    BY <2>4
  <2>6. line' \in Seq(Frames)
    BY <2>1, <2>3, <2>5, ConcatProperties
  <2> QED
    BY <1>1, <1>q, <2>2, <2>6, DisturbTyped, FailedPlaced, StepTyped DEF DamageBlock
<1>2. CASE LoseFrame
  <2>1. line' \in Seq(Frames)
    BY <1>2, <1>q, HeadTailProperties DEF LoseFrame
  <2> QED
    BY <1>2, <1>q, <2>1, DisturbTyped, FailedPlaced, StepTyped DEF LoseFrame
<1>3. CASE LoseReply
  <2>1. back' \in Seq(Replies)
    BY <1>3, <1>q, HeadTailProperties DEF LoseReply
  <2> QED
    BY <1>3, <1>q, <2>1, DisturbTyped, FailedPlaced, StepTyped DEF LoseReply
<1>4. CASE DamageReply
  <2>1. PICK byte \in {"junk", "CAN"} : back' = <<byte>> \o Tail(back)
    BY <1>4 DEF DamageReply
  <2>2. Tail(back) \in Seq(Replies)
    BY <1>4, <1>q, HeadTailProperties DEF DamageReply
  <2>3. <<byte>> \in Seq(Replies)
    BY DEF Replies
  <2>4. back' \in Seq(Replies)
    BY <2>1, <2>2, <2>3, ConcatProperties
  <2> QED
    BY <1>4, <1>q, <2>4, DisturbTyped, FailedPlaced, StepTyped DEF DamageReply
<1> QED
  BY <1>1, <1>2, <1>3, <1>4

\* Nothing has been sent at the start.
LEMMA TypedInit == Init => Typed
<1> SUFFICES ASSUME Init PROVE Typed
  OBVIOUS
<1>c. PICK crc \in BOOLEAN :
        /\ protocol = "ymodem" => crc
        /\ receiver = [at |-> "begin", file |-> 0, expected |-> 1, retries |-> 0,
                       crc |-> crc, can |-> FALSE]
  BY DEF Init
<1>1. PlacedReceiver(receiver)
  BY <1>c, ConstantFacts DEF PlacedReceiver, Receivers
<1>2. PlacedSender(sender)
  BY ConstantFacts DEF Init, PlacedSender, Senders, Live, Final
<1>3. /\ protocol \in Protocols /\ line \in Seq(Frames) /\ back \in Seq(Replies)
      /\ disturbed \subseteq {"late", "stop", "error", "damage", "header", "noise", "loss"}
      /\ faults \in 0..MaxFaults
  BY ConstantFacts DEF Init
<1>4. written \in [1..Len(Files) -> Seq((0..Len(Files)) \X Nat)]
  BY DEF Init
<1> QED
  BY <1>1, <1>2, <1>3, <1>4 DEF Typed, TypeOK, PlacedSender, PlacedReceiver

\* Every step keeps the types.
LEMMA TypedStep == Typed /\ [Next]_vars => Typed'
<1> SUFFICES ASSUME Typed, [Next]_vars PROVE Typed'
  OBVIOUS
<1>1. CASE UNCHANGED vars
  BY <1>1 DEF vars, Typed, TypeOK, PlacedSender, PlacedReceiver, Live
<1>2. CASE SenderStep
  BY <1>2, ReadCanTyped, ReadAfterCanTyped, WaitForStartTyped, SendBlockTyped,
     ExpectWantCrcTyped, FinishSendTyped, EndingTyped DEF SenderStep
<1>3. CASE ReceiverStep
  BY <1>3, BeginTyped, ReadHeaderTyped, ReadPacketTyped, ReadAfterFirstCanTyped,
     ReadSecondEotTyped, EndingTyped DEF ReceiverStep
<1>4. CASE Disturbance
  BY <1>4, EndingTyped, LineTyped DEF Disturbance
<1> QED
  BY <1>1, <1>2, <1>3, <1>4 DEF Next

\* The types hold, and with them the bounds of every counter: a loop of the sender has at
\* most Retries rounds, the receiver refuses at most Retries blocks in a row, and block
\* numbers stay below the modulus.
THEOREM TypeCorrect == Spec => []TypeOK
<1>1. Init => Typed
  BY TypedInit
<1>2. Typed /\ [Next]_vars => Typed'
  BY TypedStep
<1>3. Typed => TypeOK
  BY DEF Typed
<1> QED
  BY <1>1, <1>2, <1>3, PTL DEF Spec

-----------------------------------------------------------------------------
(* The sides in step: the invariant *)

InOrder == \A f \in FileSet : written[f] = [i \in 1..Len(written[f]) |-> <<f, i>>]

Full(f) == Len(written[f]) = Files[f]

\* What the receiver has: files in order, those before its own complete and those behind
\* it empty, its own complete once its end was read, and the number it expects is that of
\* the block behind the last one written.
FilesInStep ==
    /\ InOrder
    /\ \A f \in FileSet : Len(written[f]) <= Files[f]
    /\ receiver.at = "ok" => Complete
    /\ Live(receiver) =>
          /\ \A f \in FileSet : /\ f < receiver.file => Full(f)
                                /\ f > receiver.file => written[f] = <<>>
          /\ receiver.at = "begin" => receiver.file = 0 /\ receiver.expected = 1
          /\ receiver.at \in {"data", "eot"} => receiver.file # 0
          /\ receiver.at \in {"header", "eot"} /\ receiver.file # 0 => Full(receiver.file)
          /\ receiver.at = "data" =>
                receiver.expected = (Len(written[receiver.file]) + 1) % Modulus

\* A block that the receiver will read is one it can use: the header of the next file or
\* the empty one behind the last, the next data block or the one before it.
Fits(frame) ==
    /\ receiver.at = "header" =>
          /\ frame.number = 0 /\ frame.index = 0
          /\ frame.file = 0 => receiver.file = Len(Files)
          /\ frame.file # 0 => frame.file = receiver.file + 1
    /\ receiver.at = "data" =>
          /\ frame.file = receiver.file
          /\ frame.index <= Files[receiver.file]
          /\ frame.number = frame.index % Modulus
          /\ frame.index \in {Len(written[receiver.file]), Len(written[receiver.file]) + 1}

\* What a receiver that has not returned will find: one frame at most, behind it only
\* the bytes of a cancellation, whose sender has returned.
LineInStep ==
    Live(receiver) =>
        /\ \A i \in 2..Len(line) : line[i].kind = "can"
        /\ Live(sender) => ~receiver.can /\ \A i \in 1..Len(line) : line[i].kind # "can"
        /\ receiver.can => \A i \in 1..Len(line) : line[i].kind = "can"
        /\ line # <<>> =>
              /\ line[1].kind # "noise"
              /\ line[1].kind = "good" => Fits(line[1])
              /\ line[1].kind = "eot" /\ receiver.at \in {"data", "eot"} => Full(receiver.file)
              /\ receiver.at = "begin" => line[1].kind = "can"

\* What the sender knows: the files before its own are complete and those behind it
\* empty, an ACK under way is the answer to what it waits for, and the end of a file is
\* sent when all of it was written.
SenderInStep ==
    /\ sender.at = "ok" => Complete
    /\ Live(sender) =>
          /\ \A i \in 2..Len(back) : back[i] # "ACK"
          /\ \A f \in FileSet : /\ f < sender.file => Full(f)
                                /\ f > sender.file => written[f] = <<>>
          /\ sender.at \in {"start", "header", "want"} =>
                \A f \in FileSet : f = sender.file => written[f] = <<>>
          /\ sender.at = "data" =>
                /\ sender.block >= 1 /\ sender.block <= Files[sender.file]
                /\ Len(written[sender.file]) \in {sender.block - 1, sender.block}
                /\ back # <<>> /\ back[1] = "ACK" => Len(written[sender.file]) = sender.block
          /\ sender.at = "eot" => Full(sender.file)
          /\ sender.at = "null" => sender.file = Len(Files) + 1

\* Where the receiver may wait while the sender waits.
Where ==
    /\ sender.at = "start" =>
          /\ protocol = "ymodem" => /\ receiver.at \in {"begin", "header"}
                                    /\ receiver.file = sender.file - 1
          /\ protocol = "xmodem" => receiver.at \in {"begin", "data"}
    /\ sender.at = "header" =>
          \/ receiver.at = "header" /\ receiver.file = sender.file - 1 /\ back = <<>>
          \/ receiver.at = "data" /\ receiver.file = sender.file
    /\ sender.at \in {"want", "data"} => receiver.at = "data" /\ receiver.file = sender.file
    /\ sender.at = "eot" =>
          /\ receiver.at \in {"data", "eot", "header"} /\ receiver.file = sender.file
          /\ back # <<>> /\ back[1] = "ACK" => receiver.at = "header"
    /\ sender.at = "null" => receiver.at = "header" /\ receiver.file = Len(Files)

\* While neither side has returned one thing is under way: what the sender waits to have
\* answered, or the answer.
Together ==
    Live(sender) /\ Live(receiver) =>
        /\ Where
        /\ line # <<>> => /\ Len(line) = 1 /\ back = <<>> /\ ~sender.can
                          /\ sender.at \in {"header", "data", "eot", "null"}
                          /\ line[1] \in {Frame(sender), [Frame(sender) EXCEPT !.kind = "bad"]}
        /\ Len(back) <= 2
        /\ Len(back) = 2 => /\ back[2] = "WANT_CRC" /\ back[1] \notin {"NAK", "WANT_CRC"}
                            /\ ~sender.can
                            /\ sender.at \in {"header", "eot"}
        /\ receiver.at = "begin" => line = <<>> /\ back = <<>> /\ sender.at = "start"

Linked == FilesInStep /\ LineInStep /\ SenderInStep /\ Together

\* The second part of the invariant.
LinkedInStep == InStep => Linked

-----------------------------------------------------------------------------
(* The sides in step: numbers and queues *)

\* Division with remainder.
LEMMA Remainder ==
  ASSUME NEW q \in Int, NEW r \in 0..(Modulus - 1)
  PROVE  (Modulus * q + r) % Modulus = r
BY ConstantFacts

\* Every number has a quotient and a remainder.
LEMMA Division ==
  ASSUME NEW a \in Int
  PROVE  \E q \in Int, r \in 0..(Modulus - 1) : a = Modulus * q + r
<1>1. /\ a = Modulus * (a \div Modulus) + (a % Modulus)
      /\ a % Modulus \in 0..(Modulus - 1) /\ a \div Modulus \in Int
  BY ConstantFacts
<1>2. PICK q \in Int : q = a \div Modulus
  BY <1>1
<1>3. PICK r \in 0..(Modulus - 1) : r = a % Modulus
  BY <1>1
<1>4. a = Modulus * q + r
  BY <1>1, <1>2, <1>3, Zenon
<1> QED
  BY <1>4, Zenon

\* Counting on from a block number is the number of the next block.
LEMMA NumberNext ==
  ASSUME NEW n \in Nat
  PROVE  ((n % Modulus) + 1) % Modulus = (n + 1) % Modulus
<1>0. n \in Int
  OBVIOUS
<1>1. PICK q \in Int, r \in 0..(Modulus - 1) : n = Modulus * q + r
  BY <1>0, Division, Zenon
<1>2. n % Modulus = r
  BY <1>1, Remainder
<1>3. CASE r + 1 < Modulus
  <2>1. /\ n + 1 = Modulus * q + (r + 1) /\ r + 1 \in 0..(Modulus - 1)
        /\ r + 1 = Modulus * 0 + (r + 1)
    BY <1>1, <1>3, ConstantFacts
  <2>2. (n + 1) % Modulus = r + 1
    BY <2>1, Remainder
  <2>3. (r + 1) % Modulus = r + 1
    BY <2>1, Remainder
  <2> QED
    BY <1>2, <2>2, <2>3
<1>4. CASE r + 1 = Modulus
  <2>t. PICK t \in Int : t = Modulus * q
    BY ConstantFacts
  <2>u. PICK u \in Int : u = Modulus * (q + 1)
    BY ConstantFacts
  <2>v. u = t + Modulus
    BY <2>t, <2>u, ConstantFacts
  <2>n. n = t + r
    BY <1>1, <2>t
  <2>m. n + 1 = u + 0
    BY <1>4, <2>n, <2>v
  <2>1. /\ n + 1 = Modulus * (q + 1) + 0 /\ r + 1 = Modulus * 1 + 0
        /\ 0 \in 0..(Modulus - 1) /\ q + 1 \in Int
    BY <1>4, <2>m, <2>u, ConstantFacts
  <2>2. (n + 1) % Modulus = 0
    BY <2>1, Remainder
  <2>3. (r + 1) % Modulus = 0
    BY <2>1, Remainder
  <2> QED
    BY <1>2, <2>2, <2>3
<1> QED
  BY <1>3, <1>4, ConstantFacts

\* Counting back from a block number is the number of the block before.
LEMMA NumberBefore ==
  ASSUME NEW n \in Nat
  PROVE  (((n + 1) % Modulus) - 1) % Modulus = n % Modulus
<1>0. n + 1 \in Int
  OBVIOUS
<1>1. PICK q \in Int, r \in 0..(Modulus - 1) : n + 1 = Modulus * q + r
  BY <1>0, Division, Zenon
<1>2. (n + 1) % Modulus = r
  BY <1>1, Remainder
<1>3. CASE r > 0
  <2>1. /\ n = Modulus * q + (r - 1) /\ r - 1 \in 0..(Modulus - 1)
        /\ r - 1 = Modulus * 0 + (r - 1)
    BY <1>1, <1>3, ConstantFacts
  <2>2. n % Modulus = r - 1
    BY <2>1, Remainder
  <2>3. (r - 1) % Modulus = r - 1
    BY <2>1, Remainder
  <2> QED
    BY <1>2, <2>2, <2>3
<1>4. CASE r = 0
  <2>1. /\ n = Modulus * (q - 1) + (Modulus - 1) /\ r - 1 = Modulus * (0 - 1) + (Modulus - 1)
        /\ Modulus - 1 \in 0..(Modulus - 1) /\ 0 - 1 \in Int
    BY <1>1, <1>4, ConstantFacts
  <2>2. n % Modulus = Modulus - 1
    BY <2>1, Remainder
  <2>3. (r - 1) % Modulus = Modulus - 1
    BY <2>1, Remainder
  <2> QED
    BY <1>2, <2>2, <2>3
<1> QED
  BY <1>3, <1>4, ConstantFacts

\* Blocks less than the modulus apart have different numbers.
LEMMA NumbersDiffer ==
  ASSUME NEW n \in Nat, NEW k \in 1..(Modulus - 1)
  PROVE  n % Modulus # (n + k) % Modulus
<1>1. Modulus \in Nat /\ Modulus > 2
  BY ConstantFacts
<1> QED
  BY <1>1

\* The sender takes the first reply under way.
LEMMA ReplyTaken ==
  ASSUME Typed, NEW reply, SenderReads(reply)
  PROVE  /\ Live(sender) /\ back # <<>> /\ reply = back[1] /\ Len(back) \in Nat /\ Len(back) >= 1
         /\ Len(back') = Len(back) - 1
         /\ \A i \in 1..Len(back') : back'[i] = back[i + 1]
         /\ Len(back) = 1 => back' = <<>>
         /\ back' \in Seq(Replies)
         /\ UNCHANGED <<protocol, receiver, written, disturbed, faults>>
<1>1. back \in Seq(Replies) /\ back # <<>>
  BY DEF Typed, TypeOK, SenderReads
<1>2. /\ Tail(back) \in Seq(Replies) /\ Len(Tail(back)) = Len(back) - 1
      /\ \A i \in 1..Len(Tail(back)) : Tail(back)[i] = back[i + 1]
  BY <1>1, HeadTailProperties
<1>3. Len(back) \in Nat /\ Len(back) >= 1
  BY <1>1, EmptySeq
<1>4. Len(Tail(back)) = 0 => Tail(back) = <<>>
  BY <1>2, EmptySeq
<1>5. Head(back) = back[1]
  BY <1>1
<1> QED
  BY <1>1, <1>2, <1>3, <1>4, <1>5 DEF SenderReads, Live

\* The fields of what the sender writes.
LEMMA FrameFields ==
  ASSUME NEW s
  PROVE  /\ s.at = "eot" => Frame(s).kind = "eot"
         /\ s.at # "eot" =>
               /\ Frame(s).kind = "good" /\ Frame(s).number = BlockNumber(s)
               /\ Frame(s).file = IF s.at = "null" THEN 0 ELSE s.file
               /\ Frame(s).index = IF s.at = "data" THEN s.block ELSE 0
BY DEF Frame, Byte

\* A sender that returns leaves everything as it is.
LEMMA SenderEnds ==
  ASSUME Linked, ~Live(sender)', (sender.at = "ok")' => Complete,
         UNCHANGED <<protocol, receiver, line, written>>
  PROVE  Linked'
<1>1. FilesInStep'
  BY DEF Linked, FilesInStep, InOrder, Full, Complete, Live
<1>2. LineInStep'
  BY DEF Linked, LineInStep, Fits, Full, Live
<1>3. SenderInStep'
  BY DEF SenderInStep, Complete
<1>4. Together'
  BY DEF Together
<1> QED
  BY <1>1, <1>2, <1>3, <1>4 DEF Linked

\* A sender that has taken the only reply writes what the receiver waits for.
LEMMA SenderSends ==
  ASSUME Typed, Linked, Live(sender), back # <<>>, NEW s, PlacedSender(s), Send(s),
         s.at \in {"header", "data", "eot", "null"}, ~s.can,
         Live(receiver) => back' = <<>> /\ Where',
         UNCHANGED <<protocol, receiver, written>>, SenderInStep'
  PROVE  Linked'
<1>1. FilesInStep'
  BY DEF Linked, FilesInStep, InOrder, Full, Complete, Live
<1>2. CASE ~Live(receiver)
  BY <1>1, <1>2 DEF Linked, LineInStep, Together, Live
<1>3. CASE Live(receiver)
  <2>1. line = <<>> /\ ~receiver.can /\ receiver.at # "begin"
    BY <1>3 DEF Linked, Together, LineInStep
  <2>2. line' = <<Frame(s)>> /\ sender' = s
    BY <2>1 DEF Send
  <2>3. Len(line') = 1 /\ line'[1] = Frame(s) /\ line' # <<>>
    BY <2>2
  <2>4. Live(sender)' /\ Where' /\ back' = <<>>
    BY <1>3, <2>2 DEF Live, Final
  <2>5. s.at # "eot" => Fits(Frame(s))
    <3>1. CASE s.at = "header"
      <4>1. BlockNumber(s) = 0 /\ s.file \in FileSet
        BY <3>1, ConstantFacts DEF BlockNumber, PlacedSender, Senders, FileSet
      <4>2. /\ Frame(s).number = 0 /\ Frame(s).file = s.file /\ Frame(s).index = 0
        BY <3>1, <4>1, FrameFields
      <4>3. 0 % Modulus = 0
        BY ConstantFacts
      <4>4. CASE receiver.at = "header"
        BY <2>2, <2>4, <3>1, <4>1, <4>2, <4>4 DEF Where, Fits, FileSet
      <4>5. CASE receiver.at = "data"
        <5>1. receiver.file = s.file
          BY <2>2, <2>4, <3>1, <4>5 DEF Where
        <5>2. Len(written[receiver.file]) = 0 /\ Files[receiver.file] \in Nat
          BY <2>2, <2>4, <3>1, <4>1, <5>1, ConstantFacts DEF SenderInStep
        <5> QED
          BY <4>2, <4>3, <4>5, <5>1, <5>2 DEF Fits
      <4> QED
        BY <2>2, <2>4, <3>1, <4>4, <4>5 DEF Where
    <3>2. CASE s.at = "data"
      <4>1. receiver.at = "data" /\ receiver.file = s.file
        BY <2>2, <2>4, <3>2 DEF Where
      <4>2. /\ s.block <= Files[s.file]
            /\ Len(written[s.file]) \in {s.block - 1, s.block}
        BY <2>2, <2>4, <3>2 DEF SenderInStep
      <4>3. /\ Frame(s).number = s.block % Modulus /\ Frame(s).file = s.file
            /\ Frame(s).index = s.block
        BY <3>2, FrameFields DEF BlockNumber
      <4>4. Len(written[s.file]) \in Nat /\ s.block \in Nat
        BY <3>2, ConstantFacts DEF PlacedSender, Senders, Typed, TypeOK
      <4>5. s.block \in {Len(written[s.file]), Len(written[s.file]) + 1}
        BY <4>2, <4>4
      <4> QED
        BY <4>1, <4>2, <4>3, <4>5 DEF Fits
    <3>3. CASE s.at = "null"
      <4>1. receiver.at = "header" /\ receiver.file = Len(Files)
        BY <2>2, <2>4, <3>3 DEF Where
      <4>2. /\ Frame(s).number = 0 /\ Frame(s).file = 0 /\ Frame(s).index = 0
        BY <3>3, FrameFields DEF BlockNumber
      <4> QED
        BY <4>1, <4>2 DEF Fits
    <3> QED
      BY <3>1, <3>2, <3>3
  <2>6. /\ Frame(s).kind \in {"good", "eot"}
        /\ Frame(s).kind = "eot" <=> s.at = "eot"
    BY FrameFields
  <2>7. Frame(s).kind = "eot" /\ receiver.at \in {"data", "eot"} => Full(receiver.file)
    BY <2>2, <2>4, <2>6 DEF Where, SenderInStep, Full
  <2>8. LineInStep'
    <3>1. \A i \in 1..Len(line') : line'[i] = Frame(s)
      BY <2>3
    <3>2. \A i \in 2..Len(line') : line'[i].kind = "can"
      BY <2>3
    <3>3. Frame(s).kind = "good" => (Fits(line[1]))'
      BY <2>3, <2>5, <2>6 DEF Fits
    <3>4. Frame(s).kind = "eot" /\ receiver.at \in {"data", "eot"} => (Full(receiver.file))'
      BY <2>7 DEF Full
    <3>5. ~receiver'.can /\ receiver'.at = receiver.at /\ receiver'.at # "begin"
      BY <2>1
    <3>6. \A i \in 1..Len(line') : line'[i].kind # "can" /\ line'[i].kind # "noise"
      BY <2>6, <3>1
    <3> QED
      BY <2>3, <3>2, <3>3, <3>4, <3>5, <3>6 DEF LineInStep
  <2>9. Together'
    <3>1. line'[1] = Frame(sender)'
      BY <2>2, <2>3 DEF Frame, BlockNumber
    <3> QED
      BY <2>1, <2>2, <2>3, <2>4, <3>1 DEF Together
  <2> QED
    BY <1>1, <2>8, <2>9 DEF Linked
<1> QED
  BY <1>2, <1>3

\* The reply taken was the only ACK, and the only reply but behind a header or a file.
LEMMA ReplyAlone ==
  ASSUME Typed, Linked, NEW reply, SenderReads(reply)
  PROVE  /\ \A i \in 1..Len(back') : back'[i] # "ACK"
         /\ ~(back' # <<>> /\ back'[1] = "ACK")
         /\ Live(receiver) => receiver.at # "begin" /\ line = <<>> /\ Len(back') <= 1
         /\ Live(receiver) /\ (sender.can \/ reply \in {"NAK", "WANT_CRC"}
                               \/ sender.at \notin {"header", "eot"}) => back' = <<>>
<1>1. /\ Live(sender) /\ back # <<>> /\ reply = back[1] /\ Len(back) \in Nat /\ Len(back) >= 1
      /\ Len(back') = Len(back) - 1
      /\ \A i \in 1..Len(back') : back'[i] = back[i + 1]
      /\ Len(back) = 1 => back' = <<>>
      /\ back' \in Seq(Replies)
  BY ReplyTaken
<1>2. \A i \in 1..Len(back') : back'[i] # "ACK"
  <2> SUFFICES ASSUME NEW i \in 1..Len(back') PROVE back'[i] # "ACK"
    OBVIOUS
  <2>1. i + 1 \in 2..Len(back) /\ back'[i] = back[i + 1]
    BY <1>1
  <2> QED
    BY <1>1, <2>1 DEF Linked, SenderInStep
<1>3. back' # <<>> => 1 \in 1..Len(back')
  BY <1>1, EmptySeq
<1>4. Live(receiver) => receiver.at # "begin" /\ line = <<>> /\ Len(back) <= 2
  BY <1>1 DEF Linked, Together
<1>5. ASSUME Live(receiver), sender.can \/ reply \in {"NAK", "WANT_CRC"}
                             \/ sender.at \notin {"header", "eot"}
      PROVE  back' = <<>>
  <2>1. Len(back) # 2
    BY <1>1, <1>5 DEF Linked, Together
  <2> QED
    BY <1>1, <1>4, <1>5, <2>1
<1> QED
  BY <1>1, <1>2, <1>3, <1>4, <1>5

\* A sender that has taken a reply and writes nothing.
LEMMA SenderWaits ==
  ASSUME Typed, Linked, NEW reply, SenderReads(reply), UNCHANGED line, SenderInStep',
         Live(receiver) => Where'
  PROVE  Linked'
<1>1. /\ Live(sender) /\ UNCHANGED <<protocol, receiver, written>> /\ back' \in Seq(Replies)
  BY ReplyTaken
<1>2. Live(receiver) => receiver.at # "begin" /\ line = <<>> /\ Len(back') <= 1
  BY ReplyAlone
<1>3. FilesInStep'
  BY <1>1 DEF Linked, FilesInStep, InOrder, Full, Complete, Live
<1>4. LineInStep'
  BY <1>1 DEF Linked, LineInStep, Fits, Full, Live
<1>5. Live(receiver)' => Len(back') # 2
  BY <1>1, <1>2 DEF Live
<1>6. Together'
  BY <1>1, <1>2, <1>5 DEF Together, Live
<1> QED
  BY <1>3, <1>4, <1>6 DEF Linked

\* The next round of a loop.
LEMMA NextTryLinked ==
  ASSUME Typed, Linked, NEW reply, SenderReads(reply), NextTry, sender.at # "want",
         sender.can \/ sender.at = "start" \/ reply \in {"NAK", "WANT_CRC"}
  PROVE  Linked'
<1>1. /\ Live(sender) /\ back # <<>> /\ UNCHANGED <<protocol, receiver, written>>
  BY ReplyTaken
<1>2. /\ \A i \in 2..Len(back') : back'[i] # "ACK"
      /\ ~(back' # <<>> /\ back'[1] = "ACK")
      /\ Live(receiver) => back' = <<>>
  BY ReplyAlone
<1>3. CASE sender.tries + 1 = Retries
  <2>1. sender' = [sender EXCEPT !.at = "failed"] /\ line' = line
    BY <1>3 DEF NextTry, Send, Typed, PlacedSender, Senders
  <2>2. sender'.at = "failed"
    BY <2>1 DEF Typed, PlacedSender, Senders
  <2> QED
    BY <1>1, <2>1, <2>2, SenderEnds DEF Live, Final
<1>4. CASE sender.tries + 1 # Retries
  <2>n. PICK s : s = [sender EXCEPT !.tries = @ + 1, !.can = FALSE]
    OBVIOUS
  <2>1. /\ s.at = sender.at /\ s.file = sender.file /\ s.block = sender.block /\ ~s.can
        /\ Send(s)
    BY <1>4, <2>n DEF NextTry, Typed, PlacedSender, Senders
  <2>2. sender' = s
    BY <2>1 DEF Send
  <2>3. SenderInStep'
    BY <1>1, <1>2, <2>1, <2>2 DEF Linked, SenderInStep, Full, Complete, Live
  <2>4. Live(receiver) => Where'
    BY <1>1, <1>2, <2>1, <2>2 DEF Linked, Together, Where
  <2>5. CASE sender.at \in {"header", "data", "eot", "null"}
    <3>1. PlacedSender(s)
      <4>1. sender.tries + 1 \in 0..Retries /\ sender.tries + 1 < Retries /\ sender \in Senders
        BY <1>1, <1>4, ConstantFacts DEF Typed, PlacedSender, Senders
      <4>2. s \in Senders /\ s.tries = sender.tries + 1
        BY <2>n, <4>1 DEF Senders
      <4> QED
        BY <2>1, <4>1, <4>2 DEF Typed, PlacedSender, Live
    <3> QED
      BY <1>1, <1>2, <2>1, <2>3, <2>4, <2>5, <3>1, SenderSends
  <2>6. CASE sender.at = "start"
    <3>1. line' = line
      BY <2>1, <2>6 DEF Send
    <3> QED
      BY <2>3, <2>4, <3>1, SenderWaits
  <2> QED
    BY <1>1, <2>5, <2>6 DEF Live, Final, Typed, PlacedSender, Senders
<1> QED
  BY <1>3, <1>4

\* The sender gives up on a reply.
LEMMA SendFailedLinked ==
  ASSUME Typed, Linked, Send([sender EXCEPT !.at = "failed"]),
         UNCHANGED <<protocol, receiver, written>>
  PROVE  Linked'
<1>1. sender' = [sender EXCEPT !.at = "failed"] /\ line' = line /\ sender'.at = "failed"
  BY DEF Send, Typed, PlacedSender, Senders
<1> QED
  BY <1>1, SenderEnds DEF Live, Final

\* Data, or the end of the file, behind a file's blocks that were written.
LEMMA SendDataLinked ==
  ASSUME Typed, Linked, NEW reply, SenderReads(reply), NEW s, PlacedSender(s),
         s.file = sender.file, s.file \in FileSet, ~s.can,
         NEW block \in Nat, block >= 1, Len(written[s.file]) = block - 1,
         Live(receiver) => back' = <<>> /\ receiver.at = "data" /\ receiver.file = s.file,
         SendData(s, block)
  PROVE  Linked'
<1>1. /\ Live(sender) /\ back # <<>> /\ UNCHANGED <<protocol, receiver, written>>
  BY ReplyTaken
<1>2. /\ \A i \in 2..Len(back') : back'[i] # "ACK"
      /\ ~(back' # <<>> /\ back'[1] = "ACK")
  BY ReplyAlone
<1>p. PICK place \in {"eot", "data"} :
        place = IF block > Files[s.file] THEN "eot" ELSE "data"
  OBVIOUS
<1>n. PICK new : new = [s EXCEPT !.at = place, !.block = block, !.tries = 0]
  OBVIOUS
<1>s. s \in Senders /\ 0 \in 0..Retries /\ s.file <= Len(Files) /\ Files[s.file] \in Nat
  BY ConstantFacts DEF PlacedSender, FileSet
<1>3. /\ new \in Senders /\ new.at = place /\ new.file = s.file /\ new.tries = 0
      /\ new.block = block /\ ~new.can
  BY <1>n, <1>s DEF Senders
<1>4. PlacedSender(new)
  BY <1>3, <1>s, ConstantFacts DEF PlacedSender, Live, Final
<1>5. Send(new) /\ sender' = new
  BY <1>p, <1>n DEF SendData, Send
<1>6. Len(written[s.file]) <= Files[s.file]
  BY DEF Linked, FilesInStep
<1>7. SenderInStep'
  <2>1. /\ \A f \in FileSet : /\ f < new.file => Full(f)
                              /\ f > new.file => written[f] = <<>>
    BY <1>1, <1>3 DEF Linked, SenderInStep
  <2>2. /\ block > Files[s.file] => Full(s.file)
        /\ ~(block > Files[s.file]) => block <= Files[s.file]
    BY <1>6, <1>s DEF Full
  <2> QED
    BY <1>1, <1>2, <1>3, <1>5, <1>p, <2>1, <2>2 DEF SenderInStep, Full, Live, Final
<1>8. Live(receiver) => Where'
  BY <1>1, <1>2, <1>3, <1>5 DEF Where
<1> QED
  BY <1>1, <1>3, <1>4, <1>5, <1>7, <1>8, SenderSends

-----------------------------------------------------------------------------
(* The sides in step: the sender's steps *)

\* ReadCan: a second byte is awaited in the same place.
LEMMA ReadCanLinked == Typed /\ Linked /\ ReadCan => Linked'
<1> SUFFICES ASSUME Typed, Linked, ReadCan PROVE Linked'
  OBVIOUS
<1>1. SenderReads("CAN") /\ UNCHANGED line /\ sender' = [sender EXCEPT !.can = TRUE]
  BY DEF ReadCan
<1>2. /\ Live(sender) /\ back # <<>> /\ UNCHANGED <<protocol, receiver, written>>
      /\ back' \in Seq(Replies)
  BY <1>1, ReplyTaken
<1>3. /\ \A i \in 1..Len(back') : back'[i] # "ACK"
      /\ ~(back' # <<>> /\ back'[1] = "ACK")
  BY <1>1, ReplyAlone
<1>4. sender'.at = sender.at /\ sender'.file = sender.file /\ sender'.block = sender.block
  BY <1>1 DEF Typed, PlacedSender, Senders
<1>5. \A i \in 2..Len(back') : back'[i] # "ACK"
  BY <1>3
<1>6. SenderInStep'
  BY <1>2, <1>3, <1>4, <1>5 DEF Linked, SenderInStep, Full, Complete, Live
<1>7. Live(receiver) => Where'
  BY <1>2, <1>3, <1>4 DEF Linked, Together, Where
<1> QED
  BY <1>1, <1>6, <1>7, SenderWaits

\* ReadAfterCan: the next round, or the end.
LEMMA ReadAfterCanLinked == Typed /\ Linked /\ ReadAfterCan => Linked'
<1> SUFFICES ASSUME Typed, Linked, ReadAfterCan PROVE Linked'
  OBVIOUS
<1>1. PICK reply \in Replies :
        /\ SenderReads(reply)
        /\ \/ Send([sender EXCEPT !.at = "failed"])
           \/ sender.at # "want" /\ NextTry
  BY DEF ReadAfterCan
<1>2. sender.can /\ UNCHANGED <<protocol, receiver, written>>
  BY <1>1, ReplyTaken DEF ReadAfterCan
<1> QED
  BY <1>1, <1>2, NextTryLinked, SendFailedLinked

\* WaitForStart: the first block, a header, or the next round.
LEMMA WaitForStartLinked == Typed /\ Linked /\ WaitForStart => Linked'
<1> SUFFICES ASSUME Typed, Linked, WaitForStart PROVE Linked'
  OBVIOUS
<1>1. PICK reply \in Replies \ {"CAN"} :
        /\ SenderReads(reply)
        /\ \/ /\ reply \in {"WANT_CRC", "NAK"}
              /\ IF protocol = "xmodem"
                 THEN SendData([sender EXCEPT !.crc = reply = "WANT_CRC"], 1)
                 ELSE Send([sender EXCEPT
                        !.at = IF sender.file > Len(Files) THEN "null" ELSE "header",
                        !.tries = 0])
           \/ NextTry
  BY DEF WaitForStart
<1>2. /\ Live(sender) /\ back # <<>> /\ UNCHANGED <<protocol, receiver, written>>
      /\ back' \in Seq(Replies)
  BY <1>1, ReplyTaken
<1>3. /\ \A i \in 1..Len(back') : back'[i] # "ACK"
      /\ ~(back' # <<>> /\ back'[1] = "ACK")
      /\ Live(receiver) => receiver.at # "begin"
  BY <1>1, ReplyAlone
<1>4. /\ sender.at = "start" /\ ~sender.can /\ sender \in Senders
      /\ protocol \in {"xmodem", "ymodem"} /\ 0 \in 0..Retries
  BY XYModemAssumption, ConstantFacts DEF WaitForStart, Typed, PlacedSender, TypeOK
<1>8. Live(receiver) => back' = <<>>
  BY <1>1, <1>4, ReplyAlone
<1>5. CASE NextTry
  BY <1>1, <1>4, <1>5, NextTryLinked
<1>6. CASE protocol = "xmodem" /\ SendData([sender EXCEPT !.crc = reply = "WANT_CRC"], 1)
  <2>c. PICK crc \in BOOLEAN : crc = (reply = "WANT_CRC")
    OBVIOUS
  <2>n. PICK s : s = [sender EXCEPT !.crc = crc]
    OBVIOUS
  <2>1. /\ s \in Senders /\ s.at = sender.at /\ s.file = sender.file /\ s.tries = sender.tries
        /\ s.can = sender.can
    BY <1>4, <2>n DEF Senders
  <2>2. PlacedSender(s) /\ s.file = 1
    BY <1>6, <2>1 DEF Typed, PlacedSender, Live
  <2>3. SendData(s, 1)
    BY <1>6, <2>c, <2>n
  <2>4. written[s.file] = <<>> /\ s.file \in FileSet
    BY <1>2, <1>4, <2>1, <2>2, ConstantFacts DEF Linked, SenderInStep
  <2>5. Len(written[s.file]) = 1 - 1
    BY <2>4
  <2>6. Live(receiver) => back' = <<>> /\ receiver.at = "data" /\ receiver.file = s.file
    BY <1>2, <1>3, <1>4, <1>6, <1>8, <2>2 DEF Linked, Together, Where, Typed, PlacedReceiver
  <2> QED
    BY <1>1, <1>4, <2>1, <2>2, <2>3, <2>4, <2>5, <2>6, SendDataLinked
<1>7. CASE protocol = "ymodem" /\ Send([sender EXCEPT
                        !.at = IF sender.file > Len(Files) THEN "null" ELSE "header",
                        !.tries = 0])
  <2>p. PICK place \in {"null", "header"} :
          place = IF sender.file > Len(Files) THEN "null" ELSE "header"
    OBVIOUS
  <2>n. PICK s : s = [sender EXCEPT !.at = place, !.tries = 0]
    OBVIOUS
  <2>1. /\ s \in Senders /\ s.at = place /\ s.file = sender.file /\ s.tries = 0
        /\ s.can = sender.can
    BY <1>4, <2>n DEF Senders
  <2>f. sender.file \in 1..(Len(Files) + 1) /\ Len(Files) \in Nat
    BY <1>4, ConstantFacts DEF Senders
  <2>2. PlacedSender(s)
    BY <1>4, <1>7, <2>p, <2>1, <2>f, ConstantFacts DEF PlacedSender, Live, Final
  <2>3. Send(s) /\ sender' = s
    BY <1>7, <2>p, <2>n DEF Send
  <2>4. \A i \in 2..Len(back') : back'[i] # "ACK"
    BY <1>3
  <2>5. /\ place = "header" => s.file <= Len(Files)
        /\ place = "null" => s.file = Len(Files) + 1
    BY <2>p, <2>1, <2>f
  <2>6. SenderInStep'
    BY <1>2, <1>4, <2>1, <2>3, <2>4, <2>5 DEF Linked, SenderInStep, Full, Live, Final
  <2>7. Live(receiver) => receiver.at = "header" /\ receiver.file = sender.file - 1
    BY <1>2, <1>3, <1>4, <1>7 DEF Linked, Together, Where
  <2>8. Live(receiver) => Where'
    BY <1>2, <1>8, <2>1, <2>3, <2>5, <2>7, ConstantFacts DEF Where
  <2> QED
    BY <1>2, <1>4, <1>8, <2>1, <2>2, <2>3, <2>6, <2>8, SenderSends
<1> QED
  BY <1>1, <1>4, <1>5, <1>6, <1>7

\* SendBlock: what follows an ACK, the next round, or the end.
LEMMA SendBlockLinked == Typed /\ Linked /\ SendBlock => Linked'
<1> SUFFICES ASSUME Typed, Linked, SendBlock PROVE Linked'
  OBVIOUS
<1>1. PICK reply \in Replies \ {"CAN"} :
        /\ SenderReads(reply)
        /\ \/ reply = "ACK" /\ Acknowledged
           \/ reply \in {"NAK", "WANT_CRC"} /\ NextTry
           \/ Send([sender EXCEPT !.at = "failed"])
  BY DEF SendBlock
<1>2. /\ Live(sender) /\ back # <<>> /\ UNCHANGED <<protocol, receiver, written>>
      /\ back' \in Seq(Replies) /\ reply = back[1]
  BY <1>1, ReplyTaken
<1>3. \A i \in 1..Len(back') : back'[i] # "ACK"
  BY <1>1, ReplyAlone
<1>4. /\ sender.at \in {"header", "data", "null"} /\ ~sender.can /\ sender \in Senders
      /\ protocol \in {"xmodem", "ymodem"}
  BY XYModemAssumption DEF SendBlock, Typed, PlacedSender, TypeOK
<1>5. CASE reply \in {"NAK", "WANT_CRC"} /\ NextTry
  BY <1>1, <1>4, <1>5, NextTryLinked
<1>6. CASE Send([sender EXCEPT !.at = "failed"])
  BY <1>2, <1>6, SendFailedLinked
<1>7. CASE reply = "ACK" /\ Acknowledged /\ sender.at = "header"
  <2>1. Send([sender EXCEPT !.at = "want"])
    BY <1>7 DEF Acknowledged
  <2>2. sender' = [sender EXCEPT !.at = "want"] /\ line' = line
    BY <1>4, <2>1 DEF Send, Senders
  <2>3. sender'.at = "want" /\ sender'.file = sender.file
    BY <1>4, <2>2 DEF Senders
  <2>4. \A i \in 2..Len(back') : back'[i] # "ACK"
    BY <1>3
  <2>5. SenderInStep'
    BY <1>2, <1>7, <2>3, <2>4 DEF Linked, SenderInStep, Full, Live, Final
  <2>6. Live(receiver) => Where'
    BY <1>2, <1>7, <2>3 DEF Linked, Together, Where
  <2> QED
    BY <1>1, <2>2, <2>5, <2>6, SenderWaits
<1>8. CASE reply = "ACK" /\ Acknowledged /\ sender.at = "data"
  <2>1. SendData(sender, sender.block + 1)
    BY <1>8 DEF Acknowledged
  <2>2. Len(written[sender.file]) = sender.block
    BY <1>2, <1>8 DEF Linked, SenderInStep
  <2>3. PlacedSender(sender) /\ sender.file \in FileSet /\ sender.block \in Nat
    BY <1>4, <1>8, ConstantFacts DEF Typed, PlacedSender, Senders, FileSet
  <2>b. PICK next \in Nat : next = sender.block + 1
    BY <2>3
  <2>4. next >= 1 /\ Len(written[sender.file]) = next - 1 /\ SendData(sender, next)
    BY <2>1, <2>2, <2>3, <2>b
  <2>5. Live(receiver) => back' = <<>>
    BY <1>1, <1>8, ReplyAlone
  <2>6. Live(receiver) => receiver.at = "data" /\ receiver.file = sender.file
    BY <1>2, <1>8 DEF Linked, Together, Where
  <2>s. PICK s : s = sender
    OBVIOUS
  <2>7. /\ PlacedSender(s) /\ s.file = sender.file /\ s.file \in FileSet /\ ~s.can
        /\ Len(written[s.file]) = next - 1 /\ SendData(s, next)
        /\ Live(receiver) => back' = <<>> /\ receiver.at = "data" /\ receiver.file = s.file
    BY <1>4, <2>3, <2>4, <2>5, <2>6, <2>s
  <2> QED
    BY <1>1, <2>4, <2>7, SendDataLinked
<1>9. CASE reply = "ACK" /\ Acknowledged /\ sender.at = "null"
  <2>1. Send([sender EXCEPT !.at = "ok"])
    BY <1>9 DEF Acknowledged
  <2>2. sender' = [sender EXCEPT !.at = "ok"] /\ line' = line /\ sender'.at = "ok"
    BY <1>4, <2>1 DEF Send, Senders
  <2>3. protocol = "ymodem" /\ sender.file = Len(Files) + 1
    BY <1>2, <1>4, <1>9 DEF Linked, SenderInStep, Typed, PlacedSender
  <2>4. \A f \in FileSet : Full(f)
    BY <1>2, <2>3, ConstantFacts DEF Linked, SenderInStep, FileSet
  <2>5. Complete
    BY <2>3, <2>4 DEF Complete, Full, FileSet
  <2> QED
    BY <1>2, <2>2, <2>5, SenderEnds DEF Live, Final
<1> QED
  BY <1>1, <1>4, <1>5, <1>6, <1>7, <1>8, <1>9

\* ExpectWantCrc: the data, or the end.
LEMMA ExpectWantCrcLinked == Typed /\ Linked /\ ExpectWantCrc => Linked'
<1> SUFFICES ASSUME Typed, Linked, ExpectWantCrc PROVE Linked'
  OBVIOUS
<1>1. PICK reply \in Replies \ {"CAN"} :
        /\ SenderReads(reply)
        /\ SendData(sender, 1) \/ Send([sender EXCEPT !.at = "failed"])
  BY DEF ExpectWantCrc
<1>2. Live(sender) /\ back # <<>> /\ UNCHANGED <<protocol, receiver, written>>
  BY <1>1, ReplyTaken
<1>3. CASE Send([sender EXCEPT !.at = "failed"])
  BY <1>2, <1>3, SendFailedLinked
<1>4. CASE SendData(sender, 1)
  <2>s. PICK s : s = sender
    OBVIOUS
  <2>1. /\ PlacedSender(s) /\ s.file \in FileSet /\ ~s.can /\ s.at = "want"
    BY <2>s, ConstantFacts DEF ExpectWantCrc, Typed, PlacedSender, Senders, FileSet
  <2>2. written[s.file] = <<>>
    BY <1>2, <2>s, <2>1 DEF Linked, SenderInStep
  <2>3. Len(written[s.file]) = 1 - 1 /\ SendData(s, 1) /\ s.file = sender.file
    BY <1>4, <2>2, <2>s
  <2>4. Live(receiver) => back' = <<>>
    BY <1>1, <2>s, <2>1, ReplyAlone
  <2>5. Live(receiver) => receiver.at = "data" /\ receiver.file = s.file
    BY <1>2, <2>s, <2>1 DEF Linked, Together, Where
  <2> QED
    BY <1>1, <2>1, <2>3, <2>4, <2>5, SendDataLinked
<1> QED
  BY <1>1, <1>3, <1>4

\* FinishSend: XMODEM is done, YMODEM goes on to the next file.
LEMMA FinishSendLinked == Typed /\ Linked /\ FinishSend => Linked'
<1> SUFFICES ASSUME Typed, Linked, FinishSend PROVE Linked'
  OBVIOUS
<1>1. PICK reply \in Replies \ {"CAN"} :
        /\ SenderReads(reply)
        /\ \/ reply = "ACK" /\ protocol = "xmodem" /\ Send([sender EXCEPT !.at = "ok"])
           \/ /\ reply = "ACK" /\ protocol = "ymodem"
              /\ Send([sender EXCEPT !.at = "start", !.file = @ + 1, !.tries = 0])
           \/ reply = "NAK" /\ NextTry
           \/ Send([sender EXCEPT !.at = "failed"])
  BY DEF FinishSend
<1>2. /\ Live(sender) /\ back # <<>> /\ UNCHANGED <<protocol, receiver, written>>
      /\ back' \in Seq(Replies) /\ reply = back[1]
  BY <1>1, ReplyTaken
<1>3. \A i \in 1..Len(back') : back'[i] # "ACK"
  BY <1>1, ReplyAlone
<1>4. /\ sender.at = "eot" /\ ~sender.can /\ sender \in Senders /\ sender.file \in FileSet
      /\ Full(sender.file)
  BY <1>2, ConstantFacts DEF FinishSend, Typed, PlacedSender, Senders, FileSet, Linked, SenderInStep
<1>5. CASE reply = "NAK" /\ NextTry
  BY <1>1, <1>4, <1>5, NextTryLinked
<1>6. CASE Send([sender EXCEPT !.at = "failed"])
  BY <1>2, <1>6, SendFailedLinked
<1>7. CASE protocol = "xmodem" /\ Send([sender EXCEPT !.at = "ok"])
  <2>1. sender' = [sender EXCEPT !.at = "ok"] /\ line' = line /\ sender'.at = "ok"
    BY <1>4, <1>7 DEF Send, Senders
  <2>2. sender.file = 1
    BY <1>7 DEF Typed, PlacedSender
  <2>3. Complete
    BY <1>4, <1>7, <2>2 DEF Complete, Full
  <2> QED
    BY <1>2, <2>1, <2>3, SenderEnds DEF Live, Final
<1>8. CASE /\ reply = "ACK" /\ protocol = "ymodem"
           /\ Send([sender EXCEPT !.at = "start", !.file = @ + 1, !.tries = 0])
  <2>1. /\ sender' = [sender EXCEPT !.at = "start", !.file = @ + 1, !.tries = 0]
        /\ line' = line
    BY <1>4, <1>8 DEF Send, Senders
  <2>2. sender'.at = "start" /\ sender'.file = sender.file + 1 /\ sender.file \in Nat
    BY <1>4, <2>1 DEF Senders
  <2>3. \A i \in 2..Len(back') : back'[i] # "ACK"
    BY <1>3
  <2>4. \A f \in FileSet : /\ f < sender.file + 1 => Full(f)
                           /\ f > sender.file => written[f] = <<>>
    BY <1>2, <1>4, <2>2 DEF Linked, SenderInStep, FileSet
  <2>5. SenderInStep'
    <3>1. \A f \in FileSet : /\ f < sender'.file => Full(f)'
                             /\ f > sender'.file => written'[f] = <<>>
                             /\ f = sender'.file => written'[f] = <<>>
      BY <1>2, <2>2, <2>4 DEF FileSet, Full
    <3> QED
      BY <2>2, <2>3, <3>1 DEF SenderInStep
  <2>6. Live(receiver) => receiver.at = "header" /\ receiver.file = sender.file
    BY <1>2, <1>4, <1>8 DEF Linked, Together, Where
  <2>7. Live(receiver) => Where'
    BY <1>2, <1>8, <2>2, <2>6 DEF Where
  <2> QED
    BY <1>1, <2>1, <2>5, <2>7, SenderWaits
<1> QED
  BY <1>1, <1>5, <1>6, <1>7, <1>8

\* The sender's timeout and its local errors end it.
LEMMA SenderFailsLinked == Typed /\ Linked /\ (SenderTimeout \/ SenderError) => Linked'
<1> SUFFICES ASSUME Typed, Linked, SenderTimeout \/ SenderError PROVE Linked'
  OBVIOUS
<1>1. /\ sender' = [sender EXCEPT !.at = "failed"]
      /\ UNCHANGED <<protocol, receiver, line, written>>
  BY DEF SenderTimeout, SenderError
<1>2. sender'.at = "failed"
  BY <1>1 DEF Typed, PlacedSender, Senders
<1> QED
  BY <1>1, <1>2, SenderEnds DEF Live, Final

\* What a queue holds when its sender stops: its first elements, then the cancellation.
LEMMA CutFields ==
  ASSUME NEW S, NEW s \in Seq(S), NEW n \in 0..Len(s), NEW x
  PROVE  /\ Len(SubSeq(s, 1, n) \o <<x, x>>) = n + 2
         /\ \A i \in 1..n : (SubSeq(s, 1, n) \o <<x, x>>)[i] = s[i]
         /\ \A i \in (n + 1)..(n + 2) : (SubSeq(s, 1, n) \o <<x, x>>)[i] = x
<1>1. \A i \in 1..n : s[i] \in S
  BY ElementOfSeq
<1>2. SubSeq(s, 1, n) \in Seq(S) /\ Len(SubSeq(s, 1, n)) = n
      /\ \A i \in 1..n : SubSeq(s, 1, n)[i] = s[i]
  BY <1>1, SubSeqProperties
<1>3. <<x, x>> \in Seq({x}) /\ Len(<<x, x>>) = 2 /\ \A i \in 1..2 : <<x, x>>[i] = x
  OBVIOUS
<1>t. PICK t : t = SubSeq(s, 1, n)
  OBVIOUS
<1>4. t \in Seq(S \union {x}) /\ <<x, x>> \in Seq(S \union {x}) /\ Len(t) = n
  BY <1>2, <1>t
<1>5. /\ Len(t \o <<x, x>>) = n + 2
      /\ \A i \in 1..(n + 2) : (t \o <<x, x>>)[i] = IF i <= n THEN t[i] ELSE <<x, x>>[i - n]
  BY <1>3, <1>4, ConcatProperties
<1>6. \A i \in (n + 1)..(n + 2) : i - n \in 1..2 /\ ~(i <= n) /\ i \in 1..(n + 2)
  OBVIOUS
<1>7. \A i \in (n + 1)..(n + 2) : (t \o <<x, x>>)[i] = x
  BY <1>3, <1>5, <1>6
<1>8. \A i \in 1..n : (t \o <<x, x>>)[i] = s[i]
  BY <1>2, <1>t, <1>5
<1> QED
  BY <1>5, <1>7, <1>8, <1>t

\* StopSender: the cancellation follows what has left.
LEMMA StopSenderLinked == Typed /\ Linked /\ StopSender => Linked'
<1> SUFFICES ASSUME Typed, Linked, StopSender PROVE Linked'
  OBVIOUS
<1>1. /\ sender' = [sender EXCEPT !.at = "failed"] /\ Live(sender)
      /\ UNCHANGED <<protocol, receiver, back, written>>
  BY DEF StopSender, Live
<1>2. sender'.at = "failed"
  BY <1>1 DEF Typed, PlacedSender, Senders
<1>3. PICK n \in 0..Len(line) : line' = SubSeq(line, 1, n) \o <<Byte("can"), Byte("can")>>
  BY DEF StopSender
<1>4. line \in Seq(Frames)
  BY DEF Typed, TypeOK
<1>5. /\ Len(line') = n + 2 /\ \A i \in 1..n : line'[i] = line[i]
      /\ \A i \in (n + 1)..(n + 2) : line'[i] = Byte("can")
  BY <1>3, <1>4, CutFields
<1>6. FilesInStep'
  BY <1>1 DEF Linked, FilesInStep, InOrder, Full, Complete, Live
<1>7. LineInStep'
  <2> SUFFICES ASSUME Live(receiver) PROVE LineInStep'
    BY <1>1 DEF LineInStep, Live
  <2>1. ~receiver.can /\ \A i \in 2..Len(line) : line[i].kind = "can"
    BY <1>1 DEF Linked, LineInStep
  <2>2. Byte("can").kind = "can"
    BY DEF Byte
  <2>3. \A i \in 2..Len(line') : line'[i].kind = "can"
    <3> SUFFICES ASSUME NEW i \in 2..Len(line') PROVE line'[i].kind = "can"
      OBVIOUS
    <3>1. CASE i <= n
      BY <1>4, <1>5, <2>1, <3>1
    <3>2. CASE ~(i <= n)
      BY <1>4, <1>5, <2>2, <3>2
    <3> QED
      BY <3>1, <3>2
  <2>4. CASE n = 0
    <3>1. line'[1].kind = "can"
      BY <1>5, <2>2, <2>4
    <3> QED
      BY <1>1, <1>2, <2>1, <2>3, <3>1 DEF LineInStep, Live, Final
  <2>5. CASE n # 0
    <3>1. line'[1] = line[1] /\ line # <<>>
      BY <1>4, <1>5, <2>5
    <3>2. /\ line[1].kind # "noise"
          /\ line[1].kind = "good" => Fits(line[1])
          /\ line[1].kind = "eot" /\ receiver.at \in {"data", "eot"} => Full(receiver.file)
          /\ receiver.at = "begin" => line[1].kind = "can"
      BY <3>1 DEF Linked, LineInStep
    <3>3. /\ line[1].kind = "good" => (Fits(line[1]))'
          /\ line[1].kind = "eot" /\ receiver.at \in {"data", "eot"} => (Full(receiver.file))'
      BY <1>1, <3>1, <3>2 DEF Fits, Full
    <3> QED
      BY <1>1, <1>2, <2>1, <2>3, <3>1, <3>2, <3>3 DEF LineInStep, Live, Final
  <2> QED
    BY <2>4, <2>5
<1>8. SenderInStep' /\ Together'
  BY <1>2 DEF SenderInStep, Together, Live, Final
<1> QED
  BY <1>6, <1>7, <1>8 DEF Linked

-----------------------------------------------------------------------------
(* The sides in step: the receiver's steps *)

\* The receiver takes the one frame under way; behind it are only the bytes of a
\* cancellation, and nothing while the sender has not returned.
LEMMA FrameTaken ==
  ASSUME Typed, Linked, Live(receiver), ReceiverReads
  PROVE  /\ line # <<>> /\ Head(line) = line[1] /\ line[1] \in Frames /\ line[1].kind # "noise"
         /\ line' \in Seq(Frames)
         /\ \A i \in 1..Len(line') : line'[i].kind = "can"
         /\ Live(sender) => /\ line' = <<>> /\ back = <<>> /\ ~sender.can /\ ~receiver.can
                            /\ sender.at \in {"header", "data", "eot", "null"} /\ Where
                            /\ line[1] \in {Frame(sender), [Frame(sender) EXCEPT !.kind = "bad"]}
                            /\ line[1].kind # "can"
         /\ UNCHANGED <<protocol, sender, disturbed, faults>>
<1>1. line \in Seq(Frames) /\ line # <<>>
  BY DEF Typed, TypeOK, ReceiverReads
<1>2. /\ Tail(line) \in Seq(Frames) /\ Len(Tail(line)) = Len(line) - 1
      /\ \A i \in 1..Len(Tail(line)) : Tail(line)[i] = line[i + 1]
  BY <1>1, HeadTailProperties
<1>3. Len(line) \in Nat /\ Len(line) >= 1 /\ Head(line) = line[1] /\ line[1] \in Frames
  BY <1>1, EmptySeq, ElementOfSeq
<1>4. line[1].kind # "noise" /\ \A i \in 2..Len(line) : line[i].kind = "can"
  BY <1>1 DEF Linked, LineInStep
<1>5. line' = Tail(line) /\ UNCHANGED <<protocol, sender, disturbed, faults>>
  BY <1>3, <1>4 DEF ReceiverReads
<1>6. \A i \in 1..Len(line') : line'[i].kind = "can"
  <2> SUFFICES ASSUME NEW i \in 1..Len(line') PROVE line'[i].kind = "can"
    OBVIOUS
  <2>1. i + 1 \in 2..Len(line) /\ line'[i] = line[i + 1]
    BY <1>2, <1>3, <1>5
  <2> QED
    BY <1>4, <2>1
<1>7. ASSUME Live(sender)
      PROVE  /\ line' = <<>> /\ back = <<>> /\ ~sender.can /\ ~receiver.can
             /\ sender.at \in {"header", "data", "eot", "null"} /\ Where
             /\ line[1] \in {Frame(sender), [Frame(sender) EXCEPT !.kind = "bad"]}
             /\ line[1].kind # "can"
  <2>1. Len(line) = 1 /\ back = <<>> /\ ~sender.can /\ Where
        /\ sender.at \in {"header", "data", "eot", "null"}
        /\ line[1] \in {Frame(sender), [Frame(sender) EXCEPT !.kind = "bad"]}
    BY <1>1, <1>7 DEF Linked, Together
  <2>2. line' = <<>>
    BY <1>2, <1>5, <2>1, EmptySeq
  <2>3. ~receiver.can /\ line[1].kind # "can"
    BY <1>3, <1>7 DEF Linked, LineInStep
  <2> QED
    BY <2>1, <2>2, <2>3
<1> QED
  BY <1>1, <1>2, <1>3, <1>4, <1>5, <1>6, <1>7

\* What is seen of a frame that is not noise.
LEMMA SeenFields ==
  ASSUME NEW frame, frame.kind # "noise", NEW kind \in Seen(frame)
  PROVE  /\ kind = "good" => frame.kind = "good"
         /\ kind = "eot" => frame.kind = "eot"
         /\ kind = "can" => frame.kind = "can"
BY DEF Seen

\* What was good or the end of a file is what the sender wrote last.
LEMMA SentLast ==
  ASSUME Typed, NEW frame, frame \in {Frame(sender), [Frame(sender) EXCEPT !.kind = "bad"]},
         sender.at \in {"header", "data", "eot", "null"}
  PROVE  /\ frame.kind \in {"good", "eot"} => frame = Frame(sender)
         /\ frame.kind = "eot" => sender.at = "eot"
         /\ frame.kind = "good" =>
               /\ sender.at # "eot" /\ frame.number = BlockNumber(sender)
               /\ frame.file = IF sender.at = "null" THEN 0 ELSE sender.file
               /\ frame.index = IF sender.at = "data" THEN sender.block ELSE 0
<1>1. Frame(sender) \in Frames
  BY FrameTyped DEF Typed
<1>2. [Frame(sender) EXCEPT !.kind = "bad"].kind = "bad"
  BY <1>1 DEF Frames
<1>3. frame.kind \in {"good", "eot"} => frame = Frame(sender)
  BY <1>2
<1> QED
  BY <1>3, FrameFields

\* What the receiver writes is all that is under way to a sender that has not returned.
LEMMA Replied ==
  ASSUME Typed, NEW r, NEW bytes \in Seq(Replies), Reply(r, bytes)
  PROVE  /\ receiver' = r
         /\ back = <<>> => back' = bytes
         /\ bytes = <<>> => back' = back
<1>1. back \in Seq(Replies)
  BY DEF Typed, TypeOK
<1>2. back = <<>> => back \o bytes = bytes
  OBVIOUS
<1>3. bytes = <<>> => back \o bytes = back
  BY <1>1
<1> QED
  BY <1>2, <1>3 DEF Reply

\* The sender while the receiver writes replies and no blocks.
LEMMA SenderStays ==
  ASSUME Linked, UNCHANGED <<protocol, sender, written>>,
         Live(sender) =>
            /\ \A i \in 2..Len(back') : back'[i] # "ACK"
            /\ sender.at = "data" /\ back' # <<>> /\ back'[1] = "ACK" =>
                  Len(written[sender.file]) = sender.block
  PROVE  SenderInStep'
BY DEF Linked, SenderInStep, Full, Complete, Live

\* A receiver that returns leaves everything as it is.
LEMMA ReceiverEnds ==
  ASSUME Linked, ~Live(receiver)', (receiver.at = "ok")' => Complete, SenderInStep',
         UNCHANGED <<protocol, sender, written>>
  PROVE  Linked'
<1>1. FilesInStep'
  BY DEF Linked, FilesInStep, InOrder, Full, Complete, Live
<1>2. LineInStep' /\ Together'
  BY DEF LineInStep, Together
<1> QED
  BY <1>1, <1>2 DEF Linked

\* A receiver that has taken a frame, or asks on an empty line, and goes on.
LEMMA ReceiverGoesOn ==
  ASSUME Typed, Linked, UNCHANGED <<protocol, sender>>, Live(receiver)', receiver'.at # "begin",
         \A i \in 1..Len(line') : line'[i].kind = "can", line' \in Seq(Frames),
         Live(sender) => /\ line' = <<>> /\ ~receiver'.can /\ Where' /\ Len(back') <= 2
                         /\ Len(back') = 2 =>
                               /\ back'[2] = "WANT_CRC" /\ back'[1] \notin {"NAK", "WANT_CRC"}
                               /\ sender.at \in {"header", "eot"} /\ ~sender.can,
         FilesInStep', SenderInStep'
  PROVE  Linked'
<1>1. line' # <<>> => line'[1].kind = "can" /\ ~Live(sender)
  BY EmptySeq
<1>2. \A i \in 2..Len(line') : line'[i].kind = "can"
  OBVIOUS
<1>3. Live(sender)' => line' = <<>> /\ ~receiver'.can
  BY DEF Live
<1>4. LineInStep'
  BY <1>1, <1>2, <1>3 DEF LineInStep
<1>5. Together'
  BY <1>3 DEF Together, Live
<1> QED
  BY <1>4, <1>5 DEF Linked

\* The receiver gives up, with or without a reply.
LEMMA ReplyFailedLinked ==
  ASSUME Typed, Linked, Reply([receiver EXCEPT !.at = "failed"], <<>>),
         UNCHANGED <<protocol, sender, written>>
  PROVE  Linked'
<1>1. receiver' = [receiver EXCEPT !.at = "failed"] /\ back' = back
  BY Replied, RepliesTyped
<1>2. receiver'.at = "failed"
  BY <1>1 DEF Typed, PlacedReceiver, Receivers
<1>3. SenderInStep'
  BY <1>1, SenderStays DEF Linked, SenderInStep
<1> QED
  BY <1>2, <1>3, ReceiverEnds DEF Live, Final

\* Begin asks for the first block.
LEMMA BeginLinked == Typed /\ Linked /\ Begin => Linked'
<1> SUFFICES ASSUME Typed, Linked, Begin PROVE Linked'
  OBVIOUS
<1>p. PICK place \in {"data", "header"} :
        place = IF protocol = "xmodem" THEN "data" ELSE "header"
  OBVIOUS
<1>f. PICK file \in 0..Len(Files) : file = IF protocol = "xmodem" THEN 1 ELSE 0
  BY ConstantFacts
<1>b. PICK byte \in {"WANT_CRC", "NAK"} : byte = IF receiver.crc THEN "WANT_CRC" ELSE "NAK"
  OBVIOUS
<1>n. PICK r : r = [receiver EXCEPT !.at = place, !.file = file]
  OBVIOUS
<1>1. /\ r.at = place /\ r.file = file /\ r.expected = receiver.expected /\ (r.can => receiver.can)
  BY <1>n DEF Typed, PlacedReceiver, Receivers
<1>2. /\ Reply(r, <<byte>>) /\ UNCHANGED <<protocol, sender, line, written>>
      /\ receiver.at = "begin" /\ Live(receiver)
  BY <1>n, <1>p, <1>f, <1>b DEF Begin, Live, Final
<1>3. receiver' = r /\ (back = <<>> => back' = <<byte>>)
  BY <1>2, <1>b, Replied, RepliesTyped
<1>4. /\ receiver.file = 0 /\ receiver.expected = 1
      /\ \A f \in FileSet : written[f] = <<>>
  BY <1>2 DEF Linked, FilesInStep, FileSet
<1>5. Live(sender) => line = <<>> /\ back = <<>> /\ sender.at = "start" /\ ~receiver.can /\ Where
  BY <1>2 DEF Linked, Together, LineInStep
<1>6. \A i \in 1..Len(line') : line'[i].kind = "can"
  <2>1. line \in Seq(Frames)
    BY DEF Typed, TypeOK
  <2>2. /\ \A i \in 2..Len(line) : line[i].kind = "can"
        /\ line # <<>> => line[1].kind = "can"
    BY <1>2 DEF Linked, LineInStep
  <2>3. \A i \in 1..Len(line) : line # <<>> /\ (i = 1 \/ i \in 2..Len(line))
    BY <2>1
  <2> QED
    BY <1>2, <2>2, <2>3
<1>7. 1 = (0 + 1) % Modulus
  BY ConstantFacts
<1>8. FilesInStep'
  <2>1. InOrder' /\ (\A f \in FileSet : Len(written'[f]) <= Files[f])
    BY <1>2 DEF Linked, FilesInStep, InOrder
  <2>2. \A f \in FileSet : /\ f < r.file => Full(f)'
                           /\ f > r.file => written'[f] = <<>>
    BY <1>1, <1>2, <1>4, <1>f DEF FileSet
  <2>3. r.at = "data" => r.file = 1
    BY <1>1, <1>p, <1>f
  <2>4. r.at = "data" => r.file # 0 /\ r.expected = (Len(written'[r.file]) + 1) % Modulus
    <3>1. Len(written'[1]) = 0
      BY <1>2, <1>4, ConstantFacts
    <3>2. r.expected = (Len(written'[1]) + 1) % Modulus
      BY <1>1, <1>4, <1>7, <3>1
    <3> QED
      BY <2>3, <3>2
  <2>5. r.at = "header" => r.file = 0
    BY <1>1, <1>p, <1>f
  <2> QED
    BY <1>1, <1>3, <2>1, <2>2, <2>4, <2>5 DEF FilesInStep, Final
<1>9. Live(sender) => Len(back') = 1 /\ back'[1] # "ACK"
  BY <1>3, <1>5
<1>10. SenderInStep'
  BY <1>2, <1>9, SenderStays
<1>11. Live(sender) => Where'
  <2> SUFFICES ASSUME Live(sender) PROVE Where'
    OBVIOUS
  <2>1. sender.at = "start" /\ Where
    BY <1>5
  <2> QED
    BY <1>1, <1>2, <1>3, <1>4, <1>f, <1>p, <2>1 DEF Where
<1>12. Live(receiver)' /\ receiver'.at # "begin" /\ (receiver'.can => receiver.can)
  BY <1>1, <1>3 DEF Live, Final
<1>13. line' \in Seq(Frames)
  BY <1>2 DEF Typed, TypeOK
<1>14. Live(sender) => line' = <<>> /\ ~receiver'.can /\ Where'
  BY <1>2, <1>5, <1>11, <1>12
<1>15. ASSUME Live(sender) PROVE Len(back') <= 2 /\ Len(back') # 2
  <2>1. back' = <<byte>>
    BY <1>3, <1>5, <1>15
  <2> QED
    BY <2>1
<1> QED
  BY <1>2, <1>6, <1>8, <1>10, <1>12, <1>13, <1>14, <1>15, ReceiverGoesOn

\* A header that fits: the next file, or the end of the batch.
LEMMA ParseHeaderLinked ==
  ASSUME Typed, Linked, receiver.at = "header", ReceiverReads, UNCHANGED written,
         NEW frame, frame = line[1], frame.kind = "good", ParseHeader(frame)
  PROVE  Linked'
<1>1. /\ frame \in Frames /\ line # <<>>
      /\ line' \in Seq(Frames)
      /\ \A i \in 1..Len(line') : line'[i].kind = "can"
      /\ Live(sender) => /\ line' = <<>> /\ back = <<>> /\ ~sender.can /\ ~receiver.can
                         /\ sender.at \in {"header", "data", "eot", "null"} /\ Where
                         /\ frame \in {Frame(sender), [Frame(sender) EXCEPT !.kind = "bad"]}
      /\ UNCHANGED <<protocol, sender, written>>
  BY FrameTaken DEF Live, Final
<1>2. Live(receiver)
  BY DEF Live, Final
<1>3. /\ frame.index = 0
      /\ frame.file = 0 => receiver.file = Len(Files)
      /\ frame.file # 0 => frame.file = receiver.file + 1
  BY <1>1, <1>2 DEF Linked, LineInStep, Fits
<1>4. protocol = "ymodem"
  BY XYModemAssumption DEF Typed, PlacedReceiver, TypeOK
<1>5. /\ \A f \in FileSet : /\ f < receiver.file => Full(f)
                            /\ f > receiver.file => written[f] = <<>>
      /\ receiver.file # 0 => Full(receiver.file)
  BY <1>2 DEF Linked, FilesInStep
<1>6. Live(sender) => sender.at # "data"
  BY <1>1 DEF Where
<1>7. CASE frame.file = 0
  <2>1. Reply([receiver EXCEPT !.at = "ok"], <<"ACK">>)
    BY <1>3, <1>7 DEF ParseHeader
  <2>2. /\ receiver' = [receiver EXCEPT !.at = "ok"]
        /\ back = <<>> => back' = <<"ACK">>
    BY <2>1, Replied, RepliesTyped
  <2>3. receiver'.at = "ok"
    BY <2>2 DEF Typed, PlacedReceiver, Receivers
  <2>4. Complete
    BY <1>3, <1>4, <1>5, <1>7, ConstantFacts DEF Complete, Full, FileSet
  <2>5. SenderInStep'
    BY <1>1, <1>6, <2>2, SenderStays
  <2> QED
    BY <1>1, <2>3, <2>4, <2>5, ReceiverEnds DEF Live, Final
<1>8. CASE frame.file # 0
  <2>n. PICK r : r = [receiver EXCEPT !.at = "data", !.expected = 1, !.retries = 0,
                                      !.file = frame.file]
    OBVIOUS
  <2>1. Reply(r, <<"ACK", "WANT_CRC">>)
    BY <1>3, <1>8, <2>n DEF ParseHeader
  <2>2. r.at = "data" /\ r.expected = 1 /\ r.file = frame.file /\ (r.can => receiver.can)
    BY <2>n DEF Typed, PlacedReceiver, Receivers
  <2>3. /\ receiver' = r
        /\ back = <<>> => back' = <<"ACK", "WANT_CRC">>
    BY <2>1, Replied, RepliesTyped
  <2>4. Live(sender) => Len(back') = 2 /\ back'[2] = "WANT_CRC" /\ back'[1] = "ACK"
    BY <1>1, <2>3
  <2>5. SenderInStep'
    <3>1. ASSUME Live(sender), NEW i \in 2..Len(back') PROVE back'[i] # "ACK"
      <4>1. Len(back') = 2 /\ back'[2] = "WANT_CRC"
        BY <2>4, <3>1
      <4>2. i = 2
        BY <4>1
      <4> QED
        BY <4>1, <4>2
    <3> QED
      BY <1>1, <1>6, <3>1, SenderStays
  <2>6. frame.file \in FileSet /\ receiver.file \in Nat
    BY <1>1, <1>8, ConstantFacts DEF Frames, FileSet, Typed, PlacedReceiver, Receivers
  <2>7. FilesInStep'
    <3>1. InOrder' /\ (\A f \in FileSet : Len(written'[f]) <= Files[f])
      BY <1>1 DEF Linked, FilesInStep, InOrder
    <3>2. \A f \in FileSet : /\ f < r.file => Full(f)'
                             /\ f > r.file => written'[f] = <<>>
      <4> SUFFICES ASSUME NEW f \in FileSet PROVE /\ f < r.file => Full(f)
                                                  /\ f > r.file => written[f] = <<>>
        BY <1>1 DEF Full
      <4>1. f \in Nat /\ r.file = receiver.file + 1
        BY <1>3, <1>8, <2>2 DEF FileSet
      <4>2. f < r.file => f < receiver.file \/ (f = receiver.file /\ receiver.file # 0)
        BY <2>6, <4>1 DEF FileSet
      <4>3. f > r.file => f > receiver.file
        BY <2>6, <4>1
      <4> QED
        BY <1>5, <4>2, <4>3
    <3>3. written'[r.file] = <<>>
      BY <1>1, <1>3, <1>5, <1>8, <2>2, <2>6
    <3>4. (Len(written'[r.file]) + 1) % Modulus = 1
      BY <3>3, ConstantFacts
    <3> QED
      BY <1>8, <2>2, <2>3, <3>1, <3>2, <3>4 DEF FilesInStep, Final
  <2>8. Live(sender) => sender.at = "header" /\ frame.file = sender.file
    BY <1>1, <1>6, <1>8, SentLast
  <2>9. Live(sender) => Where'
    BY <1>1, <2>2, <2>3, <2>8 DEF Where
  <2>10. Live(receiver)' /\ receiver'.at # "begin" /\ (receiver'.can => receiver.can)
    BY <2>2, <2>3 DEF Live, Final
  <2>11. Live(sender) =>
            /\ line' = <<>> /\ ~receiver'.can /\ Where'
            /\ sender.at \in {"header", "eot"} /\ ~sender.can
    BY <1>1, <2>8, <2>9, <2>10
  <2>12. ASSUME Live(sender)
         PROVE  Len(back') <= 2 /\ back'[2] = "WANT_CRC" /\ back'[1] \notin {"NAK", "WANT_CRC"}
    <3>1. back' = <<"ACK", "WANT_CRC">>
      BY <1>1, <2>3, <2>12
    <3> QED
      BY <3>1
  <2> QED
    BY <1>1, <2>5, <2>7, <2>10, <2>11, <2>12, ReceiverGoesOn
<1> QED
  BY <1>7, <1>8

\* ReadHeader: a frame that is no header ends the transfer.
LEMMA ReadHeaderLinked == Typed /\ Linked /\ ReadHeader => Linked'
<1> SUFFICES ASSUME Typed, Linked, ReadHeader PROVE Linked'
  OBVIOUS
<1>1. receiver.at = "header" /\ ReceiverReads /\ UNCHANGED written /\ Live(receiver)
  BY DEF ReadHeader, Live, Final
<1>2. /\ line # <<>> /\ Head(line) = line[1] /\ line[1].kind # "noise"
      /\ UNCHANGED <<protocol, sender>>
  BY <1>1, FrameTaken
<1>3. line[1].kind = "good" => line[1].number = 0
  BY <1>1, <1>2 DEF Linked, LineInStep, Fits
<1>4. \/ Reply([receiver EXCEPT !.at = "failed"], <<>>)
      \/ line[1].kind = "good" /\ ParseHeader(line[1])
  <2>1. PICK kind \in Seen(line[1]) :
          CASE kind # "good" -> Reply([receiver EXCEPT !.at = "failed"], <<>>)
            [] kind = "good" /\ line[1].number # 0 -> Reply(receiver, <<"NAK", "WANT_CRC">>)
            [] OTHER -> ParseHeader(line[1])
    BY <1>2 DEF ReadHeader
  <2>2. kind = "good" => line[1].kind = "good"
    BY <1>2, SeenFields
  <2> QED
    BY <1>3, <2>1, <2>2
<1>f. PICK frame : frame = line[1]
  OBVIOUS
<1>5. CASE Reply([receiver EXCEPT !.at = "failed"], <<>>)
  BY <1>1, <1>2, <1>5, ReplyFailedLinked
<1>6. CASE line[1].kind = "good" /\ ParseHeader(line[1])
  BY <1>1, <1>6, <1>f, ParseHeaderLinked
<1> QED
  BY <1>4, <1>5, <1>6

\* The first blocks of file f.
Counts(s, f) == s = [i \in 1..Len(s) |-> <<f, i>>]

\* A file in order stays so when its next block is written.
LEMMA AppendInOrder ==
  ASSUME NEW S, NEW s \in Seq(S), NEW f, Counts(s, f),
         NEW t, t = Append(s, <<f, Len(s) + 1>>)
  PROVE  Counts(t, f) /\ Len(t) = Len(s) + 1
<1>x. PICK x : x = <<f, Len(s) + 1>>
  OBVIOUS
<1>1. s \in Seq(S \union {x}) /\ x \in S \union {x}
  OBVIOUS
<1>2. /\ t \in Seq(S \union {x}) /\ Len(t) = Len(s) + 1 /\ t[Len(t)] = x
      /\ \A i \in 1..Len(s) : t[i] = s[i]
  BY <1>1, <1>x, AppendProperties
<1>3. Len(s) \in Nat
  OBVIOUS
<1>4. \A i \in 1..Len(t) : t[i] = <<f, i>>
  <2> SUFFICES ASSUME NEW i \in 1..Len(t) PROVE t[i] = <<f, i>>
    OBVIOUS
  <2>1. CASE i \in 1..Len(s)
    BY <1>2, <2>1 DEF Counts
  <2>2. CASE i = Len(s) + 1
    BY <1>2, <1>x, <2>2
  <2> QED
    BY <1>2, <1>3, <2>1, <2>2
<1>5. t = [i \in 1..Len(t) |-> t[i]]
  BY <1>2
<1> QED
  BY <1>2, <1>4, <1>5 DEF Counts

\* The next block is written and acknowledged.
LEMMA StoreNext ==
  ASSUME Typed, Linked, receiver.at = "data", ReceiverReads,
         NEW frame, frame = line[1], frame.kind = "good", Store(frame),
         frame.index = Len(written[receiver.file]) + 1
  PROVE  Linked'
<1>1. /\ frame \in Frames /\ line # <<>>
      /\ line' \in Seq(Frames)
      /\ \A i \in 1..Len(line') : line'[i].kind = "can"
      /\ Live(sender) => /\ line' = <<>> /\ back = <<>> /\ ~sender.can /\ ~receiver.can
                         /\ sender.at \in {"header", "data", "eot", "null"} /\ Where
                         /\ frame \in {Frame(sender), [Frame(sender) EXCEPT !.kind = "bad"]}
      /\ UNCHANGED <<protocol, sender>> /\ Live(receiver)
  BY FrameTaken DEF Live, Final
<1>f. PICK f : f = receiver.file
  OBVIOUS
<1>w. PICK w : w = Len(written[f])
  OBVIOUS
<1>2. /\ f # 0 /\ receiver.expected = (w + 1) % Modulus
      /\ \A g \in FileSet : /\ g < f => Full(g)
                            /\ g > f => written[g] = <<>>
  BY <1>1, <1>f, <1>w DEF Linked, FilesInStep
<1>3. /\ frame.file = f /\ frame.index <= Files[f] /\ frame.number = frame.index % Modulus
  BY <1>1, <1>f DEF Linked, LineInStep, Fits
<1>4. /\ f \in FileSet /\ Files[f] \in Nat /\ written[f] \in Seq((0..Len(Files)) \X Nat)
      /\ written \in [FileSet -> Seq((0..Len(Files)) \X Nat)] /\ w \in Nat
      /\ receiver \in Receivers
  BY <1>2, <1>f, <1>w, ConstantFacts, SMTT(30) DEF Typed, TypeOK, PlacedReceiver, Receivers, FileSet
<1>5. frame.index = w + 1 /\ frame.number = receiver.expected /\ w < Files[f]
  BY <1>2, <1>3, <1>4, <1>f, <1>w
<1>t. PICK t : t = Append(written[f], <<f, w + 1>>)
  OBVIOUS
<1>6. written' = [written EXCEPT ![f] = t]
  <2>1. ~(receiver.file = 0 \/ (protocol = "ymodem" /\ Len(written[receiver.file]) >= Files[receiver.file]))
    BY <1>2, <1>4, <1>5, <1>f, <1>w
  <2>2. written' = [written EXCEPT ![receiver.file] = Append(@, <<frame.file, frame.index>>)]
    BY <1>5, <2>1 DEF Store
  <2> QED
    BY <1>3, <1>4, <1>5, <1>f, <1>t, <2>2
<1>7. Counts(t, f) /\ Len(t) = w + 1
  <2>1. PICK s \in Seq((0..Len(Files)) \X Nat) : s = written[f]
    BY <1>4
  <2>2. Counts(s, f)
    BY <1>4, <2>1 DEF Linked, FilesInStep, InOrder, Counts
  <2>3. Len(s) = w /\ t = Append(s, <<f, Len(s) + 1>>)
    BY <1>w, <1>t, <2>1
  <2> QED
    BY <2>2, <2>3, AppendInOrder
<1>8. written'[f] = t /\ \A g \in FileSet : g # f => written'[g] = written[g]
  BY <1>4, <1>6
<1>e. PICK next : next = (receiver.expected + 1) % Modulus
  OBVIOUS
<1>n. PICK r : r = [receiver EXCEPT !.expected = next, !.retries = 0]
  OBVIOUS
<1>9. Reply(r, <<"ACK">>)
  BY <1>5, <1>e, <1>n DEF Store
<1>10. /\ r.at = "data" /\ r.file = f /\ r.expected = next /\ (r.can => receiver.can)
  BY <1>4, <1>f, <1>n DEF Receivers
<1>11. receiver' = r /\ (back = <<>> => back' = <<"ACK">>)
  BY <1>9, Replied, RepliesTyped
<1>12. next = ((w + 1) + 1) % Modulus
  <2>1. PICK n \in Nat : n = w + 1
    BY <1>4
  <2>2. ((n % Modulus) + 1) % Modulus = (n + 1) % Modulus
    BY NumberNext
  <2> QED
    BY <1>2, <1>e, <2>1, <2>2
<1>13. FilesInStep'
  <2>1. InOrder'
    <3>1. \A g \in FileSet : written'[g] = [i \in 1..Len(written'[g]) |-> <<g, i>>]
      BY <1>7, <1>8 DEF Linked, FilesInStep, InOrder, Counts
    <3> QED
      BY <3>1 DEF InOrder
  <2>2. \A g \in FileSet : Len(written'[g]) <= Files[g]
    <3> SUFFICES ASSUME NEW g \in FileSet PROVE Len(written'[g]) <= Files[g]
      OBVIOUS
    <3>1. CASE g = f
      BY <1>4, <1>5, <1>7, <1>8, <3>1
    <3>2. CASE g # f
      BY <1>8, <3>2 DEF Linked, FilesInStep
    <3> QED
      BY <3>1, <3>2
  <2>3. \A g \in FileSet : /\ g < r.file => Full(g)'
                           /\ g > r.file => written'[g] = <<>>
    BY <1>2, <1>4, <1>8, <1>10 DEF Full, FileSet
  <2>4. r.expected = (Len(written'[r.file]) + 1) % Modulus
    BY <1>7, <1>8, <1>10, <1>12
  <2> QED
    BY <1>2, <1>10, <1>11, <2>1, <2>2, <2>3, <2>4 DEF FilesInStep, Final
<1>14. sender.at # "ok"
  <2>1. ~Full(f)
    BY <1>4, <1>5, <1>w DEF Full
  <2>2. protocol = "xmodem" => f = 1
    BY <1>f DEF Typed, PlacedReceiver
  <2>3. ~Complete
    BY <1>4, <2>1, <2>2 DEF Complete, Full, FileSet
  <2> QED
    BY <2>3 DEF Linked, SenderInStep
<1>15. Live(sender) => sender.at = "data" /\ sender.block = w + 1 /\ sender.file = f
  <2> SUFFICES ASSUME Live(sender) PROVE sender.at = "data" /\ sender.block = w + 1 /\ sender.file = f
    OBVIOUS
  <2>1. frame.index = IF sender.at = "data" THEN sender.block ELSE 0
    BY <1>1, SentLast
  <2>2. sender.at = "data"
    BY <1>4, <1>5, <2>1
  <2>3. frame.file = sender.file
    BY <1>1, <2>2, SentLast
  <2> QED
    BY <1>3, <1>5, <2>1, <2>2, <2>3
<1>16. SenderInStep'
  <2>1. CASE ~Live(sender)
    BY <1>1, <1>14, <2>1 DEF SenderInStep, Live
  <2>2. CASE Live(sender)
    <3>1. back' = <<"ACK">>
      BY <1>1, <1>11, <2>2
    <3>2. \A i \in 2..Len(back') : back'[i] # "ACK"
      BY <3>1
    <3>3. /\ sender'.at = "data" /\ sender'.block = w + 1 /\ sender'.file = f
      BY <1>1, <1>15, <2>2
    <3>4. \A g \in FileSet : /\ g < f => Full(g)'
                             /\ g > f => written'[g] = <<>>
      BY <1>2, <1>4, <1>8 DEF Full, FileSet
    <3>5. Len(written'[f]) = w + 1 /\ w + 1 >= 1 /\ w + 1 <= Files[f]
      BY <1>4, <1>5, <1>7, <1>8
    <3> QED
      BY <3>2, <3>3, <3>4, <3>5 DEF SenderInStep
  <2> QED
    BY <2>1, <2>2
<1>17. Live(sender) => Where'
  BY <1>1, <1>10, <1>11, <1>15 DEF Where
<1>18. Live(receiver)' /\ receiver'.at # "begin" /\ (receiver'.can => receiver.can)
  BY <1>10, <1>11 DEF Live, Final
<1>19. ASSUME Live(sender) PROVE Len(back') <= 2 /\ Len(back') # 2
  <2>1. back' = <<"ACK">>
    BY <1>1, <1>11, <1>19
  <2> QED
    BY <2>1
<1> QED
  BY <1>1, <1>13, <1>16, <1>17, <1>18, <1>19, ReceiverGoesOn

\* The receiver answers and stays inside its file.
LEMMA ReceiverStays ==
  ASSUME Typed, Linked, receiver.at = "data", NEW r, NEW byte \in {"ACK", "NAK"},
         Reply(r, <<byte>>), r.at = "data", r.file = receiver.file,
         r.expected = receiver.expected, r.can => receiver.can,
         UNCHANGED <<protocol, sender, written>>,
         \A i \in 1..Len(line') : line'[i].kind = "can", line' \in Seq(Frames),
         Live(sender) =>
            /\ line' = <<>> /\ back = <<>>
            /\ byte = "ACK" =>
                  /\ sender.at # "eot"
                  /\ sender.at = "data" => Len(written[sender.file]) = sender.block
  PROVE  Linked'
<1>1. receiver' = r /\ (back = <<>> => back' = <<byte>>)
  BY Replied, RepliesTyped
<1>2. Live(receiver) /\ Live(receiver)' /\ receiver'.at # "begin"
  BY <1>1 DEF Live, Final
<1>3. FilesInStep'
  BY <1>1, <1>2 DEF Linked, FilesInStep, InOrder, Full, Live, Final
<1>4. ASSUME Live(sender)
      PROVE  /\ back' # <<>> /\ back'[1] = byte /\ Len(back') <= 2 /\ Len(back') # 2
             /\ \A i \in 2..Len(back') : back'[i] # "ACK"
  <2>1. back' = <<byte>>
    BY <1>1, <1>4
  <2> QED
    BY <2>1
<1>5. SenderInStep'
  BY <1>4, SenderStays
<1>6. ASSUME Live(sender) PROVE ~receiver'.can /\ Where'
  <2>1. Where /\ ~receiver.can
    BY <1>2, <1>6 DEF Linked, Together, LineInStep
  <2>2. back' # <<>> /\ back'[1] = byte
    BY <1>4, <1>6
  <2>3. sender.at = "eot" => byte # "ACK"
    BY <1>6
  <2> QED
    BY <1>1, <2>1, <2>2, <2>3 DEF Where
<1> QED
  BY <1>2, <1>3, <1>4, <1>5, <1>6, ReceiverGoesOn

\* A frame in doubt, or a timeout: refused, or the end.
LEMMA ReadErrorLinked ==
  ASSUME Typed, Linked, receiver.at = "data", ReadError,
         UNCHANGED <<protocol, sender, written>>,
         \A i \in 1..Len(line') : line'[i].kind = "can", line' \in Seq(Frames),
         Live(sender) => line' = <<>> /\ back = <<>>
  PROVE  Linked'
<1>1. CASE receiver.retries < Retries
  <2>n. PICK r : r = [receiver EXCEPT !.retries = @ + 1, !.can = FALSE]
    OBVIOUS
  <2>1. /\ r.at = "data" /\ r.file = receiver.file /\ r.expected = receiver.expected /\ ~r.can
    BY <2>n DEF Typed, PlacedReceiver, Receivers
  <2>2. Reply(r, <<"NAK">>)
    BY <1>1, <2>n DEF ReadError
  <2>3. PICK byte \in {"ACK", "NAK"} : byte = "NAK"
    OBVIOUS
  <2> QED
    BY <2>1, <2>2, <2>3, ReceiverStays
<1>2. CASE ~(receiver.retries < Retries)
  BY <1>2, ReplyFailedLinked DEF ReadError
<1> QED
  BY <1>1, <1>2

\* The block before the expected one is acknowledged again.
LEMMA StoreAgain ==
  ASSUME Typed, Linked, receiver.at = "data", ReceiverReads,
         NEW frame, frame = line[1], frame.kind = "good", Store(frame),
         frame.index = Len(written[receiver.file])
  PROVE  Linked'
<1>1. /\ frame \in Frames /\ line # <<>>
      /\ line' \in Seq(Frames)
      /\ \A i \in 1..Len(line') : line'[i].kind = "can"
      /\ Live(sender) => /\ line' = <<>> /\ back = <<>> /\ ~sender.can /\ ~receiver.can
                         /\ sender.at \in {"header", "data", "eot", "null"} /\ Where
                         /\ frame \in {Frame(sender), [Frame(sender) EXCEPT !.kind = "bad"]}
      /\ UNCHANGED <<protocol, sender>> /\ Live(receiver)
  BY FrameTaken DEF Live, Final
<1>2. /\ receiver.file # 0 /\ frame.number = frame.index % Modulus
      /\ receiver.expected = (Len(written[receiver.file]) + 1) % Modulus
  BY <1>1 DEF Linked, FilesInStep, LineInStep, Fits
<1>3. /\ receiver.file \in FileSet /\ written \in [FileSet -> Seq((0..Len(Files)) \X Nat)]
  BY <1>2, ConstantFacts DEF Typed, TypeOK, PlacedReceiver, Receivers, FileSet
<1>w. PICK w \in Nat : w = Len(written[receiver.file])
  BY <1>3
<1>4. /\ frame.number = w % Modulus /\ receiver.expected = (w + 1) % Modulus
  BY <1>2, <1>w
<1>5. frame.number # receiver.expected
  <2>1. 1 \in 1..(Modulus - 1)
    BY ConstantFacts
  <2> QED
    BY <1>4, <2>1, NumbersDiffer
<1>6. frame.number = (receiver.expected - 1) % Modulus
  BY <1>4, NumberBefore
<1>n. PICK r : r = [receiver EXCEPT !.retries = 0]
  OBVIOUS
<1>7. Reply(r, <<"ACK">>) /\ UNCHANGED written
  BY <1>5, <1>6, <1>n DEF Store
<1>8. /\ r.at = "data" /\ r.file = receiver.file /\ r.expected = receiver.expected
      /\ (r.can => receiver.can)
  BY <1>n DEF Typed, PlacedReceiver, Receivers
<1>9. ASSUME Live(sender)
      PROVE  /\ sender.at # "eot"
             /\ sender.at = "data" => Len(written[sender.file]) = sender.block
  <2>1. sender.at # "eot" /\ (sender.at = "data" => frame.index = sender.block)
    BY <1>1, <1>9, SentLast
  <2>2. sender.at = "data" => sender.file = receiver.file
    BY <1>1, <1>9 DEF Where
  <2> QED
    BY <2>1, <2>2
<1>10. PICK byte \in {"ACK", "NAK"} : byte = "ACK"
  OBVIOUS
<1> QED
  BY <1>1, <1>7, <1>8, <1>9, <1>10, ReceiverStays

\* The end of a file: XMODEM has it all, YMODEM asks again.
LEMMA EndOfFileLinked ==
  ASSUME Typed, Linked, receiver.at = "data", ReceiverReads, UNCHANGED written,
         line[1].kind = "eot", EndOfFile
  PROVE  Linked'
<1>1. /\ line # <<>> /\ line' \in Seq(Frames)
      /\ \A i \in 1..Len(line') : line'[i].kind = "can"
      /\ Live(sender) => /\ line' = <<>> /\ back = <<>> /\ ~sender.can /\ ~receiver.can
                         /\ sender.at \in {"header", "data", "eot", "null"} /\ Where
                         /\ line[1] \in {Frame(sender), [Frame(sender) EXCEPT !.kind = "bad"]}
      /\ UNCHANGED <<protocol, sender>> /\ Live(receiver)
  BY FrameTaken DEF Live, Final
<1>2. Full(receiver.file)
  BY <1>1 DEF Linked, LineInStep
<1>f. PICK frame : frame = line[1]
  OBVIOUS
<1>3. Live(sender) => sender.at = "eot"
  BY <1>1, <1>f, SentLast
<1>4. CASE protocol = "xmodem"
  <2>1. Reply([receiver EXCEPT !.at = "ok"], <<"ACK">>)
    BY <1>4 DEF EndOfFile
  <2>2. receiver' = [receiver EXCEPT !.at = "ok"] /\ (back = <<>> => back' = <<"ACK">>)
    BY <2>1, Replied, RepliesTyped
  <2>3. receiver'.at = "ok" /\ receiver.file = 1
    BY <1>4, <2>2 DEF Typed, PlacedReceiver, Receivers
  <2>4. Complete
    BY <1>2, <1>4, <2>3 DEF Complete, Full
  <2>5. ASSUME Live(sender), NEW i \in 2..Len(back') PROVE back'[i] # "ACK"
    <3>1. back' = <<"ACK">>
      BY <1>1, <2>2, <2>5
    <3> QED
      BY <2>5, <3>1
  <2>6. SenderInStep'
    BY <1>1, <1>3, <2>5, SenderStays
  <2> QED
    BY <1>1, <2>3, <2>4, <2>6, ReceiverEnds DEF Live, Final
<1>5. CASE protocol # "xmodem"
  <2>n. PICK r : r = [receiver EXCEPT !.at = "eot"]
    OBVIOUS
  <2>1. Reply(r, <<"NAK">>)
    BY <1>5, <2>n DEF EndOfFile
  <2>2. r.at = "eot" /\ r.file = receiver.file /\ (r.can => receiver.can)
    BY <2>n DEF Typed, PlacedReceiver, Receivers
  <2>3. receiver' = r /\ (back = <<>> => back' = <<"NAK">>)
    BY <2>1, Replied, RepliesTyped
  <2>4. Live(receiver)' /\ receiver'.at # "begin" /\ (receiver'.can => receiver.can)
    BY <2>2, <2>3 DEF Live, Final
  <2>5. FilesInStep'
    BY <1>1, <1>2, <2>2, <2>3 DEF Linked, FilesInStep, InOrder, Full, Live, Final
  <2>6. ASSUME Live(sender)
        PROVE  /\ back' = <<"NAK">> /\ Len(back') <= 2 /\ Len(back') # 2
               /\ back'[1] = "NAK" /\ \A i \in 2..Len(back') : back'[i] # "ACK"
    <3>1. back' = <<"NAK">>
      BY <1>1, <2>3, <2>6
    <3> QED
      BY <3>1
  <2>7. SenderInStep'
    BY <1>1, <1>3, <2>6, SenderStays
  <2>8. ASSUME Live(sender) PROVE Where'
    <3>1. sender.at = "eot" /\ Where /\ back'[1] = "NAK"
      BY <1>1, <1>3, <2>6, <2>8
    <3> QED
      BY <1>1, <2>2, <2>3, <3>1 DEF Where
  <2> QED
    BY <1>1, <2>4, <2>5, <2>6, <2>7, <2>8, ReceiverGoesOn
<1> QED
  BY <1>4, <1>5

\* A first CAN: its sender has returned.
LEMMA ReplyCanLinked ==
  ASSUME Typed, Linked, receiver.at \in {"data", "eot"}, ReceiverReads, UNCHANGED written,
         line[1].kind = "can", Reply([receiver EXCEPT !.can = TRUE], <<>>)
  PROVE  Linked'
<1>1. /\ line # <<>> /\ line' \in Seq(Frames)
      /\ \A i \in 1..Len(line') : line'[i].kind = "can"
      /\ Live(sender) => line[1].kind # "can"
      /\ UNCHANGED <<protocol, sender>> /\ Live(receiver)
  BY FrameTaken DEF Live, Final
<1>2. ~Live(sender)
  BY <1>1
<1>n. PICK r : r = [receiver EXCEPT !.can = TRUE]
  OBVIOUS
<1>3. /\ r.at = receiver.at /\ r.file = receiver.file /\ r.expected = receiver.expected
  BY <1>n DEF Typed, PlacedReceiver, Receivers
<1>4. receiver' = r
  BY <1>n, Replied, RepliesTyped
<1>5. FilesInStep'
  BY <1>1, <1>3, <1>4 DEF Linked, FilesInStep, InOrder, Full, Complete, Live
<1>6. SenderInStep'
  BY <1>1, <1>2, SenderStays
<1>7. Live(receiver)' /\ receiver'.at # "begin"
  BY <1>3, <1>4 DEF Live, Final
<1> QED
  BY <1>1, <1>2, <1>5, <1>6, <1>7, ReceiverGoesOn

\* ReadPacket: one round of receive_xymodem_blocks.
LEMMA ReadPacketLinked == Typed /\ Linked /\ ReadPacket => Linked'
<1> SUFFICES ASSUME Typed, Linked, ReadPacket PROVE Linked'
  OBVIOUS
<1>1. receiver.at = "data" /\ ReceiverReads /\ Live(receiver)
  BY DEF ReadPacket, Live, Final
<1>2. /\ line # <<>> /\ Head(line) = line[1] /\ line[1].kind # "noise"
      /\ line' \in Seq(Frames)
      /\ \A i \in 1..Len(line') : line'[i].kind = "can"
      /\ Live(sender) => line' = <<>> /\ back = <<>>
      /\ UNCHANGED <<protocol, sender>>
  BY <1>1, FrameTaken
<1>f. PICK frame : frame = line[1]
  OBVIOUS
<1>3. \/ frame.kind = "good" /\ Store(frame)
      \/ frame.kind = "eot" /\ EndOfFile /\ UNCHANGED written
      \/ frame.kind = "can" /\ Reply([receiver EXCEPT !.can = TRUE], <<>>) /\ UNCHANGED written
      \/ ReadError /\ UNCHANGED written
  <2>1. PICK kind \in Seen(frame) :
          CASE kind = "good" -> Store(frame)
            [] kind = "eot"  -> EndOfFile /\ UNCHANGED written
            [] kind = "can"  -> Reply([receiver EXCEPT !.can = TRUE], <<>>) /\ UNCHANGED written
            [] OTHER         -> ReadError /\ UNCHANGED written
    BY <1>2, <1>f DEF ReadPacket
  <2>2. /\ kind = "good" => frame.kind = "good"
        /\ kind = "eot" => frame.kind = "eot"
        /\ kind = "can" => frame.kind = "can"
    BY <1>2, <1>f, SeenFields
  <2> QED
    BY <2>1, <2>2
<1>4. CASE frame.kind = "good" /\ Store(frame)
  <2>1. frame.index \in {Len(written[receiver.file]), Len(written[receiver.file]) + 1}
    BY <1>1, <1>2, <1>4, <1>f DEF Linked, LineInStep, Fits
  <2> QED
    BY <1>1, <1>4, <1>f, <2>1, StoreNext, StoreAgain
<1>5. CASE frame.kind = "eot" /\ EndOfFile /\ UNCHANGED written
  BY <1>1, <1>5, <1>f, EndOfFileLinked
<1>6. CASE frame.kind = "can" /\ Reply([receiver EXCEPT !.can = TRUE], <<>>) /\ UNCHANGED written
  BY <1>1, <1>6, <1>f, ReplyCanLinked
<1>7. CASE ReadError /\ UNCHANGED written
  BY <1>1, <1>2, <1>7, ReadErrorLinked
<1> QED
  BY <1>3, <1>4, <1>5, <1>6, <1>7

\* ReadAfterFirstCan: the sender has stopped, and only its cancellation is left.
LEMMA ReadAfterFirstCanLinked == Typed /\ Linked /\ ReadAfterFirstCan => Linked'
<1> SUFFICES ASSUME Typed, Linked, ReadAfterFirstCan PROVE Linked'
  OBVIOUS
<1>1. /\ receiver.can /\ line # <<>> /\ Live(receiver) /\ line \in Seq(Frames)
      /\ UNCHANGED <<protocol, sender, written>>
  BY DEF ReadAfterFirstCan, Live, Final, Typed, TypeOK
<1>2. Head(line) = line[1] /\ 1 \in 1..Len(line)
  BY <1>1, EmptySeq
<1>3. Head(line).kind = "can"
  BY <1>1, <1>2 DEF Linked, LineInStep
<1>4. Reply([receiver EXCEPT !.at = "failed"], <<>>)
  BY <1>3 DEF ReadAfterFirstCan
<1> QED
  BY <1>1, <1>4, ReplyFailedLinked

\* ReadSecondEot: the file is complete, and the next header is asked for.
LEMMA ReadSecondEotLinked == Typed /\ Linked /\ ReadSecondEot => Linked'
<1> SUFFICES ASSUME Typed, Linked, ReadSecondEot PROVE Linked'
  OBVIOUS
<1>1. receiver.at = "eot" /\ ReceiverReads /\ Live(receiver) /\ UNCHANGED written
  BY DEF ReadSecondEot, Live, Final
<1>2. /\ line # <<>> /\ Head(line) = line[1] /\ line[1].kind # "noise"
      /\ line' \in Seq(Frames)
      /\ \A i \in 1..Len(line') : line'[i].kind = "can"
      /\ Live(sender) => /\ line' = <<>> /\ back = <<>> /\ ~sender.can /\ ~receiver.can
                         /\ sender.at \in {"header", "data", "eot", "null"} /\ Where
                         /\ line[1] \in {Frame(sender), [Frame(sender) EXCEPT !.kind = "bad"]}
      /\ UNCHANGED <<protocol, sender>>
  BY <1>1, FrameTaken
<1>3. receiver.file # 0 /\ Full(receiver.file)
  BY <1>1 DEF Linked, FilesInStep
<1>4. receiver.file \in FileSet /\ Files[receiver.file] \in Nat
  BY <1>3, ConstantFacts DEF Typed, PlacedReceiver, Receivers, FileSet
<1>5. \A short \in Short : ~short
  <2>1. ~(Len(written[receiver.file]) < Files[receiver.file])
    BY <1>3, <1>4 DEF Full
  <2> QED
    BY <1>3, <2>1, Zenon DEF Short
<1>f. PICK frame : frame = line[1]
  OBVIOUS
<1>6. \/ frame.kind = "eot" /\ Reply([receiver EXCEPT !.at = "header"], <<"ACK", "WANT_CRC">>)
      \/ frame.kind = "can" /\ Reply([receiver EXCEPT !.can = TRUE], <<>>)
      \/ Reply([receiver EXCEPT !.at = "failed"], <<>>)
  <2>1. PICK kind \in Seen(frame), short \in Short :
          CASE kind = "eot" /\ short ->
                  Reply([receiver EXCEPT !.at = "failed"], <<"ACK">>)
            [] kind = "eot" /\ ~short ->
                  Reply([receiver EXCEPT !.at = "header"], <<"ACK", "WANT_CRC">>)
            [] kind = "can" -> Reply([receiver EXCEPT !.can = TRUE], <<>>)
            [] OTHER        -> Reply([receiver EXCEPT !.at = "failed"], <<>>)
    BY <1>2, <1>f DEF ReadSecondEot
  <2>2. /\ kind = "eot" => frame.kind = "eot"
        /\ kind = "can" => frame.kind = "can"
    BY <1>2, <1>f, SeenFields
  <2>3. ~short
    BY <1>5
  <2> QED
    BY <2>1, <2>2, <2>3
<1>7. CASE Reply([receiver EXCEPT !.at = "failed"], <<>>)
  BY <1>1, <1>2, <1>7, ReplyFailedLinked
<1>8. CASE frame.kind = "can" /\ Reply([receiver EXCEPT !.can = TRUE], <<>>)
  BY <1>1, <1>8, <1>f, ReplyCanLinked
<1>9. CASE frame.kind = "eot" /\ Reply([receiver EXCEPT !.at = "header"], <<"ACK", "WANT_CRC">>)
  <2>n. PICK r : r = [receiver EXCEPT !.at = "header"]
    OBVIOUS
  <2>1. r.at = "header" /\ r.file = receiver.file /\ (r.can => receiver.can)
    BY <2>n DEF Typed, PlacedReceiver, Receivers
  <2>2. receiver' = r /\ (back = <<>> => back' = <<"ACK", "WANT_CRC">>)
    BY <1>9, <2>n, Replied, RepliesTyped
  <2>3. Live(receiver)' /\ receiver'.at # "begin" /\ (receiver'.can => receiver.can)
    BY <2>1, <2>2 DEF Live, Final
  <2>4. FilesInStep'
    BY <1>1, <1>3, <2>1, <2>2 DEF Linked, FilesInStep, InOrder, Full, Live, Final
  <2>5. ASSUME Live(sender)
        PROVE  /\ Len(back') <= 2 /\ back'[2] = "WANT_CRC"
               /\ back'[1] \notin {"NAK", "WANT_CRC"}
               /\ \A i \in 2..Len(back') : back'[i] # "ACK"
    <3>1. back' = <<"ACK", "WANT_CRC">>
      BY <1>2, <2>2, <2>5
    <3>2. Len(back') = 2 /\ back'[1] = "ACK" /\ back'[2] = "WANT_CRC" /\ back' \in Seq(Replies)
      BY <3>1, RepliesTyped
    <3>3. \A i \in 2..Len(back') : i = 2
      BY <3>2
    <3> QED
      BY <3>2, <3>3
  <2>6. Live(sender) => sender.at = "eot"
    BY <1>2, <1>9, <1>f, SentLast
  <2>7. SenderInStep'
    BY <1>1, <1>2, <2>5, <2>6, SenderStays
  <2>8. ASSUME Live(sender) PROVE Where'
    <3>1. sender.at = "eot" /\ Where
      BY <1>2, <2>6, <2>8
    <3> QED
      BY <1>1, <1>2, <2>1, <2>2, <3>1 DEF Where
  <2> QED
    BY <1>2, <2>3, <2>4, <2>5, <2>6, <2>7, <2>8, ReceiverGoesOn
<1> QED
  BY <1>6, <1>7, <1>8, <1>9

\* A timeout that comes too early takes the sides out of step; one that is due finds
\* nothing under way.
LEMMA ReceiverTimeoutLinked == Typed /\ Linked /\ ReceiverTimeout /\ InStep' => Linked'
<1> SUFFICES ASSUME Typed, Linked, ReceiverTimeout, InStep' PROVE Linked'
  OBVIOUS
<1>1. line = <<>> /\ (sender.at \in Final \/ back = <<>>)
  BY DEF ReceiverTimeout, TimeoutIn, Disturb, InStep
<1>2. UNCHANGED <<protocol, sender, written>> /\ line' = line
  BY DEF ReceiverTimeout
<1>3. \A i \in 1..Len(line') : line'[i].kind = "can"
  <2>1. line' = <<>>
    BY <1>1, <1>2
  <2>2. Len(line') = 0
    BY <2>1
  <2>3. 1..0 = {}
    OBVIOUS
  <2> QED
    BY <2>2, <2>3
<1>4. line' \in Seq(Frames) /\ (Live(sender) => line' = <<>> /\ back = <<>>)
  BY <1>1, <1>2 DEF Live
<1> QED
  BY <1>2, <1>3, <1>4, ReadErrorLinked, ReplyFailedLinked DEF ReceiverTimeout

\* ReceiverError ends the receiver.
LEMMA ReceiverErrorLinked == Typed /\ Linked /\ ReceiverError => Linked'
<1> SUFFICES ASSUME Typed, Linked, ReceiverError PROVE Linked'
  OBVIOUS
<1>1. /\ receiver' = [receiver EXCEPT !.at = "failed"]
      /\ UNCHANGED <<protocol, sender, line, back, written>>
  BY DEF ReceiverError
<1>2. receiver'.at = "failed"
  BY <1>1 DEF Typed, PlacedReceiver, Receivers
<1>3. SenderInStep'
  BY <1>1, SenderStays DEF Linked, SenderInStep
<1> QED
  BY <1>1, <1>2, <1>3, ReceiverEnds DEF Live, Final

\* StopReceiver: the cancellation follows what has left.
LEMMA StopReceiverLinked == Typed /\ Linked /\ StopReceiver => Linked'
<1> SUFFICES ASSUME Typed, Linked, StopReceiver PROVE Linked'
  OBVIOUS
<1>1. /\ receiver' = [receiver EXCEPT !.at = "failed"]
      /\ UNCHANGED <<protocol, sender, written>>
  BY DEF StopReceiver
<1>2. receiver'.at = "failed"
  BY <1>1 DEF Typed, PlacedReceiver, Receivers
<1>3. PICK n \in 0..Len(back) : back' = SubSeq(back, 1, n) \o <<"CAN", "CAN">>
  BY DEF StopReceiver
<1>4. back \in Seq(Replies)
  BY DEF Typed, TypeOK
<1>5. /\ Len(back') = n + 2 /\ \A i \in 1..n : back'[i] = back[i]
      /\ \A i \in (n + 1)..(n + 2) : back'[i] = "CAN"
  BY <1>3, <1>4, CutFields
<1>6. ASSUME Live(sender)
      PROVE  /\ \A i \in 2..Len(back') : back'[i] # "ACK"
             /\ sender.at = "data" /\ back' # <<>> /\ back'[1] = "ACK" =>
                   Len(written[sender.file]) = sender.block
  <2>1. \A i \in 2..Len(back) : back[i] # "ACK"
    BY <1>6 DEF Linked, SenderInStep
  <2>2. \A i \in 2..Len(back') : back'[i] # "ACK"
    <3> SUFFICES ASSUME NEW i \in 2..Len(back') PROVE back'[i] # "ACK"
      OBVIOUS
    <3>1. CASE i <= n
      BY <1>4, <1>5, <2>1, <3>1
    <3>2. CASE ~(i <= n)
      BY <1>4, <1>5, <3>2
    <3> QED
      BY <3>1, <3>2
  <2>3. back'[1] = "ACK" => back # <<>> /\ back[1] = "ACK"
    <3>1. CASE n = 0
      BY <1>5, <3>1
    <3>2. CASE n # 0
      BY <1>4, <1>5, <3>2
    <3> QED
      BY <3>1, <3>2
  <2> QED
    BY <1>6, <2>2, <2>3 DEF Linked, SenderInStep
<1>7. SenderInStep'
  BY <1>1, <1>6, SenderStays
<1> QED
  BY <1>1, <1>2, <1>7, ReceiverEnds DEF Live, Final

-----------------------------------------------------------------------------
(* The sides in step: the line, and the theorems *)

\* DamageBlock: a damaged block is still the one the sender wrote.
LEMMA DamageBlockLinked == Typed /\ Linked /\ DamageBlock /\ InStep' => Linked'
<1> SUFFICES ASSUME Typed, Linked, DamageBlock, InStep' PROVE Linked'
  OBVIOUS
<1>1. /\ line # <<>> /\ Head(line).kind = "good" /\ line \in Seq(Frames)
      /\ UNCHANGED <<protocol, sender, receiver, back, written>>
  BY DEF DamageBlock, Typed, TypeOK
<1>2. line' = <<[Head(line) EXCEPT !.kind = "bad"]>> \o Tail(line)
  BY DEF DamageBlock, Disturb, InStep
<1>3. /\ Tail(line) \in Seq(Frames) /\ Len(Tail(line)) = Len(line) - 1
      /\ \A i \in 1..Len(Tail(line)) : Tail(line)[i] = line[i + 1]
  BY <1>1, HeadTailProperties
<1>4. Len(line) \in Nat /\ Len(line) >= 1 /\ Head(line) = line[1] /\ line[1] \in Frames
  BY <1>1, EmptySeq, ElementOfSeq
<1>b. PICK frame : frame = [line[1] EXCEPT !.kind = "bad"]
  OBVIOUS
<1>5. frame \in Frames /\ frame.kind = "bad" /\ line' = <<frame>> \o Tail(line)
  BY <1>2, <1>4, <1>b DEF Frames
<1>6. /\ line'[1] = frame /\ Len(line') = Len(line) /\ line' # <<>>
      /\ \A i \in 2..Len(line) : line'[i] = line[i]
  <2>1. <<frame>> \in Seq(Frames) /\ Len(<<frame>>) = 1 /\ <<frame>>[1] = frame
    BY <1>5
  <2>t. PICK t \in Seq(Frames) : t = Tail(line)
    BY <1>3
  <2>2. /\ Len(<<frame>> \o t) = 1 + Len(t)
        /\ \A i \in 1..(1 + Len(t)) :
              (<<frame>> \o t)[i] = IF i <= 1 THEN <<frame>>[i] ELSE t[i - 1]
    BY <2>1, ConcatProperties
  <2>3. /\ Len(line') = Len(line) /\ line'[1] = frame
        /\ \A i \in 2..Len(line) : line'[i] = t[i - 1]
    BY <1>3, <1>4, <1>5, <2>1, <2>2, <2>t
  <2>4. \A i \in 2..Len(line) : t[i - 1] = line[i]
    BY <1>3, <1>4, <2>t
  <2>5. line' # <<>>
    BY <1>4, <2>3
  <2> QED
    BY <2>3, <2>4, <2>5
<1>7. FilesInStep'
  BY <1>1 DEF Linked, FilesInStep, InOrder, Full, Complete, Live
<1>8. SenderInStep'
  BY <1>1, SenderStays DEF Linked, SenderInStep
<1>9. LineInStep'
  <2> SUFFICES ASSUME Live(receiver) PROVE LineInStep'
    BY <1>1 DEF LineInStep, Live
  <2>1. /\ \A i \in 2..Len(line) : line[i].kind = "can"
        /\ Live(sender) => ~receiver.can /\ \A i \in 1..Len(line) : line[i].kind # "can"
        /\ receiver.can => \A i \in 1..Len(line) : line[i].kind = "can"
        /\ receiver.at = "begin" => line[1].kind = "can"
    BY <1>1 DEF Linked, LineInStep
  <2>2. ~receiver.can /\ receiver.at # "begin"
    BY <1>1, <1>4, <2>1
  <2>3. \A i \in 2..Len(line') : line'[i].kind = "can"
    BY <1>6, <2>1
  <2>4. ASSUME Live(sender) PROVE \A i \in 1..Len(line') : line'[i].kind # "can"
    <3>1. Len(line) = 1
      BY <1>1, <2>4 DEF Linked, Together
    <3>2. \A i \in 1..Len(line') : i = 1
      BY <1>6, <3>1
    <3> QED
      BY <1>5, <1>6, <3>2
  <2>5. receiver' = receiver /\ (Live(sender)' => Live(sender))
    BY <1>1 DEF Live
  <2> QED
    BY <1>5, <1>6, <2>2, <2>3, <2>4, <2>5 DEF LineInStep
<1>10. Together'
  <2> SUFFICES ASSUME Live(sender), Live(receiver) PROVE Together'
    BY <1>1 DEF Together, Live
  <2>1. /\ Len(line) = 1 /\ back = <<>> /\ ~sender.can /\ Where
        /\ sender.at \in {"header", "data", "eot", "null"}
        /\ line[1] \in {Frame(sender), [Frame(sender) EXCEPT !.kind = "bad"]}
        /\ receiver.at # "begin"
    BY <1>1 DEF Linked, Together
  <2>f. PICK old : old = line[1]
    OBVIOUS
  <2>2. line[1] = Frame(sender)
    BY <1>1, <1>4, <2>1, <2>f, SentLast
  <2>3. Where' /\ Frame(sender)' = Frame(sender)
    BY <1>1, <2>1 DEF Where, Frame, BlockNumber
  <2>4. line'[1] = [Frame(sender)' EXCEPT !.kind = "bad"]
    BY <1>6, <1>b, <2>2, <2>3
  <2>5. Len(back') = 0
    BY <1>1, <2>1
  <2> QED
    BY <1>1, <1>6, <2>1, <2>3, <2>4, <2>5 DEF Together
<1> QED
  BY <1>7, <1>8, <1>9, <1>10 DEF Linked

\* LoseFrame: only a cancellation is left behind a frame.
LEMMA LoseFrameLinked == Typed /\ Linked /\ LoseFrame => Linked'
<1> SUFFICES ASSUME Typed, Linked, LoseFrame PROVE Linked'
  OBVIOUS
<1>1. /\ line # <<>> /\ line' = Tail(line) /\ line \in Seq(Frames)
      /\ UNCHANGED <<protocol, sender, receiver, back, written>>
  BY DEF LoseFrame, Typed, TypeOK
<1>2. /\ line' \in Seq(Frames) /\ Len(line') = Len(line) - 1
      /\ \A i \in 1..Len(line') : line'[i] = line[i + 1]
  BY <1>1, HeadTailProperties
<1>3. Len(line) \in Nat /\ Len(line) >= 1
  BY <1>1, EmptySeq
<1>4. FilesInStep'
  BY <1>1 DEF Linked, FilesInStep, InOrder, Full, Complete, Live
<1>5. SenderInStep'
  BY <1>1, SenderStays DEF Linked, SenderInStep
<1>6. ASSUME Live(sender), Live(receiver) PROVE line' = <<>> /\ receiver.at # "begin" /\ ~receiver.can
  <2>1. Len(line) = 1 /\ receiver.at # "begin" /\ ~receiver.can
    BY <1>1, <1>6 DEF Linked, Together, LineInStep
  <2> QED
    BY <1>2, <2>1, EmptySeq
<1>7. LineInStep'
  <2> SUFFICES ASSUME Live(receiver) PROVE LineInStep'
    BY <1>1 DEF LineInStep, Live
  <2>1. \A i \in 1..Len(line') : line'[i].kind = "can"
    <3> SUFFICES ASSUME NEW i \in 1..Len(line') PROVE line'[i].kind = "can"
      OBVIOUS
    <3>1. i + 1 \in 2..Len(line) /\ line'[i] = line[i + 1]
      BY <1>2, <1>3
    <3> QED
      BY <3>1 DEF Linked, LineInStep
  <2>2. line' # <<>> => line'[1].kind = "can"
    BY <1>2, <2>1, EmptySeq
  <2>3. \A i \in 2..Len(line') : line'[i].kind = "can"
    BY <2>1
  <2>4. ASSUME Live(sender)' PROVE ~receiver'.can /\ \A i \in 1..Len(line') : line'[i].kind # "can"
    <3>1. line' = <<>> /\ ~receiver.can
      BY <1>1, <1>6, <2>4 DEF Live
    <3>2. Len(line') = 0 /\ 1..0 = {}
      BY <3>1
    <3> QED
      BY <1>1, <3>1, <3>2
  <2> QED
    BY <2>1, <2>2, <2>3, <2>4 DEF LineInStep
<1>8. Together'
  BY <1>1, <1>6 DEF Linked, Together, Where, Live
<1> QED
  BY <1>4, <1>5, <1>7, <1>8 DEF Linked

\* Replies that are lost or made unreadable.
LEMMA BackLinked ==
  ASSUME Typed, Linked, back # <<>>, UNCHANGED <<protocol, sender, receiver, line, written>>,
         back' \in Seq(Replies), Len(back') <= Len(back),
         Live(sender) => \A i \in 1..Len(back') : back'[i] # "ACK",
         Len(back') = Len(back) => /\ back'[1] \notin {"NAK", "WANT_CRC"}
                                   /\ \A i \in 2..Len(back) : back'[i] = back[i]
  PROVE  Linked'
<1>0. Len(back) \in Nat /\ Len(back') \in Nat
  BY DEF Typed, TypeOK
<1>1. FilesInStep' /\ LineInStep'
  BY DEF Linked, FilesInStep, LineInStep, Fits, InOrder, Full, Complete, Live
<1>2. ASSUME Live(sender)
      PROVE  /\ \A i \in 2..Len(back') : back'[i] # "ACK"
             /\ ~(back' # <<>> /\ back'[1] = "ACK")
  BY <1>2, EmptySeq
<1>3. SenderInStep'
  BY <1>2, SenderStays
<1>4. Together'
  <2> SUFFICES ASSUME Live(sender), Live(receiver) PROVE Together'
    BY DEF Together, Live
  <2>1. /\ line = <<>> /\ Where /\ Len(back) <= 2 /\ receiver.at # "begin"
        /\ Len(back) = 2 => /\ back[2] = "WANT_CRC" /\ ~sender.can
                            /\ sender.at \in {"header", "eot"}
    BY DEF Linked, Together
  <2>2. Where'
    BY <1>2, <2>1 DEF Where
  <2>3. Len(back') <= 2
    BY <1>0, <2>1
  <2>4. ASSUME Len(back') = 2
        PROVE  /\ back'[2] = "WANT_CRC" /\ back'[1] \notin {"NAK", "WANT_CRC"} /\ ~sender.can
               /\ sender.at \in {"header", "eot"}
    <3>n. PICK n \in Nat : n = Len(back)
      BY <1>0
    <3>m. n <= 2 /\ 2 <= n
      BY <2>1, <2>4, <3>n
    <3>1. Len(back) = 2
      BY <3>n, <3>m
    <3>2. 2 \in 2..Len(back)
      BY <3>1
    <3> QED
      BY <2>1, <2>4, <3>1, <3>2
  <2> QED
    BY <2>1, <2>2, <2>3, <2>4 DEF Together
<1> QED
  BY <1>1, <1>3, <1>4 DEF Linked

\* LoseReply and DamageReply.
LEMMA RepliesLinked == Typed /\ Linked /\ (LoseReply \/ DamageReply) => Linked'
<1> SUFFICES ASSUME Typed, Linked, LoseReply \/ DamageReply PROVE Linked'
  OBVIOUS
<1>1. /\ back # <<>> /\ back \in Seq(Replies)
      /\ UNCHANGED <<protocol, sender, receiver, line, written>>
  BY DEF LoseReply, DamageReply, Typed, TypeOK
<1>t. PICK t : t = Tail(back)
  OBVIOUS
<1>2. /\ t \in Seq(Replies) /\ Len(t) = Len(back) - 1
      /\ \A i \in 1..Len(t) : t[i] = back[i + 1]
  BY <1>1, <1>t, HeadTailProperties
<1>3. Len(back) \in Nat /\ Len(back) >= 1
  BY <1>1, EmptySeq
<1>4. Live(sender) => \A i \in 1..Len(t) : t[i] # "ACK"
  <2> SUFFICES ASSUME Live(sender), NEW i \in 1..Len(t) PROVE t[i] # "ACK"
    OBVIOUS
  <2>1. i + 1 \in 2..Len(back) /\ t[i] = back[i + 1]
    BY <1>2, <1>3
  <2> QED
    BY <2>1 DEF Linked, SenderInStep
<1>5. CASE LoseReply
  <2>1. back' = t
    BY <1>5, <1>t DEF LoseReply
  <2>2. back' \in Seq(Replies) /\ Len(back') <= Len(back) /\ Len(back') # Len(back)
    BY <1>2, <1>3, <2>1
  <2>3. Live(sender) => \A i \in 1..Len(back') : back'[i] # "ACK"
    BY <1>4, <2>1
  <2> QED
    BY <1>1, <2>2, <2>3, BackLinked
<1>6. CASE DamageReply
  <2>1. PICK byte \in {"junk", "CAN"} : back' = <<byte>> \o t
    BY <1>6, <1>t DEF DamageReply
  <2>2. <<byte>> \in Seq(Replies) /\ Len(<<byte>>) = 1 /\ <<byte>>[1] = byte
    BY DEF Replies
  <2>3. /\ Len(<<byte>> \o t) = 1 + Len(t) /\ <<byte>> \o t \in Seq(Replies)
        /\ \A i \in 1..(1 + Len(t)) :
              (<<byte>> \o t)[i] = IF i <= 1 THEN <<byte>>[i] ELSE t[i - 1]
    BY <1>2, <2>2, ConcatProperties
  <2>4. Len(t) \in Nat
    BY <1>2
  <2>5. /\ Len(back') = 1 + Len(t) /\ Len(back') = Len(back) /\ back' \in Seq(Replies)
        /\ back'[1] = byte
        /\ \A i \in 2..(1 + Len(t)) : back'[i] = t[i - 1]
    BY <1>2, <1>3, <2>1, <2>2, <2>3, <2>4
  <2>6. \A i \in 2..Len(back) : back'[i] = back[i]
    <3> SUFFICES ASSUME NEW i \in 2..Len(back) PROVE back'[i] = back[i]
      OBVIOUS
    <3>1. i - 1 \in 1..Len(t) /\ i \in 2..(1 + Len(t))
      BY <1>2, <1>3
    <3>2. t[i - 1] = back[(i - 1) + 1]
      BY <1>2, <3>1
    <3>3. (i - 1) + 1 = i
      BY <1>3
    <3> QED
      BY <2>5, <3>1, <3>2, <3>3
  <2>7. ASSUME Live(sender), NEW i \in 1..Len(back') PROVE back'[i] # "ACK"
    <3>1. CASE i = 1
      BY <2>5, <3>1
    <3>2. CASE i # 1
      <4>1. i - 1 \in 1..Len(t) /\ i \in 2..(1 + Len(t))
        BY <1>2, <1>3, <2>5, <3>2
      <4> QED
        BY <1>4, <2>5, <2>7, <4>1
    <3> QED
      BY <3>1, <3>2
  <2>8. Len(back') <= Len(back) /\ back'[1] \notin {"NAK", "WANT_CRC"}
    BY <1>3, <2>5
  <2> QED
    BY <1>1, <2>5, <2>6, <2>7, <2>8, BackLinked
<1> QED
  BY <1>5, <1>6

\* Nothing is under way at the start.
LEMMA LinkedInit == Init => Linked
<1> SUFFICES ASSUME Init PROVE Linked
  OBVIOUS
<1>1. /\ sender.at = "start" /\ sender.file = 1 /\ ~sender.can /\ line = <<>> /\ back = <<>>
      /\ written = [f \in FileSet |-> <<>>] /\ Len(back) = 0 /\ Len(line) = 0
  BY DEF Init, FileSet
<1>2. /\ receiver.at = "begin" /\ receiver.file = 0 /\ receiver.expected = 1 /\ ~receiver.can
  BY DEF Init
<1>3. \A f \in FileSet : written[f] = <<>> /\ Len(written[f]) = 0 /\ Files[f] \in Nat
  BY <1>1, ConstantFacts
<1>4. InOrder
  BY <1>3 DEF InOrder
<1>5. FilesInStep
  BY <1>2, <1>3, <1>4 DEF FilesInStep, FileSet
<1>6. LineInStep
  <2>1. 1..0 = {} /\ 2..0 = {}
    OBVIOUS
  <2> QED
    BY <1>1, <1>2, <2>1 DEF LineInStep
<1>7. SenderInStep
  <2>1. 2..0 = {}
    OBVIOUS
  <2>2. \A f \in FileSet : ~(f < 1)
    BY DEF FileSet
  <2> QED
    BY <1>1, <1>3, <2>1, <2>2 DEF SenderInStep
<1>8. Together
  BY <1>1, <1>2 DEF Together, Where
<1> QED
  BY <1>5, <1>6, <1>7, <1>8 DEF Linked

\* Sides that are in step now were so before: what was disturbed is not forgotten.
LEMMA StepsBack == [Next]_vars /\ InStep' => InStep
<1> SUFFICES ASSUME [Next]_vars PROVE disturbed \subseteq disturbed'
  BY DEF InStep
<1>1. CASE UNCHANGED vars
  BY <1>1 DEF vars
<1>2. CASE SenderStep
  <2>1. UNCHANGED disturbed \/ SenderTimeout
    BY <1>2 DEF SenderStep, ReadCan, ReadAfterCan, WaitForStart, SendBlock, ExpectWantCrc,
       FinishSend, SenderReads
  <2> QED
    BY <2>1 DEF SenderTimeout, TimeoutIn, Disturb
<1>3. CASE ReceiverStep
  <2>1. UNCHANGED disturbed \/ ReceiverTimeout
    BY <1>3 DEF ReceiverStep, Begin, ReadHeader, ReadPacket, ReadAfterFirstCan, ReadSecondEot,
       ReceiverReads
  <2> QED
    BY <2>1 DEF ReceiverTimeout, TimeoutIn, Disturb
<1>4. CASE Disturbance
  BY <1>4 DEF Disturbance, StopSender, StopReceiver, SenderError, ReceiverError, DamageBlock,
     LoseFrame, LoseReply, DamageReply, Disturb
<1> QED
  BY <1>1, <1>2, <1>3, <1>4 DEF Next

\* Every step that leaves the sides in step keeps them linked.
LEMMA LinkedStep == Typed /\ LinkedInStep /\ [Next]_vars => LinkedInStep'
<1> SUFFICES ASSUME Typed, LinkedInStep, [Next]_vars, InStep' PROVE Linked'
  BY DEF LinkedInStep
<1>1. Linked
  BY StepsBack DEF LinkedInStep
<1>2. CASE UNCHANGED vars
  <2>1. UNCHANGED <<protocol, sender, receiver, line, back, written>>
    BY <1>2 DEF vars
  <2>2. FilesInStep' /\ SenderInStep'
    BY <1>1, <2>1 DEF Linked, FilesInStep, SenderInStep, InOrder, Full, Complete, Live
  <2>3. LineInStep'
    BY <1>1, <2>1 DEF Linked, LineInStep, Fits, Full, Live
  <2>4. Together'
    BY <1>1, <2>1 DEF Linked, Together, Where, Frame, BlockNumber, Live
  <2> QED
    BY <2>2, <2>3, <2>4 DEF Linked
<1>3. CASE SenderStep
  BY <1>1, <1>3, ReadCanLinked, ReadAfterCanLinked, WaitForStartLinked, SendBlockLinked,
     ExpectWantCrcLinked, FinishSendLinked, SenderFailsLinked DEF SenderStep
<1>4. CASE ReceiverStep
  BY <1>1, <1>4, BeginLinked, ReadHeaderLinked, ReadPacketLinked, ReadAfterFirstCanLinked,
     ReadSecondEotLinked, ReceiverTimeoutLinked DEF ReceiverStep
<1>5. CASE Disturbance
  BY <1>1, <1>5, StopSenderLinked, StopReceiverLinked, SenderFailsLinked, ReceiverErrorLinked,
     DamageBlockLinked, LoseFrameLinked, RepliesLinked DEF Disturbance
<1> QED
  BY <1>2, <1>3, <1>4, <1>5 DEF Next

\* While the sides are in step, files are given their blocks in order and each once.
LEMMA InStepInOrder == Spec => [](InStep => InOrder)
<1>1. Init => Typed /\ LinkedInStep
  BY TypedInit, LinkedInit DEF LinkedInStep
<1>2. Typed /\ LinkedInStep /\ [Next]_vars => (Typed /\ LinkedInStep)'
  BY TypedStep, LinkedStep
<1>3. Typed /\ LinkedInStep => (InStep => InOrder)
  BY DEF LinkedInStep, Linked, FilesInStep
<1> QED
  BY <1>1, <1>2, <1>3, PTL DEF Spec

\* A function that returns Ok has moved every block of every file, whatever was damaged,
\* lost or cancelled, while no answer came after its timeout and no block was read as
\* noise.
THEOREM OkIsComplete == Spec => []OkMeansComplete
<1>1. Init => Typed /\ LinkedInStep
  BY TypedInit, LinkedInit DEF LinkedInStep
<1>2. Typed /\ LinkedInStep /\ [Next]_vars => (Typed /\ LinkedInStep)'
  BY TypedStep, LinkedStep
<1>3. Typed /\ LinkedInStep => OkMeansComplete
  BY DEF LinkedInStep, Linked, FilesInStep, SenderInStep, OkMeansComplete
<1> QED
  BY <1>1, <1>2, <1>3, PTL DEF Spec

-----------------------------------------------------------------------------
(* Damage is repaired: the invariant *)

\* Nothing but damaged data blocks happened, fewer than the retries.
Clean == disturbed \subseteq {"damage"} /\ faults < Retries

\* One if the block under way is damaged.
Damaged == IF line # <<>> /\ line[1].kind = "bad" THEN 1 ELSE 0

\* One if the refusal of a block is under way.
Refused == IF back = <<"NAK">> THEN 1 ELSE 0

\* What the receiver asks for a block with.
Ask == IF receiver.crc THEN "WANT_CRC" ELSE "NAK"

Answered(bytes) == line = <<>> /\ back = bytes

\* Whose turn it is: one frame, or one answer, is under way wherever the sides wait, and
\* at the end of a YMODEM file the first EOT is refused and the second acknowledged.
Turn ==
    /\ sender.at = "start" =>
          \/ receiver.at = "begin" /\ Answered(<<>>)
          \/ receiver.at \in {"header", "data"} /\ Answered(<<Ask>>)
    /\ sender.at = "header" =>
          \/ receiver.at = "header" /\ line # <<>>
          \/ receiver.at = "data" /\ Answered(<<"ACK", "WANT_CRC">>)
    /\ sender.at = "want" => receiver.at = "data" /\ Answered(<<"WANT_CRC">>)
    /\ sender.at = "data" =>
          receiver.at = "data" /\ (line # <<>> \/ Answered(<<"ACK">>) \/ Answered(<<"NAK">>))
    /\ sender.at = "eot" =>
          \/ receiver.at = "data" /\ sender.tries = 0 /\ line # <<>>
          \/ receiver.at = "eot" /\ sender.tries = 0 /\ Answered(<<"NAK">>)
          \/ receiver.at = "eot" /\ sender.tries = 1 /\ line # <<>>
          \/ receiver.at = "header" /\ Answered(<<"ACK", "WANT_CRC">>)
          \/ receiver.at = "ok" /\ protocol = "xmodem" /\ Answered(<<"ACK">>)
    /\ sender.at = "null" =>
          \/ receiver.at = "header" /\ line # <<>>
          \/ receiver.at = "ok" /\ Answered(<<"ACK">>)
    /\ sender.at = "ok" => receiver.at = "ok"
    /\ receiver.at = "ok" => line = <<>>

\* Every retry so far, and the one that a damaged block or its refusal will cause, was
\* paid for by a damaged block.
Paid ==
    /\ receiver.at \in {"begin", "data"} => receiver.retries + Damaged <= faults
    /\ sender.at = "data" => sender.tries + Damaged + Refused <= faults
    /\ sender.at # "data" => Damaged = 0

\* No side has failed or has seen a CAN, and both check blocks alike.
Sound ==
    /\ sender.at # "failed" /\ receiver.at # "failed" /\ ~sender.can /\ ~receiver.can
    /\ protocol = "xmodem" /\ sender.at \in {"data", "eot"} => sender.crc = receiver.crc

Repairing == Turn /\ Paid /\ Sound

\* The third part of the invariant.
CleanRepairs == Clean => Repairing

-----------------------------------------------------------------------------
(* Damage is repaired: the steps *)

\* Counts are numbers.
LEMMA CountTypes ==
  ASSUME Typed
  PROVE  /\ sender.tries \in Nat /\ receiver.retries \in Nat /\ faults \in Nat
         /\ Damaged \in {0, 1} /\ Refused \in {0, 1}
         /\ protocol \in {"xmodem", "ymodem"}
BY XYModemAssumption DEF Typed, TypeOK, PlacedSender, PlacedReceiver, Senders, Receivers, Damaged,
   Refused

\* An empty line holds no damaged block.
LEMMA NothingDamaged == (line' = <<>> => Damaged' = 0) /\ (line = <<>> => Damaged = 0)
BY DEF Damaged

\* A block just written is not damaged.
LEMMA FreshFrame ==
  ASSUME Typed, line = <<>>, NEW s, Send(s), s.at \in {"header", "data", "eot", "null"}
  PROVE  line' # <<>> /\ Damaged' = 0 /\ sender' = s
<1>1. line' = <<Frame(s)>> /\ sender' = s
  BY DEF Send
<1>2. line'[1] = Frame(s) /\ line' # <<>>
  BY <1>1
<1>3. Frame(s).kind # "bad"
  BY FrameFields
<1> QED
  BY <1>1, <1>2, <1>3 DEF Damaged

\* A refusal is one byte.
LEMMA NotRefused ==
  /\ back' = <<>> => Refused' = 0
  /\ back' = <<"NAK">> => Refused' = 1
  /\ back' = <<"ACK">> => Refused' = 0
<1>1. <<>> # <<"NAK">> /\ <<"ACK">> # <<"NAK">>
  OBVIOUS
<1> QED
  BY <1>1 DEF Refused

\* Taking the only byte, or the first of two.
LEMMA TakeReply ==
  ASSUME Typed, NEW reply, SenderReads(reply)
  PROVE  /\ \A a : back = <<a>> => reply = a /\ back' = <<>>
         /\ \A a, b : back = <<a, b>> => reply = a /\ back' = <<b>>
         /\ back # <<>> /\ UNCHANGED <<protocol, receiver, written, disturbed, faults>>
<1>1. /\ back # <<>> /\ reply = Head(back) /\ back' = Tail(back)
      /\ UNCHANGED <<protocol, receiver, written, disturbed, faults>>
  BY DEF SenderReads
<1>2. \A a : Head(<<a>>) = a /\ Tail(<<a>>) = <<>>
  OBVIOUS
<1>3. \A a, b : Head(<<a, b>>) = a /\ Tail(<<a, b>>) = <<b>>
  OBVIOUS
<1> QED
  BY <1>1, <1>2, <1>3

\* Both sides check the blocks of this sender alike.
LEMMA ChecksAgree ==
  ASSUME Typed, Sound, sender.at \in {"header", "data", "null"}
  PROVE  Frame(sender).crc = receiver.crc
<1>1. Frame(sender).crc = (sender.crc \/ protocol = "ymodem")
  BY DEF Frame
<1>2. receiver.crc \in BOOLEAN /\ sender.crc \in BOOLEAN
  BY DEF Typed, PlacedReceiver, Receivers, PlacedSender, Senders
<1>3. CASE protocol = "ymodem"
  <2>1. receiver.crc = TRUE
    BY <1>2, <1>3, Zenon DEF Typed, PlacedReceiver
  <2> QED
    BY <1>1, <1>3, <2>1, Zenon
<1>4. CASE protocol = "xmodem"
  <2>1. sender.crc = receiver.crc
    BY <1>4 DEF Sound, Typed, PlacedSender
  <2> QED
    BY <1>1, <1>2, <1>4, <2>1, Zenon
<1> QED
  BY <1>3, <1>4, CountTypes

\* Begin hands the turn to the sender.
LEMMA BeginRepairs == Typed /\ Linked /\ Repairing /\ Begin => Repairing'
<1> SUFFICES ASSUME Typed, Linked, Repairing, Begin PROVE Repairing'
  OBVIOUS
<1>1. /\ receiver.at = "begin" /\ UNCHANGED <<protocol, sender, line, written, disturbed, faults>>
      /\ Live(receiver)
  BY DEF Begin, Live, Final
<1>2. Live(sender)
  BY <1>1 DEF Repairing, Sound, Turn, Live, Final
<1>3. line = <<>> /\ back = <<>> /\ sender.at = "start"
  BY <1>1, <1>2 DEF Linked, Together
<1>p. PICK place \in {"data", "header"} :
        place = IF protocol = "xmodem" THEN "data" ELSE "header"
  OBVIOUS
<1>f. PICK file : file = IF protocol = "xmodem" THEN 1 ELSE 0
  OBVIOUS
<1>b. PICK byte \in {"WANT_CRC", "NAK"} : byte = IF receiver.crc THEN "WANT_CRC" ELSE "NAK"
  OBVIOUS
<1>n. PICK r : r = [receiver EXCEPT !.at = place, !.file = file]
  OBVIOUS
<1>4. /\ r.at = place /\ r.crc = receiver.crc /\ (r.can => receiver.can)
      /\ r.retries = receiver.retries
  BY <1>n DEF Typed, PlacedReceiver, Receivers
<1>5. Reply(r, <<byte>>)
  BY <1>p, <1>f, <1>b, <1>n DEF Begin
<1>6. receiver' = r /\ back' = <<byte>>
  BY <1>3, <1>5, <1>b, Replied, RepliesTyped
<1>7. Ask' = byte
  BY <1>4, <1>6, <1>b DEF Ask
<1>8. Turn'
  BY <1>1, <1>3, <1>4, <1>6, <1>7 DEF Turn, Answered
<1>9. Paid'
  BY <1>1, <1>3, <1>4, <1>6, NothingDamaged, CountTypes DEF Repairing, Paid
<1>10. Sound'
  BY <1>1, <1>3, <1>4, <1>6 DEF Repairing, Sound
<1> QED
  BY <1>8, <1>9, <1>10 DEF Repairing

\* A data block, or the end of the file, goes out.
LEMMA SendDataRepairs ==
  ASSUME Typed, Repairing, NEW reply, SenderReads(reply), line = <<>>, back' = <<>>,
         receiver.at = "data",
         NEW s, s \in Senders, ~s.can, protocol = "xmodem" => s.crc = receiver.crc,
         NEW block \in Nat, SendData(s, block)
  PROVE  Repairing'
<1>0. UNCHANGED <<protocol, receiver, written, disturbed, faults>>
  BY TakeReply
<1>p. PICK place \in {"eot", "data"} :
        place = IF block > Files[s.file] THEN "eot" ELSE "data"
  OBVIOUS
<1>n. PICK new : new = [s EXCEPT !.at = place, !.block = block, !.tries = 0]
  OBVIOUS
<1>1. new.at = place /\ new.tries = 0 /\ new.crc = s.crc /\ ~new.can
  BY <1>n DEF Senders
<1>2. Send(new)
  BY <1>p, <1>n DEF SendData
<1>3. line' # <<>> /\ Damaged' = 0 /\ sender' = new
  BY <1>1, <1>2, FreshFrame
<1>4. Refused' = 0 /\ Damaged = 0
  BY NotRefused, NothingDamaged
<1>5. Turn'
  BY <1>0, <1>1, <1>3 DEF Turn
<1>6. Paid'
  BY <1>0, <1>1, <1>3, <1>4, CountTypes DEF Repairing, Paid
<1>7. Sound'
  BY <1>0, <1>1, <1>3 DEF Repairing, Sound
<1> QED
  BY <1>5, <1>6, <1>7 DEF Repairing

\* WaitForStart: what the receiver asked with is what the sender answers with.
LEMMA WaitForStartRepairs == Typed /\ Linked /\ Repairing /\ WaitForStart => Repairing'
<1> SUFFICES ASSUME Typed, Linked, Repairing, WaitForStart PROVE Repairing'
  OBVIOUS
<1>1. PICK reply \in Replies \ {"CAN"} :
        /\ SenderReads(reply)
        /\ \/ /\ reply \in {"WANT_CRC", "NAK"}
              /\ IF protocol = "xmodem"
                 THEN SendData([sender EXCEPT !.crc = reply = "WANT_CRC"], 1)
                 ELSE Send([sender EXCEPT
                        !.at = IF sender.file > Len(Files) THEN "null" ELSE "header",
                        !.tries = 0])
           \/ reply \notin {"WANT_CRC", "NAK"}
  BY DEF WaitForStart
<1>2. back # <<>> /\ UNCHANGED <<protocol, receiver, written, disturbed, faults>>
  BY <1>1, TakeReply
<1>3. sender.at = "start" /\ ~sender.can /\ sender \in Senders
  BY DEF WaitForStart, Typed, PlacedSender
<1>4. receiver.at \in {"header", "data"} /\ line = <<>> /\ back = <<Ask>>
  BY <1>2, <1>3 DEF Repairing, Turn, Answered
<1>5. reply = Ask /\ back' = <<>>
  BY <1>1, <1>4, TakeReply
<1>6. Live(sender) /\ Live(receiver)
  BY <1>3, <1>4 DEF Live, Final
<1>7. Where
  BY <1>6 DEF Linked, Together
<1>8. CASE protocol = "xmodem"
  <2>1. SendData([sender EXCEPT !.crc = reply = "WANT_CRC"], 1)
    BY <1>1, <1>5, <1>8 DEF Ask
  <2>c. PICK crc \in BOOLEAN : crc = (reply = "WANT_CRC")
    OBVIOUS
  <2>n. PICK s : s = [sender EXCEPT !.crc = crc]
    OBVIOUS
  <2>2. s \in Senders /\ s.crc = crc /\ ~s.can
    BY <1>3, <2>n DEF Senders
  <2>3. SendData(s, 1)
    BY <2>1, <2>c, <2>n
  <2>4. crc = receiver.crc
    <3>1. receiver.crc \in BOOLEAN
      BY DEF Typed, PlacedReceiver, Receivers
    <3>2. CASE receiver.crc = TRUE
      <4>1. reply = "WANT_CRC"
        BY <1>5, <3>2 DEF Ask
      <4> QED
        BY <2>c, <3>2, <4>1, Zenon
    <3>3. CASE receiver.crc = FALSE
      <4>1. reply # "WANT_CRC"
        BY <1>5, <3>3 DEF Ask
      <4> QED
        BY <2>c, <3>3, <4>1, Zenon
    <3> QED
      BY <3>1, <3>2, <3>3
  <2>5. receiver.at = "data"
    BY <1>3, <1>4, <1>7, <1>8 DEF Where
  <2> QED
    BY <1>1, <1>4, <1>5, <2>2, <2>3, <2>4, <2>5, SendDataRepairs
<1>9. CASE protocol = "ymodem"
  <2>p. PICK place \in {"null", "header"} :
          place = IF sender.file > Len(Files) THEN "null" ELSE "header"
    OBVIOUS
  <2>n. PICK s : s = [sender EXCEPT !.at = place, !.tries = 0]
    OBVIOUS
  <2>1. s.at = place /\ (s.can => sender.can)
    BY <1>3, <2>n DEF Senders
  <2>2. Send(s)
    BY <1>1, <1>5, <1>9, <2>p, <2>n DEF Ask
  <2>3. line' # <<>> /\ Damaged' = 0 /\ sender' = s
    BY <1>4, <2>1, <2>2, FreshFrame
  <2>4. receiver.at = "header"
    BY <1>3, <1>4, <1>7, <1>9 DEF Where
  <2>5. Turn'
    BY <1>2, <2>1, <2>3, <2>4 DEF Turn
  <2>6. Paid'
    BY <1>2, <2>1, <2>3, <2>4 DEF Paid
  <2>7. Sound'
    BY <1>2, <1>3, <2>1, <2>3, <2>4 DEF Repairing, Sound
  <2> QED
    BY <2>5, <2>6, <2>7 DEF Repairing
<1> QED
  BY <1>8, <1>9, CountTypes

\* The next round of a loop, when there is one.
LEMMA NextTryRepairs ==
  ASSUME Typed, Sound, line = <<>>, NextTry, sender.tries + 1 < Retries,
         sender.at \in {"data", "eot"}
  PROVE  /\ line' # <<>> /\ Damaged' = 0 /\ sender'.at = sender.at /\ ~sender'.can
         /\ sender'.tries = sender.tries + 1 /\ sender'.crc = sender.crc
<1>1. sender.tries + 1 # Retries
  BY CountTypes, ConstantFacts
<1>n. PICK s : s = [sender EXCEPT !.tries = @ + 1, !.can = FALSE]
  OBVIOUS
<1>2. /\ s.at = sender.at /\ s.tries = sender.tries + 1 /\ s.crc = sender.crc /\ ~s.can
  BY <1>n DEF Typed, PlacedSender, Senders
<1>3. Send(s)
  BY <1>1, <1>n DEF NextTry
<1>4. line' # <<>> /\ Damaged' = 0 /\ sender' = s
  BY <1>2, <1>3, FreshFrame
<1> QED
  BY <1>2, <1>4

\* SendBlock: the block was taken, or a damaged one is sent again.
LEMMA SendBlockRepairs == Typed /\ Linked /\ Clean /\ Repairing /\ SendBlock => Repairing'
<1> SUFFICES ASSUME Typed, Linked, Clean, Repairing, SendBlock PROVE Repairing'
  OBVIOUS
<1>1. PICK reply \in Replies \ {"CAN"} :
        /\ SenderReads(reply)
        /\ reply = "ACK" => Acknowledged
        /\ reply = "NAK" => NextTry
  BY DEF SendBlock
<1>2. back # <<>> /\ UNCHANGED <<protocol, receiver, written, disturbed, faults>>
  BY <1>1, TakeReply
<1>3. sender.at \in {"header", "data", "null"} /\ ~sender.can /\ sender \in Senders
  BY DEF SendBlock, Typed, PlacedSender
<1>4. line = <<>>
  <2>1. CASE receiver.at = "ok"
    BY <2>1 DEF Repairing, Turn
  <2>2. CASE receiver.at # "ok"
    <3>1. Live(sender) /\ Live(receiver)
      BY <1>3, <2>2 DEF Live, Final, Repairing, Sound, Typed, PlacedReceiver, Receivers
    <3> QED
      BY <1>2, <3>1 DEF Linked, Together
  <2> QED
    BY <2>1, <2>2
<1>5. CASE sender.at = "header"
  <2>1. receiver.at = "data" /\ back = <<"ACK", "WANT_CRC">>
    BY <1>4, <1>5 DEF Repairing, Turn, Answered
  <2>2. reply = "ACK" /\ back' = <<"WANT_CRC">>
    BY <1>1, <2>1, TakeReply
  <2>3. Send([sender EXCEPT !.at = "want"])
    BY <1>1, <1>5, <2>2 DEF Acknowledged
  <2>4. /\ sender' = [sender EXCEPT !.at = "want"] /\ line' = line
    BY <1>3, <2>3 DEF Send, Senders
  <2>5. sender'.at = "want" /\ ~sender'.can
    BY <1>3, <2>4 DEF Senders
  <2>6. Damaged' = 0 /\ Damaged = 0
    BY <1>4, <2>4, NothingDamaged
  <2>7. Turn'
    BY <1>2, <1>4, <2>1, <2>2, <2>4, <2>5 DEF Turn, Answered
  <2>8. Paid'
    BY <1>2, <2>1, <2>5, <2>6 DEF Repairing, Paid
  <2>9. Sound'
    BY <1>2, <2>1, <2>5 DEF Repairing, Sound
  <2> QED
    BY <2>7, <2>8, <2>9 DEF Repairing
<1>6. CASE sender.at = "data" /\ back = <<"ACK">>
  <2>1. reply = "ACK" /\ back' = <<>> /\ receiver.at = "data"
    BY <1>1, <1>6, TakeReply DEF Repairing, Turn
  <2>2. SendData(sender, sender.block + 1)
    BY <1>1, <1>6, <2>1 DEF Acknowledged
  <2>b. PICK next \in Nat : next = sender.block + 1
    BY <1>3 DEF Senders
  <2>s. PICK s : s = sender
    OBVIOUS
  <2>3. s \in Senders /\ ~s.can /\ SendData(s, next)
    BY <1>3, <2>2, <2>b, <2>s
  <2>4. protocol = "xmodem" => s.crc = receiver.crc
    BY <1>6, <2>s DEF Repairing, Sound
  <2> QED
    BY <1>1, <1>4, <2>1, <2>3, <2>4, SendDataRepairs
<1>7. CASE sender.at = "data" /\ back = <<"NAK">>
  <2>1. reply = "NAK" /\ back' = <<>> /\ receiver.at = "data" /\ NextTry
    BY <1>1, <1>7, TakeReply DEF Repairing, Turn
  <2>2. sender.tries + 1 <= faults
    <3>1. Refused = 1 /\ Damaged = 0
      BY <1>4, <1>7, NothingDamaged DEF Refused
    <3> QED
      BY <1>7, <3>1, CountTypes DEF Repairing, Paid
  <2>3. sender.tries + 1 < Retries
    BY <2>2, CountTypes, ConstantFacts DEF Clean
  <2>4. /\ line' # <<>> /\ Damaged' = 0 /\ sender'.at = "data" /\ ~sender'.can
        /\ sender'.tries = sender.tries + 1 /\ sender'.crc = sender.crc
    BY <1>4, <1>7, <2>1, <2>3, NextTryRepairs DEF Repairing
  <2>5. Refused' = 0 /\ Damaged = 0
    BY <1>4, <2>1, NotRefused, NothingDamaged
  <2>6. Turn'
    BY <1>2, <2>1, <2>4 DEF Turn
  <2>7. Paid'
    BY <1>2, <2>1, <2>2, <2>4, <2>5, CountTypes DEF Repairing, Paid
  <2>8. Sound'
    BY <1>2, <1>7, <2>1, <2>4 DEF Repairing, Sound
  <2> QED
    BY <2>6, <2>7, <2>8 DEF Repairing
<1>8. CASE sender.at = "null"
  <2>1. receiver.at = "ok" /\ back = <<"ACK">>
    BY <1>4, <1>8 DEF Repairing, Turn, Answered
  <2>2. reply = "ACK"
    BY <1>1, <2>1, TakeReply
  <2>3. Send([sender EXCEPT !.at = "ok"])
    BY <1>1, <1>8, <2>2 DEF Acknowledged
  <2>4. sender' = [sender EXCEPT !.at = "ok"] /\ line' = line
    BY <1>3, <2>3 DEF Send, Senders
  <2>5. sender'.at = "ok" /\ ~sender'.can
    BY <1>3, <2>4 DEF Senders
  <2>6. Damaged' = 0
    BY <1>4, <2>4, NothingDamaged
  <2>7. Turn'
    BY <1>2, <1>4, <2>1, <2>4, <2>5 DEF Turn
  <2>8. Paid'
    BY <1>2, <2>1, <2>5, <2>6 DEF Paid
  <2>9. Sound'
    BY <1>2, <2>1, <2>5 DEF Repairing, Sound
  <2> QED
    BY <2>7, <2>8, <2>9 DEF Repairing
<1>9. sender.at = "data" => back = <<"ACK">> \/ back = <<"NAK">>
  BY <1>4 DEF Repairing, Turn, Answered
<1> QED
  BY <1>3, <1>5, <1>6, <1>7, <1>8, <1>9

\* ExpectWantCrc: the data of the file follow its header.
LEMMA ExpectWantCrcRepairs == Typed /\ Linked /\ Repairing /\ ExpectWantCrc => Repairing'
<1> SUFFICES ASSUME Typed, Linked, Repairing, ExpectWantCrc PROVE Repairing'
  OBVIOUS
<1>1. PICK reply \in Replies \ {"CAN"} :
        SenderReads(reply) /\ (reply = "WANT_CRC" => SendData(sender, 1))
  BY DEF ExpectWantCrc
<1>s. PICK s : s = sender
  OBVIOUS
<1>2. /\ sender.at = "want" /\ s \in Senders /\ ~s.can /\ protocol # "xmodem"
  BY <1>s DEF ExpectWantCrc, Typed, PlacedSender
<1>3. receiver.at = "data" /\ line = <<>> /\ back = <<"WANT_CRC">>
  BY <1>2 DEF Repairing, Turn, Answered
<1>4. reply = "WANT_CRC" /\ back' = <<>>
  BY <1>1, <1>3, TakeReply
<1>5. SendData(s, 1)
  BY <1>1, <1>4, <1>s
<1> QED
  BY <1>1, <1>2, <1>3, <1>4, <1>5, SendDataRepairs

\* FinishSend: the second EOT, the next file, or the end.
LEMMA FinishSendRepairs == Typed /\ Linked /\ Repairing /\ FinishSend => Repairing'
<1> SUFFICES ASSUME Typed, Linked, Repairing, FinishSend PROVE Repairing'
  OBVIOUS
<1>1. PICK reply \in Replies \ {"CAN"} :
        /\ SenderReads(reply)
        /\ reply = "ACK" /\ protocol = "xmodem" => Send([sender EXCEPT !.at = "ok"])
        /\ reply = "ACK" /\ protocol = "ymodem" =>
              Send([sender EXCEPT !.at = "start", !.file = @ + 1, !.tries = 0])
        /\ reply = "NAK" => NextTry
  BY DEF FinishSend
<1>2. back # <<>> /\ UNCHANGED <<protocol, receiver, written, disturbed, faults>>
  BY <1>1, TakeReply
<1>3. sender.at = "eot" /\ ~sender.can /\ sender \in Senders
  BY DEF FinishSend, Typed, PlacedSender
<1>4. line = <<>>
  <2>1. CASE receiver.at = "ok"
    BY <2>1 DEF Repairing, Turn
  <2>2. CASE receiver.at # "ok"
    <3>1. Live(sender) /\ Live(receiver)
      BY <1>3, <2>2 DEF Live, Final, Repairing, Sound, Typed, PlacedReceiver, Receivers
    <3> QED
      BY <1>2, <3>1 DEF Linked, Together
  <2> QED
    BY <2>1, <2>2
<1>5. CASE receiver.at = "eot" /\ sender.tries = 0 /\ back = <<"NAK">>
  <2>1. reply = "NAK" /\ back' = <<>> /\ NextTry
    BY <1>1, <1>5, TakeReply
  <2>2. sender.tries + 1 < Retries
    BY <1>5, ConstantFacts
  <2>3. /\ line' # <<>> /\ Damaged' = 0 /\ sender'.at = "eot" /\ ~sender'.can
        /\ sender'.tries = 1 /\ sender'.crc = sender.crc
    BY <1>3, <1>4, <1>5, <2>1, <2>2, NextTryRepairs DEF Repairing
  <2>4. Turn'
    BY <1>2, <1>5, <2>3 DEF Turn
  <2>5. Paid'
    BY <1>2, <1>5, <2>3 DEF Paid
  <2>6. Sound'
    BY <1>2, <1>3, <1>5, <2>3 DEF Repairing, Sound
  <2> QED
    BY <2>4, <2>5, <2>6 DEF Repairing
<1>6. CASE receiver.at = "header" /\ back = <<"ACK", "WANT_CRC">>
  <2>1. reply = "ACK" /\ back' = <<"WANT_CRC">>
    BY <1>1, <1>6, TakeReply
  <2>2. protocol = "ymodem" /\ receiver.crc
    BY <1>6, CountTypes DEF Typed, PlacedReceiver
  <2>3. Send([sender EXCEPT !.at = "start", !.file = @ + 1, !.tries = 0])
    BY <1>1, <2>1, <2>2
  <2>4. /\ sender' = [sender EXCEPT !.at = "start", !.file = @ + 1, !.tries = 0] /\ line' = line
    BY <1>3, <2>3 DEF Send, Senders
  <2>5. sender'.at = "start" /\ ~sender'.can
    BY <1>3, <2>4 DEF Senders
  <2>6. Ask' = "WANT_CRC"
    BY <1>2, <2>2 DEF Ask
  <2>7. Damaged' = 0
    BY <1>4, <2>4, NothingDamaged
  <2>8. Turn'
    BY <1>2, <1>4, <1>6, <2>1, <2>4, <2>5, <2>6 DEF Turn, Answered
  <2>9. Paid'
    BY <1>2, <1>6, <2>5, <2>7 DEF Paid
  <2>10. Sound'
    BY <1>2, <1>6, <2>5 DEF Repairing, Sound
  <2> QED
    BY <2>8, <2>9, <2>10 DEF Repairing
<1>7. CASE receiver.at = "ok" /\ protocol = "xmodem" /\ back = <<"ACK">>
  <2>1. reply = "ACK"
    BY <1>1, <1>7, TakeReply
  <2>2. Send([sender EXCEPT !.at = "ok"])
    BY <1>1, <1>7, <2>1
  <2>3. sender' = [sender EXCEPT !.at = "ok"] /\ line' = line
    BY <1>3, <2>2 DEF Send, Senders
  <2>4. sender'.at = "ok" /\ ~sender'.can
    BY <1>3, <2>3 DEF Senders
  <2>5. Damaged' = 0
    BY <1>4, <2>3, NothingDamaged
  <2>6. Turn'
    BY <1>2, <1>4, <1>7, <2>3, <2>4 DEF Turn
  <2>7. Paid'
    BY <1>2, <1>7, <2>4, <2>5 DEF Paid
  <2>8. Sound'
    BY <1>2, <1>7, <2>4 DEF Repairing, Sound
  <2> QED
    BY <2>6, <2>7, <2>8 DEF Repairing
<1> QED
  BY <1>3, <1>4, <1>5, <1>6, <1>7 DEF Repairing, Turn, Answered

\* While a frame is under way the sender waits, and what is good is seen to be so.
LEMMA FrameSeen ==
  ASSUME Typed, Linked, Repairing, Live(receiver), ReceiverReads
  PROVE  /\ Live(sender) /\ line' = <<>> /\ back = <<>> /\ line # <<>> /\ Head(line) = line[1]
         /\ UNCHANGED <<protocol, sender, disturbed, faults>> /\ Damaged' = 0
         /\ sender.at \in {"header", "data", "eot", "null"} /\ Where
         /\ sender.at = "eot" => line[1].kind = "eot" /\ Seen(line[1]) = {"eot"}
         /\ sender.at \in {"header", "null"} => line[1].kind = "good"
         /\ line[1].kind = "good" =>
               /\ Seen(line[1]) = {"good"} /\ line[1] = Frame(sender) /\ sender.at # "eot"
         /\ line[1].kind # "good" /\ sender.at = "data" =>
               line[1].kind = "bad" /\ Seen(line[1]) = {"bad"} /\ Damaged = 1
<1>1. Live(sender)
  BY DEF Repairing, Sound, Turn, Live, Final
<1>2. /\ line # <<>> /\ Head(line) = line[1] /\ line' = <<>> /\ back = <<>>
      /\ sender.at \in {"header", "data", "eot", "null"} /\ Where
      /\ line[1] \in {Frame(sender), [Frame(sender) EXCEPT !.kind = "bad"]}
      /\ UNCHANGED <<protocol, sender, disturbed, faults>>
  BY <1>1, FrameTaken
<1>f. PICK frame : frame = line[1]
  OBVIOUS
<1>3. Frame(sender) \in Frames
  BY <1>2, FrameTyped DEF Typed
<1>4. frame = Frame(sender) \/ frame.kind = "bad"
  BY <1>2, <1>3, <1>f DEF Frames
<1>5. Damaged' = 0
  BY <1>2, NothingDamaged
<1>6. sender.at # "data" => frame.kind # "bad"
  BY <1>2, <1>f DEF Repairing, Paid, Damaged
<1>7. sender.at = "eot" => frame.kind = "eot"
  BY <1>4, <1>6, FrameFields
<1>8. sender.at \in {"header", "null"} => frame.kind = "good"
  BY <1>4, <1>6, FrameFields
<1>9. ASSUME frame.kind = "good"
      PROVE  Seen(frame) = {"good"} /\ frame = Frame(sender) /\ sender.at # "eot"
  <2>1. frame = Frame(sender) /\ sender.at # "eot"
    BY <1>4, <1>7, <1>9
  <2>2. frame.crc = receiver.crc
    BY <1>2, <2>1, ChecksAgree DEF Repairing
  <2> QED
    BY <1>9, <2>1, <2>2 DEF Seen
<1>10. ASSUME frame.kind # "good", sender.at = "data"
       PROVE  frame.kind = "bad" /\ Seen(frame) = {"bad"} /\ Damaged = 1
  <2>1. frame.kind = "bad"
    BY <1>4, <1>10, FrameFields
  <2> QED
    BY <1>2, <1>f, <2>1 DEF Seen, Damaged
<1>11. frame.kind = "eot" => Seen(frame) = {"eot"}
  BY DEF Seen
<1> QED
  BY <1>1, <1>2, <1>5, <1>7, <1>8, <1>9, <1>10, <1>11, <1>f

\* ReadHeader: the header is taken.
LEMMA ReadHeaderRepairs == Typed /\ Linked /\ Repairing /\ ReadHeader => Repairing'
<1> SUFFICES ASSUME Typed, Linked, Repairing, ReadHeader PROVE Repairing'
  OBVIOUS
<1>1. receiver.at = "header" /\ ReceiverReads /\ UNCHANGED written /\ Live(receiver)
  BY DEF ReadHeader, Live, Final
<1>2. /\ line' = <<>> /\ back = <<>> /\ line # <<>> /\ Head(line) = line[1]
      /\ UNCHANGED <<protocol, sender, disturbed, faults>> /\ Damaged' = 0
      /\ sender.at \in {"header", "data", "eot", "null"}
      /\ sender.at \in {"header", "null"} => line[1].kind = "good"
      /\ line[1].kind = "good" => Seen(line[1]) = {"good"} /\ line[1] = Frame(sender)
  BY <1>1, FrameSeen
<1>3. sender.at \in {"header", "null"}
  BY <1>1, <1>2 DEF Repairing, Turn, Answered
<1>f. PICK frame : frame = line[1]
  OBVIOUS
<1>4. /\ Seen(frame) = {"good"} /\ frame.number = 0 /\ frame.index = 0
      /\ frame.file = IF sender.at = "null" THEN 0 ELSE sender.file
  BY <1>2, <1>3, <1>f, FrameFields DEF BlockNumber
<1>5. ParseHeader(frame)
  BY <1>2, <1>4, <1>f DEF ReadHeader
<1>6. CASE sender.at = "null"
  <2>1. Reply([receiver EXCEPT !.at = "ok"], <<"ACK">>)
    BY <1>4, <1>5, <1>6 DEF ParseHeader
  <2>2. receiver' = [receiver EXCEPT !.at = "ok"] /\ back' = <<"ACK">>
    BY <1>2, <2>1, Replied, RepliesTyped
  <2>3. receiver'.at = "ok" /\ (receiver'.can => receiver.can)
    BY <2>2 DEF Typed, PlacedReceiver, Receivers
  <2>4. Turn'
    BY <1>2, <1>6, <2>2, <2>3 DEF Turn, Answered
  <2>5. Paid' /\ Sound'
    BY <1>2, <1>6, <2>3 DEF Repairing, Paid, Sound
  <2> QED
    BY <2>4, <2>5 DEF Repairing
<1>7. CASE sender.at = "header"
  <2>0. frame.file # 0
    BY <1>4, <1>7 DEF Typed, PlacedSender, Senders
  <2>n. PICK r : r = [receiver EXCEPT !.at = "data", !.expected = 1, !.retries = 0,
                                      !.file = frame.file]
    OBVIOUS
  <2>1. Reply(r, <<"ACK", "WANT_CRC">>)
    BY <1>4, <1>5, <2>0, <2>n DEF ParseHeader
  <2>2. r.at = "data" /\ r.retries = 0 /\ (r.can => receiver.can)
    BY <2>n DEF Typed, PlacedReceiver, Receivers
  <2>3. receiver' = r /\ back' = <<"ACK", "WANT_CRC">>
    BY <1>2, <2>1, Replied, RepliesTyped
  <2>4. Turn'
    BY <1>2, <1>7, <2>2, <2>3 DEF Turn, Answered
  <2>5. Paid'
    BY <1>2, <1>7, <2>2, <2>3, CountTypes DEF Paid
  <2>6. Sound'
    BY <1>2, <1>7, <2>2, <2>3 DEF Repairing, Sound
  <2> QED
    BY <2>4, <2>5, <2>6 DEF Repairing
<1> QED
  BY <1>3, <1>6, <1>7

\* A block that fits is acknowledged.
LEMMA StoreAcknowledges ==
  ASSUME Typed, Linked, receiver.at = "data", line # <<>>, back = <<>>,
         NEW frame, frame = line[1], frame.kind = "good", Store(frame)
  PROVE  /\ back' = <<"ACK">> /\ receiver'.at = "data" /\ receiver'.retries = 0
         /\ (receiver'.can => receiver.can) /\ receiver'.crc = receiver.crc
<1>1. Live(receiver)
  BY DEF Live, Final
<1>2. /\ receiver.file # 0 /\ frame.number = frame.index % Modulus
      /\ receiver.expected = (Len(written[receiver.file]) + 1) % Modulus
      /\ frame.index \in {Len(written[receiver.file]), Len(written[receiver.file]) + 1}
  BY <1>1 DEF Linked, FilesInStep, LineInStep, Fits
<1>3. /\ receiver.file \in FileSet /\ written \in [FileSet -> Seq((0..Len(Files)) \X Nat)]
  BY <1>2, ConstantFacts, SMTT(30) DEF Typed, TypeOK, PlacedReceiver, Receivers, FileSet
<1>w. PICK w \in Nat : w = Len(written[receiver.file])
  BY <1>3
<1>4. frame.number # receiver.expected => frame.number = (receiver.expected - 1) % Modulus
  BY <1>2, <1>w, NumberBefore
<1>5. CASE frame.number = receiver.expected
  <2>e. PICK next : next = (receiver.expected + 1) % Modulus
    OBVIOUS
  <2>n. PICK r : r = [receiver EXCEPT !.expected = next, !.retries = 0]
    OBVIOUS
  <2>1. Reply(r, <<"ACK">>)
    BY <1>5, <2>e, <2>n DEF Store
  <2>2. r.at = "data" /\ r.retries = 0 /\ (r.can => receiver.can) /\ r.crc = receiver.crc
    BY <2>n DEF Typed, PlacedReceiver, Receivers
  <2>3. receiver' = r /\ back' = <<"ACK">>
    BY <2>1, Replied, RepliesTyped
  <2> QED
    BY <2>2, <2>3
<1>6. CASE frame.number # receiver.expected
  <2>n. PICK r : r = [receiver EXCEPT !.retries = 0]
    OBVIOUS
  <2>1. Reply(r, <<"ACK">>)
    BY <1>4, <1>6, <2>n DEF Store
  <2>2. r.at = "data" /\ r.retries = 0 /\ (r.can => receiver.can) /\ r.crc = receiver.crc
    BY <2>n DEF Typed, PlacedReceiver, Receivers
  <2>3. receiver' = r /\ back' = <<"ACK">>
    BY <2>1, Replied, RepliesTyped
  <2> QED
    BY <2>2, <2>3
<1> QED
  BY <1>5, <1>6

\* ReadPacket: a good block is taken, a damaged one refused, and the end seen.
LEMMA ReadPacketRepairs == Typed /\ Linked /\ Clean /\ Repairing /\ ReadPacket => Repairing'
<1> SUFFICES ASSUME Typed, Linked, Clean, Repairing, ReadPacket PROVE Repairing'
  OBVIOUS
<1>1. receiver.at = "data" /\ ReceiverReads /\ Live(receiver)
  BY DEF ReadPacket, Live, Final
<1>2. /\ line' = <<>> /\ back = <<>> /\ line # <<>> /\ Head(line) = line[1]
      /\ UNCHANGED <<protocol, sender, disturbed, faults>> /\ Damaged' = 0
      /\ sender.at \in {"header", "data", "eot", "null"}
      /\ sender.at = "eot" => line[1].kind = "eot" /\ Seen(line[1]) = {"eot"}
      /\ line[1].kind = "good" => Seen(line[1]) = {"good"}
      /\ line[1].kind # "good" /\ sender.at = "data" => Seen(line[1]) = {"bad"} /\ Damaged = 1
  BY <1>1, FrameSeen
<1>3. sender.at \in {"data", "eot"} /\ (sender.at = "eot" => sender.tries = 0)
  BY <1>1, <1>2 DEF Repairing, Turn, Answered
<1>f. PICK frame : frame = line[1]
  OBVIOUS
<1>4. PICK kind \in Seen(frame) :
        CASE kind = "good" -> Store(frame)
          [] kind = "eot"  -> EndOfFile /\ UNCHANGED written
          [] kind = "can"  -> Reply([receiver EXCEPT !.can = TRUE], <<>>) /\ UNCHANGED written
          [] OTHER         -> ReadError /\ UNCHANGED written
  BY <1>2, <1>f DEF ReadPacket
<1>5. CASE sender.at = "data" /\ frame.kind = "good"
  <2>1. Store(frame)
    BY <1>2, <1>4, <1>5, <1>f
  <2>2. /\ back' = <<"ACK">> /\ receiver'.at = "data" /\ receiver'.retries = 0
        /\ (receiver'.can => receiver.can) /\ receiver'.crc = receiver.crc
    BY <1>1, <1>2, <1>5, <1>f, <2>1, StoreAcknowledges
  <2>3. Refused' = 0
    BY <2>2, NotRefused
  <2>4. Turn'
    BY <1>2, <1>5, <2>2 DEF Turn, Answered
  <2>5. Paid'
    BY <1>2, <1>5, <2>2, <2>3, CountTypes DEF Repairing, Paid
  <2>6. Sound'
    BY <1>2, <1>5, <2>2 DEF Repairing, Sound
  <2> QED
    BY <2>4, <2>5, <2>6 DEF Repairing
<1>6. CASE sender.at = "data" /\ frame.kind # "good"
  <2>1. ReadError /\ Damaged = 1
    BY <1>2, <1>4, <1>6, <1>f
  <2>2. receiver.retries + 1 <= faults /\ sender.tries + 1 <= faults
    BY <1>1, <1>6, <2>1, CountTypes DEF Repairing, Paid
  <2>3. receiver.retries < Retries
    BY <2>2, CountTypes, ConstantFacts DEF Clean
  <2>n. PICK r : r = [receiver EXCEPT !.retries = @ + 1, !.can = FALSE]
    OBVIOUS
  <2>4. Reply(r, <<"NAK">>)
    BY <2>1, <2>3, <2>n DEF ReadError
  <2>5. r.at = "data" /\ r.retries = receiver.retries + 1 /\ ~r.can /\ r.crc = receiver.crc
    BY <1>1, <2>n DEF Typed, PlacedReceiver, Receivers
  <2>6. receiver' = r /\ back' = <<"NAK">>
    BY <1>2, <2>4, Replied, RepliesTyped
  <2>7. Refused' = 1
    BY <2>6, NotRefused
  <2>8. Turn'
    BY <1>2, <1>6, <2>5, <2>6 DEF Turn, Answered
  <2>9. Paid'
    BY <1>2, <1>6, <2>2, <2>5, <2>6, <2>7, CountTypes DEF Paid
  <2>10. Sound'
    BY <1>2, <1>6, <2>5, <2>6 DEF Repairing, Sound
  <2> QED
    BY <2>8, <2>9, <2>10 DEF Repairing
<1>7. CASE sender.at = "eot" /\ protocol = "xmodem"
  <2>1. EndOfFile
    BY <1>2, <1>4, <1>7, <1>f
  <2>2. Reply([receiver EXCEPT !.at = "ok"], <<"ACK">>)
    BY <1>7, <2>1 DEF EndOfFile
  <2>3. receiver' = [receiver EXCEPT !.at = "ok"] /\ back' = <<"ACK">>
    BY <1>2, <2>2, Replied, RepliesTyped
  <2>4. receiver'.at = "ok" /\ (receiver'.can => receiver.can) /\ receiver'.crc = receiver.crc
    BY <2>3 DEF Typed, PlacedReceiver, Receivers
  <2>5. Turn'
    BY <1>2, <1>7, <2>3, <2>4 DEF Turn, Answered
  <2>6. Paid'
    BY <1>2, <1>7, <2>4 DEF Paid
  <2>7. Sound'
    BY <1>2, <1>7, <2>4 DEF Repairing, Sound
  <2> QED
    BY <2>5, <2>6, <2>7 DEF Repairing
<1>8. CASE sender.at = "eot" /\ protocol # "xmodem"
  <2>1. EndOfFile
    BY <1>2, <1>4, <1>8, <1>f
  <2>2. Reply([receiver EXCEPT !.at = "eot"], <<"NAK">>)
    BY <1>8, <2>1 DEF EndOfFile
  <2>3. receiver' = [receiver EXCEPT !.at = "eot"] /\ back' = <<"NAK">>
    BY <1>2, <2>2, Replied, RepliesTyped
  <2>4. receiver'.at = "eot" /\ (receiver'.can => receiver.can)
    BY <2>3 DEF Typed, PlacedReceiver, Receivers
  <2>5. Turn'
    BY <1>2, <1>3, <1>8, <2>3, <2>4 DEF Turn, Answered
  <2>6. Paid'
    BY <1>2, <1>8, <2>4 DEF Paid
  <2>7. Sound'
    BY <1>2, <1>8, <2>4 DEF Repairing, Sound
  <2> QED
    BY <2>5, <2>6, <2>7 DEF Repairing
<1> QED
  BY <1>3, <1>5, <1>6, <1>7, <1>8

\* ReadSecondEot: the file is complete, and the next header is asked for.
LEMMA ReadSecondEotRepairs == Typed /\ Linked /\ Repairing /\ ReadSecondEot => Repairing'
<1> SUFFICES ASSUME Typed, Linked, Repairing, ReadSecondEot PROVE Repairing'
  OBVIOUS
<1>1. receiver.at = "eot" /\ ReceiverReads /\ Live(receiver) /\ UNCHANGED written
  BY DEF ReadSecondEot, Live, Final
<1>2. /\ line' = <<>> /\ back = <<>> /\ line # <<>> /\ Head(line) = line[1]
      /\ UNCHANGED <<protocol, sender, disturbed, faults>> /\ Damaged' = 0
      /\ sender.at \in {"header", "data", "eot", "null"}
      /\ sender.at = "eot" => line[1].kind = "eot" /\ Seen(line[1]) = {"eot"}
  BY <1>1, FrameSeen
<1>3. sender.at = "eot"
  BY <1>1, <1>2 DEF Repairing, Turn, Answered
<1>4. receiver.file # 0 /\ Full(receiver.file)
  BY <1>1 DEF Linked, FilesInStep
<1>5. receiver.file \in FileSet /\ Files[receiver.file] \in Nat
  BY <1>4, ConstantFacts DEF Typed, PlacedReceiver, Receivers, FileSet
<1>6. \A short \in Short : ~short
  <2>1. ~(Len(written[receiver.file]) < Files[receiver.file])
    BY <1>4, <1>5 DEF Full
  <2> QED
    BY <1>4, <2>1, Zenon DEF Short
<1>7. Reply([receiver EXCEPT !.at = "header"], <<"ACK", "WANT_CRC">>)
  BY <1>2, <1>3, <1>6 DEF ReadSecondEot
<1>8. receiver' = [receiver EXCEPT !.at = "header"] /\ back' = <<"ACK", "WANT_CRC">>
  BY <1>2, <1>7, Replied, RepliesTyped
<1>9. receiver'.at = "header" /\ (receiver'.can => receiver.can) /\ protocol # "xmodem"
  BY <1>1, <1>8 DEF Typed, PlacedReceiver, Receivers
<1>10. Turn'
  BY <1>2, <1>3, <1>8, <1>9 DEF Turn, Answered
<1>11. Paid'
  BY <1>2, <1>3, <1>9 DEF Paid
<1>12. Sound'
  BY <1>2, <1>3, <1>9 DEF Repairing, Sound
<1> QED
  BY <1>10, <1>11, <1>12 DEF Repairing

\* DamageBlock: one more retry is paid for.
LEMMA DamageBlockRepairs == Typed /\ Linked /\ Repairing /\ DamageBlock /\ Clean' => Repairing'
<1> SUFFICES ASSUME Typed, Linked, Repairing, DamageBlock, Clean' PROVE Repairing'
  OBVIOUS
<1>1. /\ line # <<>> /\ Head(line).kind = "good" /\ line \in Seq(Frames)
      /\ UNCHANGED <<protocol, sender, receiver, back, written>> /\ faults' = faults + 1
  BY DEF DamageBlock, Disturb, Typed, TypeOK
<1>2. line' = <<[Head(line) EXCEPT !.kind = "bad"]>> \o Tail(line) /\ Head(line).index # 0
  BY DEF DamageBlock, Disturb, Clean
<1>3. Head(line) = line[1] /\ Tail(line) \in Seq(Frames)
  BY <1>1, HeadTailProperties
<1>4. line' # <<>> /\ Damaged' \in {0, 1}
  <2>1. line' # <<>>
    BY <1>2, <1>3
  <2> QED
    BY <2>1 DEF Damaged
<1>5. Live(receiver) /\ Live(sender)
  BY <1>1 DEF Repairing, Turn, Sound, Live, Final
<1>6. /\ back = <<>> /\ sender.at \in {"header", "data", "eot", "null"}
      /\ line[1] \in {Frame(sender), [Frame(sender) EXCEPT !.kind = "bad"]}
  BY <1>1, <1>5 DEF Linked, Together
<1>f. PICK frame : frame = line[1]
  OBVIOUS
<1>7. sender.at = "data"
  BY <1>1, <1>2, <1>3, <1>6, <1>f, SentLast
<1>8. receiver.at = "data"
  BY <1>7 DEF Repairing, Turn
<1>9. Damaged = 0 /\ Refused' = 0
  BY <1>1, <1>3, <1>6, NotRefused DEF Damaged
<1>10. Turn'
  BY <1>1, <1>4, <1>7, <1>8 DEF Turn
<1>11. Paid'
  <2>1. receiver.retries <= faults /\ sender.tries <= faults
    BY <1>7, <1>8, <1>9, CountTypes DEF Repairing, Paid
  <2> QED
    BY <1>1, <1>4, <1>7, <1>9, <2>1, CountTypes DEF Paid
<1>12. Sound'
  BY <1>1 DEF Repairing, Sound
<1> QED
  BY <1>10, <1>11, <1>12 DEF Repairing

\* While only blocks are damaged no timeout is due, nobody cancels and nothing else is
\* disturbed.
LEMMA CleanSteps ==
  ASSUME Typed, Linked, Repairing, Next, Clean'
  PROVE  \/ Begin \/ WaitForStart \/ SendBlock \/ ExpectWantCrc \/ FinishSend
         \/ ReadHeader \/ ReadPacket \/ ReadSecondEot \/ DamageBlock
<1>1. ~ReadCan
  <2> SUFFICES ASSUME ReadCan PROVE FALSE
    OBVIOUS
  <2>1. SenderReads("CAN")
    BY DEF ReadCan
  <2>2. Live(sender) /\ back # <<>>
    BY <2>1 DEF SenderReads, Live
  <2>3. \A a : back = <<a>> => a = "CAN"
    BY <2>1, TakeReply
  <2>4. \A a, b : back = <<a, b>> => a = "CAN"
    BY <2>1, TakeReply
  <2>5. CASE line # <<>>
    <3>1. CASE Live(receiver)
      BY <2>2, <2>5, <3>1 DEF Linked, Together
    <3>2. CASE ~Live(receiver)
      BY <2>5, <3>2 DEF Repairing, Turn, Sound, Live, Final
    <3> QED
      BY <3>1, <3>2
  <2>6. CASE line = <<>>
    <3>1. Ask # "CAN"
      BY DEF Ask
    <3>2. \/ back = <<Ask>> \/ back = <<"ACK", "WANT_CRC">> \/ back = <<"WANT_CRC">>
          \/ back = <<"ACK">> \/ back = <<"NAK">>
      BY <2>2, <2>6 DEF Repairing, Turn, Answered, Live, Final, Typed, PlacedSender, Senders
    <3> QED
      BY <2>3, <2>4, <3>1, <3>2
  <2> QED
    BY <2>5, <2>6
<1>2. ~ReadAfterCan /\ ~ReadAfterFirstCan
  BY DEF ReadAfterCan, ReadAfterFirstCan, Repairing, Sound
<1>3. ~SenderTimeout
  <2> SUFFICES ASSUME SenderTimeout PROVE FALSE
    OBVIOUS
  <2>1. /\ back = <<>> /\ sender.at \notin Final
        /\ receiver.at \in Final \/ (line = <<>> /\ receiver.at # "begin")
    BY DEF SenderTimeout, TimeoutIn, Disturb, Clean
  <2>2. /\ <<Ask>> # <<>> /\ <<"ACK", "WANT_CRC">> # <<>> /\ <<"WANT_CRC">> # <<>>
        /\ <<"ACK">> # <<>> /\ <<"NAK">> # <<>>
    OBVIOUS
  <2> QED
    BY <2>1, <2>2 DEF Repairing, Turn, Answered, Final, Sound, Typed, PlacedSender, Senders
<1>4. ~ReceiverTimeout
  <2> SUFFICES ASSUME ReceiverTimeout PROVE FALSE
    OBVIOUS
  <2>1. /\ line = <<>> /\ (sender.at \in Final \/ back = <<>>)
        /\ receiver.at \notin Final \union {"begin"}
    BY DEF ReceiverTimeout, TimeoutIn, Disturb, Clean
  <2>2. /\ <<Ask>> # <<>> /\ <<"ACK", "WANT_CRC">> # <<>> /\ <<"WANT_CRC">> # <<>>
        /\ <<"ACK">> # <<>> /\ <<"NAK">> # <<>>
    OBVIOUS
  <2> QED
    BY <2>1, <2>2 DEF Repairing, Turn, Answered, Final, Sound, Typed, PlacedSender, Senders
<1>5. ~(StopSender \/ StopReceiver \/ SenderError \/ ReceiverError \/ LoseFrame \/ LoseReply
        \/ DamageReply)
  <2>1. "stop" \notin disturbed' /\ "error" \notin disturbed' /\ "loss" \notin disturbed'
    BY DEF Clean
  <2>2. ~StopSender /\ ~StopReceiver
    BY <2>1 DEF StopSender, StopReceiver, Disturb
  <2>3. ~SenderError /\ ~ReceiverError
    BY <2>1 DEF SenderError, ReceiverError, Disturb
  <2>4. ~LoseFrame /\ ~LoseReply /\ ~DamageReply
    BY <2>1 DEF LoseFrame, LoseReply, DamageReply, Disturb
  <2> QED
    BY <2>2, <2>3, <2>4
<1> QED
  BY <1>1, <1>2, <1>3, <1>4, <1>5 DEF Next, SenderStep, ReceiverStep, Disturbance

\* What is clean now was so before.
LEMMA CleanBack == Typed /\ Typed' /\ [Next]_vars /\ Clean' => Clean
<1> SUFFICES ASSUME Typed, Typed', [Next]_vars PROVE disturbed \subseteq disturbed' /\ faults <= faults'
  BY ConstantFacts DEF Clean, Typed, TypeOK
<1>0. faults \in Nat
  BY CountTypes
<1>1. CASE UNCHANGED vars
  BY <1>0, <1>1 DEF vars
<1>2. CASE SenderStep
  <2>1. UNCHANGED <<disturbed, faults>> \/ SenderTimeout
    BY <1>2 DEF SenderStep, ReadCan, ReadAfterCan, WaitForStart, SendBlock, ExpectWantCrc,
       FinishSend, SenderReads
  <2> QED
    BY <1>0, <2>1 DEF SenderTimeout, TimeoutIn, Disturb
<1>3. CASE ReceiverStep
  <2>1. UNCHANGED <<disturbed, faults>> \/ ReceiverTimeout
    BY <1>3 DEF ReceiverStep, Begin, ReadHeader, ReadPacket, ReadAfterFirstCan, ReadSecondEot,
       ReceiverReads
  <2> QED
    BY <1>0, <2>1 DEF ReceiverTimeout, TimeoutIn, Disturb
<1>4. CASE Disturbance
  BY <1>0, <1>4 DEF Disturbance, StopSender, StopReceiver, SenderError, ReceiverError,
     DamageBlock, LoseFrame, LoseReply, DamageReply, Disturb
<1> QED
  BY <1>1, <1>2, <1>3, <1>4 DEF Next

\* Every step that leaves the line clean goes on with the repair.
LEMMA RepairStep ==
  Typed /\ Typed' /\ LinkedInStep /\ CleanRepairs /\ [Next]_vars => CleanRepairs'
<1> SUFFICES ASSUME Typed, Typed', LinkedInStep, CleanRepairs, [Next]_vars, Clean'
             PROVE  Repairing'
  BY DEF CleanRepairs
<1>1. Clean
  BY CleanBack
<1>2. Linked /\ Repairing
  BY <1>1 DEF LinkedInStep, CleanRepairs, Clean, InStep
<1>3. CASE UNCHANGED vars
  <2>1. UNCHANGED <<protocol, sender, receiver, line, back, faults>>
    BY <1>3 DEF vars
  <2>2. Turn'
    BY <1>2, <2>1 DEF Repairing, Turn, Answered, Ask
  <2>3. Paid'
    BY <1>2, <2>1 DEF Repairing, Paid, Damaged, Refused
  <2>4. Sound'
    BY <1>2, <2>1 DEF Repairing, Sound
  <2> QED
    BY <2>2, <2>3, <2>4 DEF Repairing
<1>4. CASE Next
  BY <1>1, <1>2, <1>4, CleanSteps, BeginRepairs, WaitForStartRepairs, SendBlockRepairs,
     ExpectWantCrcRepairs, FinishSendRepairs, ReadHeaderRepairs, ReadPacketRepairs,
     ReadSecondEotRepairs, DamageBlockRepairs
<1> QED
  BY <1>3, <1>4

\* The sides start with the receiver's turn to begin.
LEMMA RepairInit == Init => Repairing
<1> SUFFICES ASSUME Init PROVE Repairing
  OBVIOUS
<1>1. /\ sender.at = "start" /\ ~sender.can /\ line = <<>> /\ back = <<>> /\ faults = 0
  BY DEF Init
<1>2. receiver.at = "begin" /\ ~receiver.can /\ receiver.retries = 0
  BY DEF Init
<1>3. Turn
  BY <1>1, <1>2 DEF Turn, Answered
<1>4. Paid
  BY <1>1, <1>2, NothingDamaged DEF Paid
<1>5. Sound
  BY <1>1, <1>2 DEF Sound
<1> QED
  BY <1>3, <1>4, <1>5 DEF Repairing

\* Damaged data blocks, fewer than the retries, are repaired: when both functions have
\* returned and nothing else happened, both returned Ok.
THEOREM DamageRepaired == Spec => []DamageIsRepaired
<1>1. Init => Typed /\ LinkedInStep /\ CleanRepairs
  BY TypedInit, LinkedInit, RepairInit DEF LinkedInStep, CleanRepairs
<1>2. Typed /\ LinkedInStep /\ CleanRepairs /\ [Next]_vars
      => (Typed /\ LinkedInStep /\ CleanRepairs)'
  BY TypedStep, LinkedStep, RepairStep
<1>3. Typed /\ LinkedInStep /\ CleanRepairs => DamageIsRepaired
  BY DEF CleanRepairs, Clean, Repairing, Sound, DamageIsRepaired, Final
<1> QED
  BY <1>1, <1>2, <1>3, PTL DEF Spec

-----------------------------------------------------------------------------
(* XMODEM out of step: the invariant *)

\* Disturbances are few enough that the sender cannot be ahead by all block numbers.
Near == protocol = "xmodem" /\ Surplus + 1 < Modulus

\* The blocks given to the writer.
Wrote == Len(written[1])

\* The replies that noise may still cause: it is refused until the retries are used up.
Budget(l, r) == IF r.can \/ (l # <<>> /\ l[1].kind = "noise") THEN Retries - r.retries ELSE 0

\* The blocks on line l stand in the order of their indices, none before the last one
\* written, n, and none behind the sender's, top.
Queue(l, n, top) ==
    \A i \in 1..Len(l) : l[i].kind = "good" =>
        /\ l[i].file = 1 /\ l[i].number = l[i].index % Modulus
        /\ n <= l[i].index /\ l[i].index <= top
        /\ \A j \in 1..i : l[j].kind = "good" => l[j].index <= l[i].index

\* Blocks up to c may still be written, those behind c + 1 no more: the first p frames of
\* l hold the former and the rest of l only the latter, an ACK is among the first q
\* replies of b, and what the sender is ahead of c, with every ACK that it may still get,
\* fits into room.
Covers(l, b, n, top, room, c, p, q) ==
    /\ c - n <= p
    /\ \A i \in 1..p : l[i].kind = "good" => l[i].index <= c /\ c - l[i].index <= p - i
    /\ \A i \in (p + 1)..Len(l) : l[i].kind = "good" => l[i].index > c + 1
    /\ p > 0 => q = Len(b)
    /\ \A i \in (q + 1)..Len(b) : b[i] # "ACK"
    /\ top - c + q + p <= room

\* Some frontier c, with a prefix of the line and of the replies, covers.
Covered(l, b, n, top, room) ==
    \E c \in n..top, p \in 0..Len(l), q \in 0..Len(b) : Covers(l, b, n, top, room, c, p, q)

\* What may be under way: one block or answer, one more for each thing that disturbances
\* added, less what noise may still cause.
Room == 1 + Surplus - Budget(line, receiver)

\* While both sides run: what is under way fits into the room.
Busy ==
    /\ Len(line) + Len(back) <= Room
    /\ \A i \in 1..Len(line) : line[i].kind # "can" /\ (line[i].kind = "noise" => i = 1)
    /\ sender.at = "start" => /\ line = <<>> /\ sender.block = 0 /\ Wrote = 0
                              /\ \A i \in 1..Len(back) : back[i] # "ACK"
    /\ receiver.at = "begin" => sender.at = "start" /\ back = <<>> /\ ~receiver.can
    /\ Covered(line, back, Wrote, sender.block, Room)

\* The sender is ahead of the receiver by what disturbances added and one block.
Ahead ==
    /\ InOrder
    /\ Live(receiver) => /\ receiver.expected = (Wrote + 1) % Modulus
                         /\ Queue(line, Wrote, sender.block)
                         /\ sender.block - Wrote <= 1 + Surplus
    /\ Live(receiver) /\ Live(sender) => Busy

\* The fourth part of the invariant.
NearAhead == Near => Ahead

-----------------------------------------------------------------------------
(* XMODEM out of step: queues *)

\* What is left of a queue without its first element.
LEMMA TailFields ==
  ASSUME NEW S, NEW s \in Seq(S), s # <<>>
  PROVE  /\ Tail(s) \in Seq(S) /\ Len(s) \in Nat /\ Len(s) >= 1 /\ Len(Tail(s)) = Len(s) - 1
         /\ \A i \in 1..(Len(s) - 1) : Tail(s)[i] = s[i + 1]
         /\ Head(s) = s[1] /\ s[1] \in S
<1>1. Len(s) \in Nat /\ Len(s) >= 1
  BY EmptySeq
<1> QED
  BY <1>1, HeadTailProperties, ElementOfSeq

\* A queue with one element more.
LEMMA AppendFields ==
  ASSUME NEW S, NEW s \in Seq(S), NEW x \in S
  PROVE  /\ Append(s, x) \in Seq(S) /\ Len(s) \in Nat /\ Len(Append(s, x)) = Len(s) + 1
         /\ \A i \in 1..Len(s) : Append(s, x)[i] = s[i]
         /\ Append(s, x)[Len(s) + 1] = x
BY AppendProperties

\* A queue with another first element.
LEMMA HeadFields ==
  ASSUME NEW S, NEW s \in Seq(S), s # <<>>, NEW x \in S
  PROVE  /\ <<x>> \o Tail(s) \in Seq(S) /\ Len(s) \in Nat /\ Len(s) >= 1
         /\ Len(<<x>> \o Tail(s)) = Len(s)
         /\ (<<x>> \o Tail(s))[1] = x
         /\ \A i \in 2..Len(s) : (<<x>> \o Tail(s))[i] = s[i]
<1>t. PICK t : t = Tail(s)
  OBVIOUS
<1>1. /\ t \in Seq(S) /\ Len(s) \in Nat /\ Len(s) >= 1 /\ Len(t) = Len(s) - 1
      /\ \A i \in 1..(Len(s) - 1) : t[i] = s[i + 1]
  BY <1>t, TailFields
<1>2. <<x>> \in Seq(S) /\ Len(<<x>>) = 1 /\ <<x>>[1] = x
  OBVIOUS
<1>3. /\ Len(<<x>> \o t) = 1 + Len(t) /\ <<x>> \o t \in Seq(S)
      /\ \A i \in 1..(1 + Len(t)) : (<<x>> \o t)[i] = IF i <= 1 THEN <<x>>[i] ELSE t[i - 1]
  BY <1>1, <1>2, ConcatProperties
<1>4. \A i \in 2..Len(s) : (<<x>> \o t)[i] = s[i]
  <2> SUFFICES ASSUME NEW i \in 2..Len(s) PROVE (<<x>> \o t)[i] = s[i]
    OBVIOUS
  <2>1. i - 1 \in 1..(Len(s) - 1) /\ i \in 1..(1 + Len(t)) /\ ~(i <= 1) /\ (i - 1) + 1 = i
    BY <1>1
  <2>2. t[i - 1] = s[(i - 1) + 1]
    BY <1>1, <2>1
  <2> QED
    BY <1>3, <2>1, <2>2
<1>5. (<<x>> \o t)[1] = x /\ Len(<<x>> \o t) = Len(s)
  BY <1>1, <1>2, <1>3
<1> QED
  BY <1>1, <1>3, <1>4, <1>5, <1>t

\* A frame of a line has an index.
LEMMA IndexTyped ==
  ASSUME NEW l \in Seq(Frames)
  PROVE  Len(l) \in Nat /\ \A i \in 1..Len(l) : l[i] \in Frames /\ l[i].index \in Nat
<1>1. \A i \in 1..Len(l) : l[i] \in Frames
  BY ElementOfSeq
<1> QED
  BY <1>1 DEF Frames

\* A queue that lost its first frame is one still, from that frame on if it was a block.
LEMMA QueueTail ==
  ASSUME NEW l \in Seq(Frames), l # <<>>, NEW n \in Nat, NEW top \in Nat, Queue(l, n, top)
  PROVE  /\ Queue(Tail(l), n, top)
         /\ l[1].kind = "good" => Queue(Tail(l), l[1].index, top)
<1>t. PICK t : t = Tail(l)
  OBVIOUS
<1>1. /\ t \in Seq(Frames) /\ Len(l) \in Nat /\ Len(l) >= 1 /\ Len(t) = Len(l) - 1
      /\ \A i \in 1..(Len(l) - 1) : t[i] = l[i + 1]
  BY <1>t, TailFields
<1>2. ASSUME NEW i \in 1..Len(t), t[i].kind = "good"
      PROVE  /\ t[i].file = 1 /\ t[i].number = t[i].index % Modulus
             /\ n <= t[i].index /\ t[i].index <= top
             /\ \A j \in 1..i : t[j].kind = "good" => t[j].index <= t[i].index
             /\ l[1].kind = "good" => l[1].index <= t[i].index
  <2>1. i + 1 \in 1..Len(l) /\ t[i] = l[i + 1] /\ 1 \in 1..(i + 1)
    BY <1>1
  <2>2. /\ l[i + 1].file = 1 /\ l[i + 1].number = l[i + 1].index % Modulus
        /\ n <= l[i + 1].index /\ l[i + 1].index <= top
        /\ \A j \in 1..(i + 1) : l[j].kind = "good" => l[j].index <= l[i + 1].index
    BY <1>2, <2>1 DEF Queue
  <2>3. ASSUME NEW j \in 1..i, t[j].kind = "good" PROVE t[j].index <= t[i].index
    <3>1. j \in 1..(Len(l) - 1) /\ j + 1 \in 1..(i + 1)
      BY <1>1
    <3>2. t[j] = l[j + 1]
      BY <1>1, <3>1
    <3> QED
      BY <2>1, <2>2, <2>3, <3>1, <3>2
  <2> QED
    BY <2>1, <2>2, <2>3
<1>3. Queue(t, n, top)
  BY <1>2 DEF Queue
<1>4. l[1].kind = "good" => Queue(t, l[1].index, top)
  BY <1>2 DEF Queue
<1> QED
  BY <1>3, <1>4, <1>t

\* A queue of which some blocks were damaged.
LEMMA QueueDamaged ==
  ASSUME NEW l \in Seq(Frames), NEW k \in Seq(Frames), NEW n \in Nat, NEW top \in Nat,
         Queue(l, n, top), Len(k) <= Len(l),
         \A i \in 1..Len(k) : k[i].kind = "good" => k[i] = l[i]
  PROVE  Queue(k, n, top)
<1>1. Len(k) \in Nat /\ Len(l) \in Nat
  OBVIOUS
<1> SUFFICES ASSUME NEW i \in 1..Len(k), k[i].kind = "good"
             PROVE  /\ k[i].file = 1 /\ k[i].number = k[i].index % Modulus
                    /\ n <= k[i].index /\ k[i].index <= top
                    /\ \A j \in 1..i : k[j].kind = "good" => k[j].index <= k[i].index
  BY DEF Queue
<1>2. i \in 1..Len(l) /\ k[i] = l[i]
  BY <1>1
<1>3. /\ l[i].file = 1 /\ l[i].number = l[i].index % Modulus
      /\ n <= l[i].index /\ l[i].index <= top
      /\ \A j \in 1..i : l[j].kind = "good" => l[j].index <= l[i].index
  BY <1>2 DEF Queue
<1>4. ASSUME NEW j \in 1..i, k[j].kind = "good" PROVE k[j].index <= k[i].index
  <2>1. j \in 1..Len(k) /\ k[j] = l[j]
    BY <1>1, <1>4
  <2> QED
    BY <1>2, <1>3, <1>4, <2>1
<1> QED
  BY <1>2, <1>3, <1>4

\* The sender's block is the last of a queue.
LEMMA QueueAppend ==
  ASSUME NEW l \in Seq(Frames), NEW n \in Nat, NEW top \in Nat, NEW new \in Nat,
         Queue(l, n, top), top <= new, n <= new, NEW x \in Frames,
         x.kind = "good" => x.file = 1 /\ x.index = new /\ x.number = new % Modulus
  PROVE  Queue(l, n, new) /\ Queue(Append(l, x), n, new)
<1>k. PICK k : k = Append(l, x)
  OBVIOUS
<1>1. /\ k \in Seq(Frames) /\ Len(l) \in Nat /\ Len(k) = Len(l) + 1
      /\ \A i \in 1..Len(l) : k[i] = l[i]
      /\ k[Len(l) + 1] = x
  BY <1>k, AppendFields
<1>2. \A i \in 1..Len(l) : l[i].index \in Nat
  BY IndexTyped
<1>3. ASSUME NEW i \in 1..Len(l), l[i].kind = "good"
      PROVE  /\ l[i].file = 1 /\ l[i].number = l[i].index % Modulus
             /\ n <= l[i].index /\ l[i].index <= new
             /\ \A j \in 1..i : l[j].kind = "good" => l[j].index <= l[i].index
  BY <1>2, <1>3 DEF Queue
<1>4. ASSUME NEW i \in 1..Len(k), k[i].kind = "good"
      PROVE  /\ k[i].file = 1 /\ k[i].number = k[i].index % Modulus
             /\ n <= k[i].index /\ k[i].index <= new
             /\ \A j \in 1..i : k[j].kind = "good" => k[j].index <= k[i].index
  <2>1. CASE i \in 1..Len(l)
    <3>1. \A j \in 1..i : j \in 1..Len(l) /\ k[j] = l[j]
      BY <1>1, <2>1
    <3> QED
      BY <1>1, <1>3, <1>4, <2>1, <3>1
  <2>2. CASE i = Len(l) + 1
    <3>1. k[i] = x /\ x.file = 1 /\ x.index = new /\ x.number = new % Modulus
      BY <1>1, <1>4, <2>2
    <3>2. ASSUME NEW j \in 1..i, k[j].kind = "good" PROVE k[j].index <= new
      <4>1. CASE j \in 1..Len(l)
        BY <1>1, <1>3, <3>2, <4>1
      <4>2. CASE j = i
        BY <3>1, <4>2
      <4> QED
        BY <1>1, <2>2, <4>1, <4>2
    <3> QED
      BY <3>1, <3>2
  <2> QED
    BY <1>1, <2>1, <2>2
<1>5. Queue(l, n, new)
  BY <1>3 DEF Queue
<1>6. Queue(k, n, new)
  BY <1>4 DEF Queue
<1> QED
  BY <1>5, <1>6, <1>k

-----------------------------------------------------------------------------
(* XMODEM out of step: the room *)

\* More room is room enough.
LEMMA CoveredRoomier ==
  ASSUME NEW l \in Seq(Frames), NEW b \in Seq(Replies), NEW n \in Nat, NEW top \in Nat,
         NEW room \in Int, NEW more \in Int, room <= more, Covered(l, b, n, top, room)
  PROVE  Covered(l, b, n, top, more)
<1>0. Len(l) \in Nat /\ Len(b) \in Nat
  OBVIOUS
<1>1. PICK c \in n..top, p \in 0..Len(l), q \in 0..Len(b) : Covers(l, b, n, top, room, c, p, q)
  BY DEF Covered
<1>2. top - c + q + p <= more
  BY <1>0, <1>1 DEF Covers
<1>3. Covers(l, b, n, top, more, c, p, q)
  BY <1>1, <1>2 DEF Covers
<1> QED
  BY <1>3 DEF Covered

\* The sender is not ahead by more than the room.
LEMMA CoveredLead ==
  ASSUME NEW l \in Seq(Frames), NEW b \in Seq(Replies), NEW n \in Nat, NEW top \in Nat,
         NEW room \in Int, Covered(l, b, n, top, room)
  PROVE  top - n <= room /\ n <= top
<1>0. Len(l) \in Nat /\ Len(b) \in Nat
  OBVIOUS
<1>1. PICK c \in n..top, p \in 0..Len(l), q \in 0..Len(b) : Covers(l, b, n, top, room, c, p, q)
  BY DEF Covered
<1>2. c - n <= p /\ top - c + q + p <= room
  BY <1>1 DEF Covers
<1> QED
  BY <1>0, <1>1, <1>2

\* A reply was taken or lost; one block more for an ACK.
LEMMA CoveredTake ==
  ASSUME NEW l \in Seq(Frames), NEW b \in Seq(Replies), b # <<>>, NEW n \in Nat, NEW top \in Nat,
         NEW room \in Int, Covered(l, b, n, top, room)
  PROVE  /\ Covered(l, Tail(b), n, top, room)
         /\ b[1] = "ACK" => Covered(l, Tail(b), n, top + 1, room)
<1>t. PICK t : t = Tail(b)
  OBVIOUS
<1>0. /\ t \in Seq(Replies) /\ Len(b) \in Nat /\ Len(b) >= 1 /\ Len(t) = Len(b) - 1
      /\ \A i \in 1..(Len(b) - 1) : t[i] = b[i + 1]
  BY <1>t, TailFields
<1>l. Len(l) \in Nat
  OBVIOUS
<1>1. PICK c \in n..top, p \in 0..Len(l), q \in 0..Len(b) : Covers(l, b, n, top, room, c, p, q)
  BY DEF Covered
<1>2. /\ c - n <= p /\ top - c + q + p <= room
      /\ \A i \in 1..p : l[i].kind = "good" => l[i].index <= c /\ c - l[i].index <= p - i
      /\ \A i \in (p + 1)..Len(l) : l[i].kind = "good" => l[i].index > c + 1
      /\ p > 0 => q = Len(b)
      /\ \A i \in (q + 1)..Len(b) : b[i] # "ACK"
  BY <1>1 DEF Covers
<1>q. PICK r : r = IF q = 0 THEN 0 ELSE q - 1
  OBVIOUS
<1>3. /\ r \in 0..Len(t) /\ (p > 0 => r = Len(t)) /\ r <= q /\ (q # 0 => r = q - 1)
  BY <1>0, <1>2, <1>q, <1>l
<1>4. \A i \in (r + 1)..Len(t) : t[i] # "ACK"
  <2> SUFFICES ASSUME NEW i \in (r + 1)..Len(t) PROVE t[i] # "ACK"
    OBVIOUS
  <2>1. i \in 1..(Len(b) - 1) /\ i + 1 \in (q + 1)..Len(b)
    BY <1>0, <1>q, <1>3
  <2> QED
    BY <1>0, <1>2, <2>1
<1>5. top - c + r + p <= room
  BY <1>2, <1>3, <1>l, <1>0
<1>6. Covers(l, t, n, top, room, c, p, r)
  BY <1>2, <1>3, <1>4, <1>5 DEF Covers
<1>7. ASSUME b[1] = "ACK" PROVE Covered(l, t, n, top + 1, room)
  <2>1. q # 0
    BY <1>0, <1>2, <1>7
  <2>2. (top + 1) - c + r + p <= room /\ c \in n..(top + 1)
    BY <1>0, <1>l, <1>2, <1>3, <2>1
  <2>3. Covers(l, t, n, top + 1, room, c, p, r)
    BY <1>2, <1>3, <1>4, <2>2 DEF Covers
  <2> QED
    BY <1>3, <2>2, <2>3 DEF Covered
<1> QED
  BY <1>3, <1>6, <1>7, <1>t DEF Covered

\* The sender writes: a block that follows those that may be written is one of them.
LEMMA CoveredSend ==
  ASSUME NEW l \in Seq(Frames), NEW b \in Seq(Replies), NEW n \in Nat, NEW top \in Nat,
         NEW room \in Int, Covered(l, b, n, top, room), NEW x \in Frames,
         x.kind = "good" => x.index = top,
         \A i \in 1..Len(l) : l[i].kind = "good" => l[i].index <= top,
         Len(l) + 1 + Len(b) <= room
  PROVE  Covered(Append(l, x), b, n, top, room)
<1>k. PICK k : k = Append(l, x)
  OBVIOUS
<1>0. /\ k \in Seq(Frames) /\ Len(l) \in Nat /\ Len(k) = Len(l) + 1
      /\ \A i \in 1..Len(l) : k[i] = l[i]
      /\ k[Len(l) + 1] = x
  BY <1>k, AppendFields
<1>i. Len(b) \in Nat /\ \A i \in 1..Len(l) : l[i].index \in Nat
  BY IndexTyped
<1>1. PICK c \in n..top, p \in 0..Len(l), q \in 0..Len(b) : Covers(l, b, n, top, room, c, p, q)
  BY DEF Covered
<1>2. /\ c - n <= p /\ top - c + q + p <= room
      /\ \A i \in 1..p : l[i].kind = "good" => l[i].index <= c /\ c - l[i].index <= p - i
      /\ \A i \in (p + 1)..Len(l) : l[i].kind = "good" => l[i].index > c + 1
      /\ p > 0 => q = Len(b)
      /\ \A i \in (q + 1)..Len(b) : b[i] # "ACK"
  BY <1>1 DEF Covers
<1>3. CASE x.kind # "good" \/ c + 1 < top
  <2>1. \A i \in 1..p : k[i].kind = "good" => k[i].index <= c /\ c - k[i].index <= p - i
    <3>1. \A i \in 1..p : k[i] = l[i]
      BY <1>0, SMTT(30)
    <3> QED
      BY <1>2, <3>1
  <2>2. ASSUME NEW i \in (p + 1)..Len(k), k[i].kind = "good" PROVE k[i].index > c + 1
    <3>1. CASE i \in 1..Len(l)
      <4>1. k[i] = l[i] /\ i \in (p + 1)..Len(l)
        BY <1>0, <3>1
      <4> QED
        BY <1>2, <2>2, <4>1
    <3>2. CASE i = Len(l) + 1
      BY <1>0, <1>3, <2>2, <3>2
    <3> QED
      BY <1>0, <3>1, <3>2
  <2>3. Covers(k, b, n, top, room, c, p, q)
    BY <1>2, <2>1, <2>2 DEF Covers
  <2>4. p \in 0..Len(k)
    BY <1>0
  <2> QED
    BY <1>k, <2>3, <2>4 DEF Covered
<1>4. CASE x.kind = "good" /\ c + 1 >= top
  <2>1. \A i \in (p + 1)..Len(l) : l[i].kind # "good"
    <3> SUFFICES ASSUME NEW i \in (p + 1)..Len(l), l[i].kind = "good" PROVE FALSE
      OBVIOUS
    <3>1. l[i].index > c + 1 /\ i \in 1..Len(l)
      BY <1>0, <1>2
    <3> QED
      BY <1>4, <1>i, <3>1
  <2>2. ASSUME NEW i \in 1..Len(k), k[i].kind = "good"
        PROVE  k[i].index <= top /\ top - k[i].index <= Len(k) - i
    <3>1. CASE i \in 1..p
      <4>1. i \in 1..Len(l) /\ k[i] = l[i]
        BY <1>0, <3>1
      <4>2. l[i].index <= c /\ c - l[i].index <= p - i /\ l[i].index \in Nat
        BY <1>2, <1>i, <2>2, <3>1, <4>1
      <4>n. PICK v \in Nat : v = l[i].index
        BY <4>2
      <4>3. v <= c /\ c - v <= p - i
        BY <4>2, <4>n
      <4>4. v <= top /\ top - v <= Len(k) - i
        BY <1>0, <1>4, <4>3
      <4> QED
        BY <4>1, <4>4, <4>n
    <3>2. CASE i \in (p + 1)..Len(l)
      BY <1>0, <2>1, <2>2, <3>2
    <3>3. CASE i = Len(l) + 1
      BY <1>0, <1>4, <3>3
    <3> QED
      BY <1>0, <3>1, <3>2, <3>3
  <2>3. top - n <= Len(k) /\ top - top + Len(b) + Len(k) <= room
    BY <1>0, <1>i, <1>2, <1>4
  <2>4. (Len(k) + 1)..Len(k) = {} /\ (Len(b) + 1)..Len(b) = {}
    BY <1>0, <1>i
  <2>5. Covers(k, b, n, top, room, top, Len(k), Len(b))
    BY <2>2, <2>3, <2>4 DEF Covers
  <2>6. top \in n..top /\ Len(k) \in 0..Len(k) /\ Len(b) \in 0..Len(b)
    BY <1>0, <1>1, <1>i
  <2> QED
    BY <1>k, <2>5, <2>6 DEF Covered
<1> QED
  BY <1>1, <1>3, <1>4

\* Blocks were damaged and the replies are as good as they were.
LEMMA CoveredDamaged ==
  ASSUME NEW l \in Seq(Frames), NEW b \in Seq(Replies), NEW n \in Nat, NEW top \in Nat,
         NEW room \in Int, Covered(l, b, n, top, room),
         NEW k \in Seq(Frames), Len(k) = Len(l),
         \A i \in 1..Len(k) : k[i].kind = "good" => k[i] = l[i],
         NEW d \in Seq(Replies), Len(d) = Len(b),
         \A i \in 1..Len(d) : d[i] = "ACK" => b[i] = "ACK"
  PROVE  Covered(k, d, n, top, room)
<1>0. Len(l) \in Nat /\ Len(b) \in Nat
  OBVIOUS
<1>1. PICK c \in n..top, p \in 0..Len(l), q \in 0..Len(b) : Covers(l, b, n, top, room, c, p, q)
  BY DEF Covered
<1>2. /\ c - n <= p /\ top - c + q + p <= room
      /\ \A i \in 1..p : l[i].kind = "good" => l[i].index <= c /\ c - l[i].index <= p - i
      /\ \A i \in (p + 1)..Len(l) : l[i].kind = "good" => l[i].index > c + 1
      /\ p > 0 => q = Len(b)
      /\ \A i \in (q + 1)..Len(b) : b[i] # "ACK"
  BY <1>1 DEF Covers
<1>3. ASSUME NEW i \in 1..p, k[i].kind = "good" PROVE k[i].index <= c /\ c - k[i].index <= p - i
  <2>1. k[i] = l[i]
    BY <1>0, <1>3
  <2> QED
    BY <1>2, <1>3, <2>1
<1>4. ASSUME NEW i \in (p + 1)..Len(k), k[i].kind = "good" PROVE k[i].index > c + 1
  <2>1. k[i] = l[i] /\ i \in (p + 1)..Len(l)
    BY <1>0, <1>4
  <2> QED
    BY <1>2, <1>4, <2>1
<1>5. \A i \in (q + 1)..Len(d) : d[i] # "ACK"
  BY <1>0, <1>2
<1>6. Covers(k, d, n, top, room, c, p, q)
  BY <1>2, <1>3, <1>4, <1>5 DEF Covers
<1> QED
  BY <1>6 DEF Covered

\* A refusal takes room for one.
LEMMA CoveredRefusal ==
  ASSUME NEW l \in Seq(Frames), NEW b \in Seq(Replies), NEW n \in Nat, NEW top \in Nat,
         NEW room \in Int, Covered(l, b, n, top, room), NEW x \in Replies, x # "ACK"
  PROVE  /\ Covered(l, Append(b, x), n, top, room + 1)
         /\ l = <<>> => Covered(l, Append(b, x), n, top, room)
<1>d. PICK d : d = Append(b, x)
  OBVIOUS
<1>0. /\ d \in Seq(Replies) /\ Len(b) \in Nat /\ Len(d) = Len(b) + 1
      /\ \A i \in 1..Len(b) : d[i] = b[i]
      /\ d[Len(b) + 1] = x
  BY <1>d, AppendFields
<1>l. Len(l) \in Nat /\ (l = <<>> => Len(l) = 0)
  OBVIOUS
<1>1. PICK c \in n..top, p \in 0..Len(l), q \in 0..Len(b) : Covers(l, b, n, top, room, c, p, q)
  BY DEF Covered
<1>2. /\ c - n <= p /\ top - c + q + p <= room
      /\ \A i \in 1..p : l[i].kind = "good" => l[i].index <= c /\ c - l[i].index <= p - i
      /\ \A i \in (p + 1)..Len(l) : l[i].kind = "good" => l[i].index > c + 1
      /\ p > 0 => q = Len(b)
      /\ \A i \in (q + 1)..Len(b) : b[i] # "ACK"
  BY <1>1 DEF Covers
<1>q. PICK r : r = IF p = 0 THEN q ELSE q + 1
  OBVIOUS
<1>3. /\ r \in 0..Len(d) /\ (p > 0 => r = Len(d)) /\ r >= q /\ r <= q + 1 /\ (p = 0 => r = q)
  BY <1>0, <1>2, <1>l, <1>q
<1>4. \A i \in (r + 1)..Len(d) : d[i] # "ACK"
  <2> SUFFICES ASSUME NEW i \in (r + 1)..Len(d) PROVE d[i] # "ACK"
    OBVIOUS
  <2>1. CASE i = Len(b) + 1
    BY <1>0, <2>1
  <2>2. CASE i # Len(b) + 1
    <3>1. i \in (q + 1)..Len(b) /\ i \in 1..Len(b)
      BY <1>0, <1>3, <2>2
    <3> QED
      BY <1>0, <1>2, <3>1
  <2> QED
    BY <2>1, <2>2
<1>5. top - c + r + p <= room + 1 /\ (p = 0 => top - c + r + p <= room)
  BY <1>0, <1>l, <1>2, <1>3
<1>6. Covers(l, d, n, top, room + 1, c, p, r)
  BY <1>2, <1>3, <1>4, <1>5 DEF Covers
<1>7. ASSUME l = <<>> PROVE Covers(l, d, n, top, room, c, p, r)
  <2>1. p = 0
    BY <1>l, <1>7
  <2> QED
    BY <1>2, <1>3, <1>4, <1>5, <2>1 DEF Covers
<1> QED
  BY <1>3, <1>6, <1>7, <1>d DEF Covered

\* The first frame is gone, with a refusal or without a reply.
LEMMA CoveredDrop ==
  ASSUME NEW l \in Seq(Frames), l # <<>>, NEW b \in Seq(Replies), NEW n \in Nat, NEW top \in Nat,
         NEW room \in Int, Covered(l, b, n, top, room), NEW d \in Seq(Replies),
         d = b \/ \E x \in Replies : x # "ACK" /\ d = Append(b, x)
  PROVE  Covered(Tail(l), d, n, top, room)
<1>k. PICK k : k = Tail(l)
  OBVIOUS
<1>0. /\ k \in Seq(Frames) /\ Len(l) \in Nat /\ Len(l) >= 1 /\ Len(k) = Len(l) - 1
      /\ \A i \in 1..(Len(l) - 1) : k[i] = l[i + 1]
  BY <1>k, TailFields
<1>i. Len(b) \in Nat /\ \A i \in 1..Len(l) : l[i].index \in Nat
  BY IndexTyped
<1>d. /\ Len(d) \in Nat /\ Len(d) >= Len(b) /\ Len(d) <= Len(b) + 1
      /\ \A i \in 1..Len(d) : d[i] = "ACK" => i \in 1..Len(b) /\ b[i] = "ACK"
  <2>1. CASE d = b
    BY <1>i, <2>1
  <2>2. CASE \E x \in Replies : x # "ACK" /\ d = Append(b, x)
    <3>1. PICK x \in Replies : x # "ACK" /\ d = Append(b, x)
      BY <2>2
    <3>2. /\ Len(d) = Len(b) + 1 /\ \A i \in 1..Len(b) : d[i] = b[i]
          /\ d[Len(b) + 1] = x
      BY <3>1, AppendFields
    <3>3. \A i \in 1..Len(d) : i \in 1..Len(b) \/ i = Len(b) + 1
      BY <1>i, <3>2
    <3> QED
      BY <1>i, <3>1, <3>2, <3>3
  <2> QED
    BY <2>1, <2>2
<1>1. PICK c \in n..top, p \in 0..Len(l), q \in 0..Len(b) : Covers(l, b, n, top, room, c, p, q)
  BY DEF Covered
<1>2. /\ c - n <= p /\ top - c + q + p <= room
      /\ \A i \in 1..p : l[i].kind = "good" => l[i].index <= c /\ c - l[i].index <= p - i
      /\ \A i \in (p + 1)..Len(l) : l[i].kind = "good" => l[i].index > c + 1
      /\ p > 0 => q = Len(b)
      /\ \A i \in (q + 1)..Len(b) : b[i] # "ACK"
  BY <1>1 DEF Covers
<1>3. CASE \E j \in 2..p : l[j].kind = "good" /\ l[j].index <= n + 1
  <2>1. PICK j \in 2..p : l[j].kind = "good" /\ l[j].index <= n + 1
    BY <1>3
  <2>2. PICK v \in Nat : v = l[j].index
    BY <1>0, <1>i, <2>1, SMTT(30)
  <2>3. c - v <= p - j /\ v <= n + 1 /\ p > 0 /\ q = Len(b)
    BY <1>0, <1>2, <2>1, <2>2
  <2>4. c - n <= p - 1 /\ p - 1 \in 0..Len(k) /\ Len(d) \in 0..Len(d)
        /\ top - c + Len(d) + (p - 1) <= room
    BY <1>0, <1>2, <1>i, <1>d, <2>1, <2>3
  <2>5. ASSUME NEW i \in 1..(p - 1), k[i].kind = "good"
        PROVE  k[i].index <= c /\ c - k[i].index <= (p - 1) - i
    <3>1. i + 1 \in 1..p /\ i \in 1..(Len(l) - 1) /\ p - (i + 1) = (p - 1) - i
      BY <1>0
    <3>2. k[i] = l[i + 1]
      BY <1>0, <3>1
    <3>3. l[i + 1].index <= c /\ c - l[i + 1].index <= p - (i + 1)
      BY <1>2, <2>5, <3>1, <3>2
    <3> QED
      BY <3>1, <3>2, <3>3
  <2>6. ASSUME NEW i \in ((p - 1) + 1)..Len(k), k[i].kind = "good" PROVE k[i].index > c + 1
    <3>1. i + 1 \in (p + 1)..Len(l) /\ i \in 1..(Len(l) - 1)
      BY <1>0, <2>3
    <3>2. k[i] = l[i + 1]
      BY <1>0, <3>1
    <3> QED
      BY <1>2, <2>6, <3>1, <3>2
  <2>7. (Len(d) + 1)..Len(d) = {}
    BY <1>d
  <2>8. Covers(k, d, n, top, room, c, p - 1, Len(d))
    BY <2>4, <2>5, <2>6, <2>7 DEF Covers
  <2> QED
    BY <1>k, <2>4, <2>8 DEF Covered
<1>4. CASE ~\E j \in 2..p : l[j].kind = "good" /\ l[j].index <= n + 1
  <2>1. ASSUME NEW i \in 1..Len(k), k[i].kind = "good" PROVE k[i].index > n + 1
    <3>1. i + 1 \in 2..Len(l) /\ k[i] = l[i + 1]
      BY <1>0
    <3>2. PICK v \in Nat : v = l[i + 1].index
      BY <1>0, <1>i, <3>1, SMTT(30)
    <3>3. CASE i + 1 <= p
      <4>1. i + 1 \in 2..p
        BY <1>0, <3>1, <3>3
      <4>2. ~(v <= n + 1)
        BY <1>4, <2>1, <3>1, <3>2, <4>1
      <4> QED
        BY <3>1, <3>2, <4>2
    <3>4. CASE ~(i + 1 <= p)
      <4>1. i + 1 \in (p + 1)..Len(l)
        BY <1>0, <3>1, <3>4
      <4>2. v > c + 1
        BY <1>2, <2>1, <3>1, <3>2, <4>1
      <4> QED
        BY <3>1, <3>2, <4>2
    <3> QED
      BY <3>3, <3>4
  <2>2. n - n <= 0 /\ top - n + q + 0 <= room /\ n \in n..top /\ q \in 0..Len(d) /\ 0 \in 0..Len(k)
    BY <1>0, <1>1, <1>2, <1>d, <1>i
  <2>3. \A i \in (q + 1)..Len(d) : d[i] # "ACK"
    <3> SUFFICES ASSUME NEW i \in (q + 1)..Len(d), d[i] = "ACK" PROVE FALSE
      OBVIOUS
    <3>1. i \in 1..Len(d)
      BY <1>d
    <3>2. i \in (q + 1)..Len(b) /\ b[i] = "ACK"
      BY <1>d, <1>i, <3>1
    <3> QED
      BY <1>2, <3>2
  <2>4. 1..0 = {} /\ (0 + 1)..Len(k) = 1..Len(k)
    OBVIOUS
  <2>5. Covers(k, d, n, top, room, n, 0, q)
    BY <2>1, <2>2, <2>3, <2>4 DEF Covers
  <2> QED
    BY <1>k, <2>2, <2>5 DEF Covered
<1> QED
  BY <1>3, <1>4

\* The first frame was the block written last or the next one: it is acknowledged.
LEMMA CoveredStore ==
  ASSUME NEW l \in Seq(Frames), l # <<>>, NEW b \in Seq(Replies), NEW n \in Nat, NEW top \in Nat,
         NEW room \in Int, Covered(l, b, n, top, room), l[1].kind = "good",
         NEW new \in {n, n + 1}, l[1].index = new
  PROVE  Covered(Tail(l), Append(b, "ACK"), new, top, room)
<1>k. PICK k : k = Tail(l)
  OBVIOUS
<1>0. /\ k \in Seq(Frames) /\ Len(l) \in Nat /\ Len(l) >= 1 /\ Len(k) = Len(l) - 1
      /\ \A i \in 1..(Len(l) - 1) : k[i] = l[i + 1]
  BY <1>k, TailFields
<1>d. PICK d : d = Append(b, "ACK")
  OBVIOUS
<1>b. d \in Seq(Replies) /\ Len(b) \in Nat /\ Len(d) = Len(b) + 1
  BY <1>d, AppendFields DEF Replies
<1>1. PICK c \in n..top, p \in 0..Len(l), q \in 0..Len(b) : Covers(l, b, n, top, room, c, p, q)
  BY DEF Covered
<1>2. /\ c - n <= p /\ top - c + q + p <= room
      /\ \A i \in 1..p : l[i].kind = "good" => l[i].index <= c /\ c - l[i].index <= p - i
      /\ \A i \in (p + 1)..Len(l) : l[i].kind = "good" => l[i].index > c + 1
      /\ p > 0 => q = Len(b)
  BY <1>1 DEF Covers
<1>3. p > 0
  <2> SUFFICES ASSUME p = 0 PROVE FALSE
    BY <1>0
  <2>1. 1 \in (p + 1)..Len(l)
    BY <1>0
  <2>2. new > c + 1
    BY <1>2, <2>1
  <2> QED
    BY <2>2
<1>4. new <= c /\ c - new <= p - 1 /\ q = Len(b)
  <2>1. 1 \in 1..p
    BY <1>0, <1>3
  <2> QED
    BY <1>2, <1>3, <2>1
<1>5. p - 1 \in 0..Len(k) /\ Len(d) \in 0..Len(d) /\ c \in new..top
      /\ top - c + Len(d) + (p - 1) <= room
  BY <1>0, <1>b, <1>2, <1>3, <1>4
<1>6. ASSUME NEW i \in 1..(p - 1), k[i].kind = "good"
      PROVE  k[i].index <= c /\ c - k[i].index <= (p - 1) - i
  <2>1. i + 1 \in 1..p /\ i \in 1..(Len(l) - 1) /\ p - (i + 1) = (p - 1) - i
    BY <1>0
  <2>2. k[i] = l[i + 1]
    BY <1>0, <2>1
  <2>3. l[i + 1].index <= c /\ c - l[i + 1].index <= p - (i + 1)
    BY <1>2, <1>6, <2>1, <2>2
  <2> QED
    BY <2>1, <2>2, <2>3
<1>7. ASSUME NEW i \in ((p - 1) + 1)..Len(k), k[i].kind = "good" PROVE k[i].index > c + 1
  <2>1. i + 1 \in (p + 1)..Len(l) /\ i \in 1..(Len(l) - 1)
    BY <1>0, <1>3
  <2>2. k[i] = l[i + 1]
    BY <1>0, <2>1
  <2> QED
    BY <1>2, <1>7, <2>1, <2>2
<1>8. (Len(d) + 1)..Len(d) = {}
  BY <1>b
<1>9. Covers(k, d, new, top, room, c, p - 1, Len(d))
  BY <1>4, <1>5, <1>6, <1>7, <1>8 DEF Covers
<1> QED
  BY <1>k, <1>d, <1>5, <1>9 DEF Covered

-----------------------------------------------------------------------------
(* XMODEM out of step: the steps of either side *)

\* The replies that noise may cause are a number, and none without noise.
LEMMA BudgetFields ==
  ASSUME NEW l, NEW r \in Receivers
  PROVE  /\ Budget(l, r) \in Nat /\ Budget(l, r) <= Retries
         /\ ~r.can /\ (l = <<>> \/ l[1].kind # "noise") => Budget(l, r) = 0
         /\ r.can \/ (l # <<>> /\ l[1].kind = "noise") => Budget(l, r) = Retries - r.retries
BY ConstantFacts DEF Budget, Receivers

\* Types of what the arithmetic of Ahead speaks about.
RoomTyped ==
    /\ Surplus \in Nat /\ faults \in Nat /\ Budget(line, receiver) \in Nat
    /\ Room \in Int /\ Room = 1 + Surplus - Budget(line, receiver) /\ Room <= 1 + Surplus
    /\ Wrote \in Nat /\ sender.block \in Nat
    /\ line \in Seq(Frames) /\ back \in Seq(Replies)
    /\ Len(line) \in Nat /\ Len(back) \in Nat
    /\ receiver \in Receivers /\ sender \in Senders

\* The counts of the invariant are numbers.
LEMMA RoomTypes == Typed => RoomTyped
<1> SUFFICES ASSUME Typed PROVE RoomTyped
  OBVIOUS
<1>1. faults \in Nat /\ receiver \in Receivers /\ sender \in Senders
      /\ line \in Seq(Frames) /\ back \in Seq(Replies)
  BY ConstantFacts DEF Typed, TypeOK
<1>2. Surplus \in Nat
  <2>1. (Retries + 1) * faults \in Nat
    BY <1>1, ConstantFacts
  <2> QED
    BY <1>1, <2>1 DEF Surplus
<1>3. Budget(line, receiver) \in Nat
  BY <1>1, BudgetFields
<1>4. Wrote \in Nat
  <2>1. written[1] \in Seq((0..Len(Files)) \X Nat)
    BY ConstantFacts DEF Typed, TypeOK, FileSet
  <2> QED
    BY <2>1 DEF Wrote
<1>5. sender.block \in Nat
  BY <1>1 DEF Senders
<1> QED
  BY <1>1, <1>2, <1>3, <1>4, <1>5 DEF Room, RoomTyped

\* So they are in the next state.
LEMMA RoomTypesNext == Typed' => RoomTyped'
BY RoomTypes, PTL

\* A disturbance adds to the surplus, a block read as noise all the replies it may cause.
LEMMA SurplusGrows ==
  ASSUME Typed, NEW kind, Disturb(kind)
  PROVE  /\ Surplus' >= Surplus + 1
         /\ kind = "noise" => Surplus' >= Surplus + Retries + 1
<1>1. /\ faults \in Nat /\ faults' = faults + 1 /\ disturbed' = disturbed \union {kind}
      /\ Retries \in Nat
  BY RoomTypes, ConstantFacts DEF RoomTyped, Disturb
<1>m. PICK m \in Nat : m = (Retries + 1) * faults
  BY <1>1
<1>2. (Retries + 1) * faults' = m + Retries + 1
  BY <1>1, <1>m
<1>3. m >= faults
  BY <1>1, <1>m
<1>4. CASE "noise" \in disturbed
  BY <1>1, <1>2, <1>4, <1>m DEF Surplus
<1>5. CASE "noise" \notin disturbed /\ kind = "noise"
  BY <1>1, <1>2, <1>3, <1>5 DEF Surplus
<1>6. CASE "noise" \notin disturbed /\ kind # "noise"
  BY <1>1, <1>6 DEF Surplus
<1> QED
  BY <1>4, <1>5, <1>6

\* Without one it stays.
LEMMA SurplusStays == UNCHANGED <<disturbed, faults>> => Surplus' = Surplus
BY DEF Surplus

\* A receiver that has returned writes no more.
LEMMA AheadReceiverDone ==
  ASSUME Ahead, ~Live(receiver)', UNCHANGED written
  PROVE  Ahead'
BY DEF Ahead, InOrder

\* A sender that has returned gets no further ahead.
LEMMA AheadSenderDone ==
  ASSUME Typed, Typed', Ahead, ~Live(sender)', UNCHANGED <<receiver, written>>,
         sender'.block = sender.block, Surplus <= Surplus',
         Live(receiver) => Queue(line', Wrote, sender.block)
  PROVE  Ahead'
<1>1. InOrder' /\ Wrote' = Wrote
  BY DEF Ahead, InOrder, Wrote
<1> SUFFICES ASSUME Live(receiver) PROVE Ahead'
  BY <1>1 DEF Ahead, Live
<1>2. /\ receiver.expected = (Wrote + 1) % Modulus /\ sender.block - Wrote <= 1 + Surplus
  BY DEF Ahead
<1>3. Surplus \in Nat /\ Surplus' \in Nat /\ sender.block \in Nat /\ Wrote \in Nat
  BY RoomTypes, RoomTypesNext DEF RoomTyped
<1>4. sender'.block - Wrote' <= 1 + Surplus'
  BY <1>1, <1>2, <1>3
<1> QED
  BY <1>1, <1>2, <1>4 DEF Ahead

\* What both sides keep to is enough for the receiver alone.
LEMMA AheadBoth ==
  ASSUME Typed', InOrder', (receiver.expected = (Wrote + 1) % Modulus)',
         Queue(line, Wrote, sender.block)', Busy'
  PROVE  Ahead'
<1>1. /\ Surplus' \in Nat /\ Room' \in Int /\ Room' <= 1 + Surplus'
      /\ Wrote' \in Nat /\ sender'.block \in Nat /\ line' \in Seq(Frames) /\ back' \in Seq(Replies)
  BY RoomTypesNext DEF RoomTyped
<1>2. Covered(line, back, Wrote, sender.block, Room)'
  BY DEF Busy
<1>3. sender'.block - Wrote' <= Room'
  BY <1>1, <1>2, CoveredLead
<1>4. sender'.block - Wrote' <= 1 + Surplus'
  <2>1. PICK s \in Nat, r \in Int, w \in Nat, k \in Nat :
          s = Surplus' /\ r = Room' /\ w = Wrote' /\ k = sender'.block
    BY <1>1
  <2>2. r <= 1 + s /\ k - w <= r
    BY <1>1, <1>3, <2>1
  <2>3. k - w <= 1 + s
    BY <2>2
  <2> QED
    BY <2>1, <2>3
<1> QED
  BY <1>4 DEF Ahead

\* The sender has taken a reply and goes on, with a frame or without.
LEMMA AheadSends ==
  ASSUME Typed, Typed', Ahead, Live(receiver), NEW reply, SenderReads(reply),
         sender.at # "start" \/ sender'.at = "start",
         sender'.at = "start" => sender.at = "start" /\ line' = line /\ sender'.block = sender.block,
         \/ sender'.block = sender.block
         \/ reply = "ACK" /\ sender'.block = sender.block + 1,
         \/ line' = line
         \/ \E x \in Frames :
               /\ line' = Append(line, x) /\ x.kind \in {"good", "eot"}
               /\ x.kind = "good" =>
                     x.file = 1 /\ x.index = sender'.block /\ x.number = sender'.block % Modulus
  PROVE  Ahead'
<1>1. /\ Live(sender) /\ back # <<>> /\ reply = back[1] /\ back' = Tail(back)
      /\ UNCHANGED <<receiver, written, disturbed, faults>>
  BY ReplyTaken DEF SenderReads
<1>2. Busy /\ Queue(line, Wrote, sender.block) /\ InOrder
      /\ receiver.expected = (Wrote + 1) % Modulus
  BY <1>1 DEF Ahead
<1>3. /\ Surplus' = Surplus /\ Wrote' = Wrote /\ InOrder'
  BY <1>1, <1>2, SurplusStays DEF Wrote, InOrder
<1>4. /\ Wrote \in Nat /\ sender.block \in Nat /\ sender'.block \in Nat
      /\ line \in Seq(Frames) /\ back \in Seq(Replies) /\ back' \in Seq(Replies)
      /\ Len(line) \in Nat /\ Len(back) \in Nat /\ Room \in Int /\ receiver \in Receivers
  BY RoomTypes, RoomTypesNext DEF RoomTyped
<1>5. Len(back) >= 1 /\ Len(back') = Len(back) - 1
      /\ \A i \in 1..(Len(back) - 1) : back'[i] = back[i + 1]
  BY <1>1, <1>4, TailFields
<1>6. /\ Len(line) + Len(back) <= Room
      /\ \A i \in 1..Len(line) : line[i].kind # "can" /\ (line[i].kind = "noise" => i = 1)
      /\ Covered(line, back, Wrote, sender.block, Room)
      /\ receiver.at # "begin"
  BY <1>1, <1>2 DEF Busy
<1>7. Covered(line, back', Wrote, sender'.block, Room)
  <2>1. /\ Covered(line, Tail(back), Wrote, sender.block, Room)
        /\ back[1] = "ACK" => Covered(line, Tail(back), Wrote, sender.block + 1, Room)
    BY <1>1, <1>4, <1>6, CoveredTake
  <2> QED
    BY <1>1, <2>1
<1>8. Wrote <= sender'.block
  BY <1>4, <1>7, CoveredLead
<1>9. (sender.at = "start")' => /\ line' = <<>> /\ sender'.block = 0 /\ Wrote' = 0
                                /\ \A i \in 1..Len(back') : back'[i] # "ACK"
  <2> SUFFICES ASSUME sender'.at = "start"
               PROVE  /\ line' = <<>> /\ sender'.block = 0 /\ Wrote' = 0
                      /\ \A i \in 1..Len(back') : back'[i] # "ACK"
    OBVIOUS
  <2>1. /\ line = <<>> /\ sender.block = 0 /\ Wrote = 0
        /\ \A i \in 1..Len(back) : back[i] # "ACK"
    BY <1>2 DEF Busy
  <2>2. \A i \in 1..Len(back') : i + 1 \in 1..Len(back) /\ back'[i] = back[i + 1]
    BY <1>4, <1>5
  <2> QED
    BY <1>3, <2>1, <2>2
<1>10. CASE line' = line
  <2>1. Room' = Room
    BY <1>1, <1>3, <1>10 DEF Room
  <2>x. PICK x \in Frames : x.kind = "eot"
    BY ByteIsFrame DEF Byte
  <2>2. Queue(line, Wrote, sender'.block)
    BY <1>2, <1>4, <1>8, <2>x, QueueAppend
  <2>3. Len(line') + Len(back') <= Room'
    BY <1>4, <1>5, <1>6, <1>10, <2>1
  <2>4. Busy'
    BY <1>1, <1>3, <1>6, <1>7, <1>9, <1>10, <2>1, <2>3 DEF Busy
  <2> QED
    BY <1>1, <1>2, <1>3, <1>10, <2>2, <2>4, AheadBoth
<1>11. CASE line' # line
  <2>1. PICK x \in Frames :
          /\ line' = Append(line, x) /\ x.kind \in {"good", "eot"}
          /\ x.kind = "good" =>
                x.file = 1 /\ x.index = sender'.block /\ x.number = sender'.block % Modulus
    BY <1>11
  <2>2. Queue(line, Wrote, sender'.block) /\ Queue(line', Wrote, sender'.block)
    BY <1>2, <1>4, <1>8, <2>1, QueueAppend
  <2>3. /\ line' \in Seq(Frames) /\ Len(line') = Len(line) + 1
        /\ \A i \in 1..Len(line) : line'[i] = line[i]
        /\ line'[Len(line) + 1] = x
    BY <1>4, <2>1, AppendFields
  <2>4. \A i \in 1..Len(line) : line[i].kind = "good" => line[i].index <= sender'.block
    BY <2>2 DEF Queue
  <2>5. Len(line) + 1 + Len(back') <= Room
    BY <1>4, <1>5, <1>6
  <2>6. Covered(line', back', Wrote, sender'.block, Room)
    BY <1>4, <1>7, <2>1, <2>4, <2>5, CoveredSend
  <2>7. Budget(line', receiver) = Budget(line, receiver)
    <3>1. line' # <<>>
      BY <1>4, <2>3
    <3>2. CASE line = <<>>
      <4>1. line'[1] = x
        BY <2>3, <3>2
      <4> QED
        BY <2>1, <3>1, <3>2, <4>1 DEF Budget
    <3>3. CASE line # <<>>
      <4>1. line'[1] = line[1]
        BY <1>4, <2>3, <3>3, EmptySeq
      <4> QED
        BY <3>1, <3>3, <4>1 DEF Budget
    <3> QED
      BY <3>2, <3>3
  <2>8. Room' = Room
    BY <1>1, <1>3, <2>7 DEF Room
  <2>9. \A i \in 1..Len(line') : line'[i].kind # "can" /\ (line'[i].kind = "noise" => i = 1)
    <3> SUFFICES ASSUME NEW i \in 1..Len(line')
                 PROVE  line'[i].kind # "can" /\ (line'[i].kind = "noise" => i = 1)
      OBVIOUS
    <3>1. CASE i \in 1..Len(line)
      BY <1>6, <2>3, <3>1
    <3>2. CASE i = Len(line) + 1
      BY <2>1, <2>3, <3>2
    <3> QED
      BY <1>4, <2>3, <3>1, <3>2
  <2>10. Len(line') + Len(back') <= Room'
    BY <2>3, <2>5, <2>8, <1>4, <1>5
  <2>11. Busy'
    BY <1>1, <1>3, <1>6, <1>9, <2>6, <2>8, <2>9, <2>10 DEF Busy
  <2> QED
    BY <1>1, <1>2, <1>3, <2>2, <2>11, AheadBoth
<1> QED
  BY <1>10, <1>11

\* The sender has taken the receiver's request and writes its first frame.
LEMMA AheadStarts ==
  ASSUME Typed, Typed', Ahead, Live(receiver), NEW reply, SenderReads(reply),
         sender.at = "start", sender'.at # "start", sender'.block = 1,
         NEW x \in Frames, line' = Append(line, x), x.kind \in {"good", "eot"},
         x.kind = "good" => x.file = 1 /\ x.index = 1 /\ x.number = 1 % Modulus
  PROVE  Ahead'
<1>1. /\ Live(sender) /\ back # <<>> /\ back' = Tail(back)
      /\ UNCHANGED <<receiver, written, disturbed, faults>>
  BY ReplyTaken DEF SenderReads
<1>2. Busy /\ InOrder /\ receiver.expected = (Wrote + 1) % Modulus
  BY <1>1 DEF Ahead
<1>3. /\ Surplus' = Surplus /\ Wrote' = Wrote /\ InOrder'
  BY <1>1, <1>2, SurplusStays DEF Wrote, InOrder
<1>4. /\ back \in Seq(Replies) /\ Len(back) \in Nat /\ Room \in Int /\ receiver \in Receivers
  BY RoomTypes DEF RoomTyped
<1>5. /\ back' \in Seq(Replies) /\ Len(back) >= 1 /\ Len(back') = Len(back) - 1
      /\ \A i \in 1..(Len(back) - 1) : back'[i] = back[i + 1]
  BY <1>1, <1>4, TailFields
<1>6. /\ line = <<>> /\ Wrote = 0 /\ receiver.at # "begin" /\ Len(line) + Len(back) <= Room
      /\ \A i \in 1..Len(back) : back[i] # "ACK"
  BY <1>1, <1>2 DEF Busy
<1>7. line' = <<x>>
  BY <1>6
<1>8. Len(line') = 1 /\ line' # <<>> /\ line'[1] = x
  BY <1>7
<1>9. Len(back) <= Room /\ 1 + Len(back') <= Room /\ 1 <= Room
  <2>1. Len(line) = 0
    BY <1>6
  <2> QED
    BY <1>4, <1>5, <1>6, <2>1
<1>10. Room' = Room
  <2>1. Budget(line', receiver) = Budget(line, receiver)
    BY <1>6, <1>8 DEF Budget
  <2> QED
    BY <1>1, <1>3, <2>1 DEF Room
<1>11. \A i \in 1..Len(line') : i = 1
  BY <1>8
<1>12. Queue(line', 0, 1)
  <2> SUFFICES ASSUME NEW i \in 1..Len(line'), line'[i].kind = "good"
               PROVE  /\ line'[i].file = 1 /\ line'[i].number = line'[i].index % Modulus
                      /\ 0 <= line'[i].index /\ line'[i].index <= 1
                      /\ \A j \in 1..i : line'[j].kind = "good" => line'[j].index <= line'[i].index
    BY DEF Queue
  <2>1. i = 1 /\ line'[i] = x /\ \A j \in 1..i : j = 1
    BY <1>8, <1>11
  <2> QED
    BY <1>8, <2>1
<1>13. Covered(line', back', 0, 1, Room)
  <2>1. CASE x.kind = "good"
    <3>1. ASSUME NEW i \in 1..1, line'[i].kind = "good"
          PROVE  line'[i].index <= 1 /\ 1 - line'[i].index <= 1 - i
      BY <1>8, <2>1
    <3>2. (1 + 1)..Len(line') = {} /\ (Len(back') + 1)..Len(back') = {}
      BY <1>5, <1>8
    <3>3. 1 - 1 + Len(back') + 1 <= Room /\ Len(back') \in 0..Len(back') /\ 1 \in 0..Len(line')
      BY <1>4, <1>5, <1>8, <1>9
    <3>4. Covers(line', back', 0, 1, Room, 1, 1, Len(back'))
      BY <3>1, <3>2, <3>3 DEF Covers
    <3> QED
      BY <3>3, <3>4 DEF Covered
  <2>2. CASE x.kind = "eot"
    <3>1. \A i \in (0 + 1)..Len(line') : line'[i].kind # "good"
      BY <1>8, <1>11, <2>2
    <3>2. \A i \in (0 + 1)..Len(back') : back'[i] # "ACK"
      BY <1>5, <1>6
    <3>3. 1 - 0 + 0 + 0 <= Room /\ 0 \in 0..Len(back') /\ 0 \in 0..Len(line') /\ 1..0 = {}
      BY <1>4, <1>5, <1>8, <1>9
    <3>4. Covers(line', back', 0, 1, Room, 0, 0, 0)
      BY <3>1, <3>2, <3>3 DEF Covers
    <3> QED
      BY <3>3, <3>4 DEF Covered
  <2> QED
    BY <2>1, <2>2
<1>14. Len(line') + Len(back') <= Room'
  BY <1>8, <1>9, <1>10
<1>15. \A i \in 1..Len(line') : line'[i].kind # "can" /\ (line'[i].kind = "noise" => i = 1)
  BY <1>8, <1>11
<1>16. Busy'
  BY <1>1, <1>3, <1>6, <1>10, <1>13, <1>14, <1>15 DEF Busy
<1> QED
  BY <1>1, <1>2, <1>3, <1>6, <1>12, <1>16, AheadBoth

\* What the sender of XMODEM writes.
LEMMA FrameSent ==
  ASSUME NEW s, PlacedSender(s), protocol = "xmodem", s.at \in {"data", "eot"}
  PROVE  /\ Frame(s) \in Frames /\ Frame(s).kind \in {"good", "eot"}
         /\ Frame(s).kind = "good" => /\ s.at = "data" /\ Frame(s).file = 1
                                      /\ Frame(s).index = s.block
                                      /\ Frame(s).number = s.block % Modulus
<1>1. Frame(s) \in Frames
  BY FrameTyped
<1>2. s.file = 1
  BY DEF PlacedSender
<1>3. CASE s.at = "eot"
  BY <1>1, <1>3, FrameFields
<1>4. CASE s.at = "data"
  BY <1>1, <1>2, <1>4, FrameFields DEF BlockNumber
<1> QED
  BY <1>3, <1>4

\* The sender gives up or is done.
LEMMA SendEndsAhead ==
  ASSUME Typed, Typed', Ahead, NEW place \in Final, Send([sender EXCEPT !.at = place]),
         UNCHANGED <<receiver, written>>, Surplus <= Surplus'
  PROVE  Ahead'
<1>1. sender \in Senders
  BY RoomTypes DEF RoomTyped
<1>2. sender' = [sender EXCEPT !.at = place] /\ sender'.at = place /\ sender'.block = sender.block
  BY <1>1 DEF Send, Senders
<1>3. line' = line
  BY <1>1, <1>2 DEF Send, Final
<1>4. Live(receiver) => Queue(line', Wrote, sender.block)
  BY <1>3 DEF Ahead
<1> QED
  BY <1>2, <1>4, AheadSenderDone DEF Live

\* The same, when a reply was read.
LEMMA SendEndsAheadRead ==
  ASSUME Typed, Typed', Ahead, NEW place \in Final, Send([sender EXCEPT !.at = place]),
         NEW reply, SenderReads(reply)
  PROVE  Ahead'
<1>1. UNCHANGED <<receiver, written, disturbed, faults>>
  BY DEF SenderReads
<1>2. Surplus <= Surplus'
  BY <1>1, SurplusStays, RoomTypes DEF RoomTyped
<1> QED
  BY <1>1, <1>2, SendEndsAhead

\* The next round of a loop.
LEMMA NextTryAhead ==
  ASSUME Typed, Typed', Ahead, protocol = "xmodem", NEW reply, SenderReads(reply), NextTry
  PROVE  Ahead'
<1>1. CASE sender.tries + 1 = Retries
  BY <1>1, SendEndsAheadRead DEF NextTry, Final
<1>2. CASE sender.tries + 1 # Retries
  <2>n. PICK s : s = [sender EXCEPT !.tries = @ + 1, !.can = FALSE]
    OBVIOUS
  <2>1. /\ s.at = sender.at /\ s.block = sender.block /\ Send(s) /\ sender' = s
    BY <1>2, <2>n DEF NextTry, Send, Typed, PlacedSender, Senders
  <2>r. UNCHANGED <<receiver, written, protocol>> /\ Live(sender)
    BY DEF SenderReads, Live
  <2>2. CASE ~Live(receiver)
    BY <2>2, <2>r, AheadReceiverDone DEF Live
  <2>3. CASE Live(receiver) /\ sender.at = "start"
    <3>1. line' = line
      BY <2>1, <2>3 DEF Send
    <3> QED
      BY <2>1, <2>3, <3>1, AheadSends
  <2>4. CASE Live(receiver) /\ sender.at \in {"data", "eot"}
    <3>1. PlacedSender(s)
      BY <2>1, <2>r DEF Typed, PlacedSender, Live
    <3>2. line' = Append(line, Frame(s))
      BY <2>1, <2>4 DEF Send
    <3>3. PICK x : x = Frame(s)
      OBVIOUS
    <3>4. /\ x \in Frames /\ x.kind \in {"good", "eot"} /\ line' = Append(line, x)
          /\ x.kind = "good" => x.file = 1 /\ x.index = sender'.block
                                /\ x.number = sender'.block % Modulus
      BY <2>1, <2>4, <3>1, <3>2, <3>3, FrameSent
    <3> QED
      BY <2>1, <2>4, <3>4, AheadSends
  <2> QED
    BY <2>2, <2>3, <2>4, <2>r DEF Typed, PlacedSender, Senders, Live, Final
<1> QED
  BY <1>1, <1>2

\* ReadCan: a second byte is awaited in the same place.
LEMMA ReadCanAhead ==
  ASSUME Typed, Typed', Ahead, ReadCan
  PROVE  Ahead'
<1>1. SenderReads("CAN") /\ UNCHANGED <<line, receiver, written>>
      /\ sender' = [sender EXCEPT !.can = TRUE]
  BY DEF ReadCan, SenderReads
<1>2. sender'.at = sender.at /\ sender'.block = sender.block
  BY <1>1 DEF Typed, PlacedSender, Senders
<1>3. CASE Live(receiver)
  BY <1>1, <1>2, <1>3, AheadSends
<1>4. CASE ~Live(receiver)
  BY <1>1, <1>4, AheadReceiverDone DEF Live
<1> QED
  BY <1>3, <1>4

\* ReadAfterCan: the end, or the next round.
LEMMA ReadAfterCanAhead ==
  ASSUME Typed, Typed', Ahead, protocol = "xmodem", ReadAfterCan
  PROVE  Ahead'
<1>1. PICK reply \in Replies :
        /\ SenderReads(reply)
        /\ NextTry \/ Send([sender EXCEPT !.at = "failed"])
  BY DEF ReadAfterCan
<1> QED
  BY <1>1, NextTryAhead, SendEndsAheadRead DEF Final

\* What SendData makes of the sender.
LEMMA SendDataFields ==
  ASSUME NEW s, PlacedSender(s), protocol = "xmodem", NEW block \in Nat, SendData(s, block)
  PROVE  /\ sender'.at \in {"data", "eot"} /\ sender'.block = block
         /\ \E x \in Frames :
               /\ line' = Append(line, x) /\ x.kind \in {"good", "eot"}
               /\ x.kind = "good" =>
                     x.file = 1 /\ x.index = block /\ x.number = block % Modulus
<1>p. PICK place \in {"eot", "data"} :
        place = IF block > Files[s.file] THEN "eot" ELSE "data"
  OBVIOUS
<1>n. PICK new : new = [s EXCEPT !.at = place, !.block = block, !.tries = 0]
  OBVIOUS
<1>s. s \in Senders /\ 0 \in 0..Retries /\ s.file = 1
  BY ConstantFacts DEF PlacedSender
<1>1. /\ new \in Senders /\ new.at = place /\ new.file = s.file /\ new.tries = 0
      /\ new.block = block
  BY <1>n, <1>s DEF Senders
<1>2. PlacedSender(new)
  BY <1>1, <1>s, ConstantFacts DEF PlacedSender, Live, Final
<1>3. Send(new)
  BY <1>p, <1>n DEF SendData
<1>4. sender' = new /\ line' = Append(line, Frame(new))
  BY <1>1, <1>3 DEF Send
<1>5. PICK x : x = Frame(new)
  OBVIOUS
<1>6. /\ x \in Frames /\ x.kind \in {"good", "eot"} /\ line' = Append(line, x)
      /\ x.kind = "good" => x.file = 1 /\ x.index = block /\ x.number = block % Modulus
  BY <1>1, <1>2, <1>4, <1>5, FrameSent
<1> QED
  BY <1>1, <1>4, <1>6

\* WaitForStart: the first block or the end of an empty file.
LEMMA WaitForStartAhead ==
  ASSUME Typed, Typed', Ahead, protocol = "xmodem", WaitForStart
  PROVE  Ahead'
<1>1. PICK reply \in Replies \ {"CAN"} :
        /\ SenderReads(reply)
        /\ SendData([sender EXCEPT !.crc = reply = "WANT_CRC"], 1) \/ NextTry
  BY DEF WaitForStart
<1>2. sender.at = "start" /\ UNCHANGED <<receiver, written, protocol>>
  BY <1>1 DEF WaitForStart, SenderReads
<1>3. CASE ~Live(receiver)
  BY <1>2, <1>3, AheadReceiverDone DEF Live
<1>4. CASE NextTry
  BY <1>1, <1>4, NextTryAhead
<1>5. CASE Live(receiver) /\ SendData([sender EXCEPT !.crc = reply = "WANT_CRC"], 1)
  <2>c. PICK crc \in BOOLEAN : crc = (reply = "WANT_CRC")
    OBVIOUS
  <2>n. PICK new : new = [sender EXCEPT !.crc = crc]
    OBVIOUS
  <2>1. new \in Senders /\ new.at = sender.at /\ new.file = sender.file /\ new.tries = sender.tries
    BY <2>n, RoomTypes DEF Senders, RoomTyped
  <2>2. PlacedSender(new)
    BY <2>1 DEF Typed, PlacedSender, Live
  <2>3. SendData(new, 1) /\ 1 \in Nat
    BY <1>5, <2>c, <2>n
  <2>4. /\ sender'.at \in {"data", "eot"} /\ sender'.block = 1
        /\ \E x \in Frames :
              /\ line' = Append(line, x) /\ x.kind \in {"good", "eot"}
              /\ x.kind = "good" => x.file = 1 /\ x.index = 1 /\ x.number = 1 % Modulus
    BY <2>2, <2>3, SendDataFields
  <2>5. PICK x \in Frames :
          /\ line' = Append(line, x) /\ x.kind \in {"good", "eot"}
          /\ x.kind = "good" => x.file = 1 /\ x.index = 1 /\ x.number = 1 % Modulus
    BY <2>4
  <2> QED
    BY <1>1, <1>2, <1>5, <2>4, <2>5, AheadStarts
<1> QED
  BY <1>1, <1>3, <1>4, <1>5

\* SendBlock: an ACK brings the next block, a refusal the same again.
LEMMA SendBlockAhead ==
  ASSUME Typed, Typed', Ahead, protocol = "xmodem", SendBlock
  PROVE  Ahead'
<1>1. PICK reply \in Replies \ {"CAN"} :
        /\ SenderReads(reply)
        /\ \/ reply = "ACK" /\ Acknowledged
           \/ NextTry
           \/ Send([sender EXCEPT !.at = "failed"])
  BY DEF SendBlock
<1>2. sender.at = "data" /\ UNCHANGED <<receiver, written, protocol>>
  BY <1>1 DEF SendBlock, SenderReads, Typed, PlacedSender
<1>3. CASE NextTry
  BY <1>1, <1>3, NextTryAhead
<1>4. CASE Send([sender EXCEPT !.at = "failed"])
  BY <1>1, <1>4, SendEndsAheadRead DEF Final
<1>5. CASE ~Live(receiver)
  BY <1>2, <1>5, AheadReceiverDone DEF Live
<1>6. CASE Live(receiver) /\ reply = "ACK" /\ Acknowledged
  <2>1. SendData(sender, sender.block + 1) /\ sender.block + 1 \in Nat /\ PlacedSender(sender)
    BY <1>2, <1>6, RoomTypes DEF Acknowledged, RoomTyped, Typed
  <2>2. /\ sender'.at \in {"data", "eot"} /\ sender'.block = sender.block + 1
        /\ \E x \in Frames :
              /\ line' = Append(line, x) /\ x.kind \in {"good", "eot"}
              /\ x.kind = "good" => x.file = 1 /\ x.index = sender.block + 1
                                    /\ x.number = (sender.block + 1) % Modulus
    BY <2>1, SendDataFields
  <2> QED
    BY <1>1, <1>2, <1>6, <2>2, AheadSends
<1> QED
  BY <1>1, <1>3, <1>4, <1>5, <1>6

\* FinishSend: done, or the EOT again.
LEMMA FinishSendAhead ==
  ASSUME Typed, Typed', Ahead, protocol = "xmodem", FinishSend
  PROVE  Ahead'
<1>1. PICK reply \in Replies \ {"CAN"} :
        /\ SenderReads(reply)
        /\ \/ Send([sender EXCEPT !.at = "ok"])
           \/ NextTry
           \/ Send([sender EXCEPT !.at = "failed"])
  BY DEF FinishSend
<1> QED
  BY <1>1, NextTryAhead, SendEndsAheadRead DEF Final

\* A sender that fails without a word, or after a timeout.
LEMMA SenderFailsAhead ==
  ASSUME Typed, Typed', Ahead, SenderTimeout \/ SenderError
  PROVE  Ahead'
<1>1. /\ sender' = [sender EXCEPT !.at = "failed"] /\ UNCHANGED <<line, receiver, written>>
      /\ UNCHANGED <<faults, disturbed>> \/ Disturb("late") \/ Disturb("error")
  BY DEF SenderTimeout, SenderError, TimeoutIn
<1>2. sender'.at = "failed" /\ sender'.block = sender.block
  BY <1>1 DEF Typed, PlacedSender, Senders
<1>t. Surplus \in Nat /\ Surplus' \in Nat
  BY RoomTypes, RoomTypesNext DEF RoomTyped
<1>3. Surplus <= Surplus'
  <2>1. CASE UNCHANGED <<faults, disturbed>>
    BY <2>1, <1>t, SurplusStays
  <2>2. ASSUME NEW kind, Disturb(kind) PROVE Surplus <= Surplus'
    BY <2>2, <1>t, SurplusGrows
  <2> QED
    BY <1>1, <2>1, <2>2
<1>4. Live(receiver) => Queue(line', Wrote, sender.block)
  BY <1>1 DEF Ahead
<1> QED
  BY <1>1, <1>2, <1>3, <1>4, AheadSenderDone DEF Live, Final

\* StopSender: the cancellation follows what has left.
LEMMA StopSenderAhead ==
  ASSUME Typed, Typed', Ahead, StopSender
  PROVE  Ahead'
<1>1. /\ sender' = [sender EXCEPT !.at = "failed"] /\ UNCHANGED <<receiver, written>>
      /\ Disturb("stop")
  BY DEF StopSender
<1>2. sender'.at = "failed" /\ sender'.block = sender.block
  BY <1>1 DEF Typed, PlacedSender, Senders
<1>t. /\ Surplus \in Nat /\ Surplus' \in Nat /\ Wrote \in Nat /\ sender.block \in Nat
      /\ line \in Seq(Frames) /\ line' \in Seq(Frames) /\ Len(line) \in Nat
  BY RoomTypes, RoomTypesNext DEF RoomTyped
<1>3. Surplus <= Surplus'
  BY <1>1, <1>t, SurplusGrows
<1>4. ASSUME Live(receiver) PROVE Queue(line', Wrote, sender.block)
  <2>1. PICK n \in 0..Len(line) : line' = SubSeq(line, 1, n) \o <<Byte("can"), Byte("can")>>
    BY DEF StopSender
  <2>x. PICK x : x = Byte("can")
    OBVIOUS
  <2>2. x.kind = "can"
    BY <2>x DEF Byte
  <2>3. /\ Len(line') = n + 2 /\ \A i \in 1..n : line'[i] = line[i]
        /\ \A i \in (n + 1)..(n + 2) : line'[i] = x
    BY <1>t, <2>1, <2>x, CutFields
  <2>4. Queue(line, Wrote, sender.block)
    BY <1>4 DEF Ahead
  <2>5. ASSUME NEW i \in 1..Len(line'), line'[i].kind = "good"
        PROVE  /\ line'[i].file = 1 /\ line'[i].number = line'[i].index % Modulus
               /\ Wrote <= line'[i].index /\ line'[i].index <= sender.block
               /\ \A j \in 1..i : line'[j].kind = "good" => line'[j].index <= line'[i].index
    <3>1. i \in 1..n
      BY <2>2, <2>3, <2>5
    <3>2. i \in 1..Len(line) /\ line'[i] = line[i] /\ \A j \in 1..i : line'[j] = line[j]
      BY <1>t, <2>3, <3>1
    <3> QED
      BY <2>4, <2>5, <3>2 DEF Queue
  <2> QED
    BY <2>5 DEF Queue
<1> QED
  BY <1>1, <1>2, <1>3, <1>4, AheadSenderDone DEF Live, Final

\* Frames and replies keep their places, but for a refusal at the end of the replies.
LEMMA AheadKeeps ==
  ASSUME Typed, Typed', Ahead, Live(receiver), Live(receiver)',
         UNCHANGED <<sender, written>>, receiver'.expected = receiver.expected,
         receiver'.at = receiver.at, Surplus <= Surplus',
         Len(line') = Len(line), \A i \in 1..Len(line') : line'[i].kind = "good" => line'[i] = line[i],
         Live(sender) =>
            /\ line # <<>> \/ receiver.at # "begin"
            /\ \A i \in 1..Len(line') : line'[i].kind # "can" /\ (line'[i].kind = "noise" => i = 1)
            /\ \/ /\ back' = back
                  /\ Budget(line', receiver') + Surplus <= Budget(line, receiver) + Surplus'
               \/ /\ back' = Append(back, "NAK")
                  /\ \/ Budget(line', receiver') + 1 + Surplus <= Budget(line, receiver) + Surplus'
                     \/ /\ line = <<>> /\ back = <<>> /\ Budget(line', receiver') = 0
                        /\ Surplus' = Surplus /\ Budget(line, receiver) = 0
  PROVE  Ahead'
<1>1. /\ Queue(line, Wrote, sender.block) /\ InOrder /\ sender.block - Wrote <= 1 + Surplus
      /\ receiver.expected = (Wrote + 1) % Modulus
  BY DEF Ahead
<1>2. /\ Wrote' = Wrote /\ InOrder'
  BY <1>1 DEF Wrote, InOrder
<1>3. /\ Surplus \in Nat /\ Surplus' \in Nat /\ Wrote \in Nat /\ sender.block \in Nat
      /\ line \in Seq(Frames) /\ line' \in Seq(Frames) /\ back \in Seq(Replies)
      /\ back' \in Seq(Replies) /\ Len(line) \in Nat /\ Len(back) \in Nat
      /\ Budget(line, receiver) \in Nat /\ Budget(line', receiver') \in Nat
      /\ Room \in Int /\ Room = 1 + Surplus - Budget(line, receiver)
      /\ Room' \in Int /\ Room' = 1 + Surplus' - Budget(line', receiver')
  BY RoomTypes, RoomTypesNext DEF RoomTyped
<1>4. Queue(line', Wrote, sender.block)
  <2>1. Len(line') <= Len(line)
    BY <1>3
  <2> QED
    BY <1>1, <1>3, <2>1, QueueDamaged
<1>n. PICK s \in Nat, t \in Nat, u \in Nat, v \in Nat :
        /\ s = Surplus /\ t = Surplus' /\ u = Budget(line, receiver) /\ v = Budget(line', receiver')
  BY <1>3
<1>m. s <= t /\ Room = 1 + s - u /\ Room' = 1 + t - v
  BY <1>3, <1>n
<1>5. CASE ~Live(sender)
  <2>1. sender'.block - Wrote' <= 1 + Surplus'
    <3>1. PICK k \in Nat, w \in Nat : k = sender.block /\ w = Wrote
      BY <1>3
    <3>2. k - w <= 1 + s
      BY <1>1, <1>n, <3>1
    <3>3. k - w <= 1 + t
      BY <1>m, <3>2
    <3> QED
      BY <1>2, <1>n, <3>1, <3>3
  <2> QED
    BY <1>1, <1>2, <1>4, <1>5, <2>1 DEF Ahead, Live
<1>6. CASE Live(sender)
  <2>1. Busy
    BY <1>6 DEF Ahead
  <2>2. receiver.at # "begin"
    BY <1>6, <2>1 DEF Busy
  <2>3. Covered(line', back, Wrote, sender.block, Room)
    BY <1>3, <2>1, CoveredDamaged DEF Busy
  <2>4. Covered(line', back', Wrote, sender.block, Room') /\ Len(line') + Len(back') <= Room'
    <3>0. Len(line) + Len(back) <= Room
      BY <2>1 DEF Busy
    <3>1. CASE back' = back /\ Budget(line', receiver') + Surplus <= Budget(line, receiver) + Surplus'
      <4>1. Room <= Room'
        <5>1. v + s <= u + t
          BY <1>n, <3>1
        <5> QED
          BY <1>m, <5>1
      <4>2. Len(line') + Len(back') <= Room'
        <5>1. PICK l \in Nat, k \in Nat, b \in Nat : l = Len(line) /\ k = Len(line') /\ b = Len(back)
          BY <1>3
        <5>2. k <= l /\ l + b <= Room
          BY <3>0, <5>1
        <5>3. k + b <= Room'
          BY <1>3, <4>1, <5>2
        <5> QED
          BY <3>1, <5>1, <5>3
      <4> QED
        BY <1>3, <2>3, <3>1, <4>1, <4>2, CoveredRoomier
    <3>2. CASE /\ back' = Append(back, "NAK")
               /\ Budget(line', receiver') + 1 + Surplus <= Budget(line, receiver) + Surplus'
      <4>1. Room + 1 <= Room' /\ Room + 1 \in Int
        <5>1. v + 1 + s <= u + t
          BY <1>n, <3>2
        <5> QED
          BY <1>m, <5>1
      <4>2. Len(back') = Len(back) + 1 /\ "NAK" \in Replies
        BY <1>3, <3>2, AppendFields DEF Replies
      <4>3. Len(line') + Len(back') <= Room'
        BY <1>3, <3>0, <4>1, <4>2, SMTT(30)
      <4>4. Covered(line', back', Wrote, sender.block, Room + 1)
        BY <1>3, <2>3, <3>2, <4>2, CoveredRefusal
      <4> QED
        BY <1>3, <4>1, <4>3, <4>4, CoveredRoomier
    <3>3. CASE /\ back' = Append(back, "NAK")
               /\ line = <<>> /\ back = <<>> /\ Budget(line', receiver') = 0
               /\ Surplus' = Surplus /\ Budget(line, receiver) = 0
      <4>1. Room' = Room /\ Room >= 1
        <5>1. u = 0 /\ v = 0 /\ t = s
          BY <1>n, <3>3
        <5> QED
          BY <1>m, <5>1
      <4>2. Len(back') = Len(back) + 1 /\ "NAK" \in Replies
        BY <1>3, <3>3, AppendFields DEF Replies
      <4>3. Len(line) = 0 /\ Len(back) = 0
        BY <3>3
      <4>4. Len(line') + Len(back') <= Room'
        BY <1>3, <4>1, <4>2, <4>3
      <4>5. line' = <<>>
        BY <1>3, <4>3, EmptySeq
      <4>6. Covered(line', back', Wrote, sender.block, Room)
        BY <1>3, <2>3, <3>3, <4>2, <4>5, CoveredRefusal
      <4> QED
        BY <4>1, <4>4, <4>6
    <3> QED
      BY <1>6, <3>1, <3>2, <3>3
  <2>5. sender.at = "start" => /\ line' = <<>> /\ sender.block = 0 /\ Wrote = 0
                               /\ \A i \in 1..Len(back') : back'[i] # "ACK"
    <3> SUFFICES ASSUME sender.at = "start"
                 PROVE  /\ line' = <<>> /\ sender.block = 0 /\ Wrote = 0
                        /\ \A i \in 1..Len(back') : back'[i] # "ACK"
      OBVIOUS
    <3>1. /\ line = <<>> /\ sender.block = 0 /\ Wrote = 0
          /\ \A i \in 1..Len(back) : back[i] # "ACK"
      BY <2>1 DEF Busy
    <3>2. line' = <<>>
      <4>1. Len(line) = 0
        BY <3>1
      <4> QED
        BY <1>3, <4>1, EmptySeq
    <3>3. CASE back' = back
      BY <3>1, <3>2, <3>3
    <3>4. CASE back' = Append(back, "NAK")
      <4>1. /\ Len(back') = Len(back) + 1 /\ \A i \in 1..Len(back) : back'[i] = back[i]
            /\ back'[Len(back) + 1] = "NAK"
        BY <1>3, <3>4, AppendFields DEF Replies
      <4>2. \A i \in 1..Len(back') : i \in 1..Len(back) \/ i = Len(back) + 1
        BY <1>3, <4>1, SMTT(30)
      <4> QED
        BY <3>1, <3>2, <4>1, <4>2
    <3> QED
      BY <1>6, <3>3, <3>4
  <2>6. Busy'
    BY <1>2, <1>6, <2>2, <2>4, <2>5 DEF Busy
  <2> QED
    BY <1>1, <1>2, <1>4, <2>6, AheadBoth
<1> QED
  BY <1>5, <1>6

\* The first frame was lost or is refused.
LEMMA AheadDrops ==
  ASSUME Typed, Typed', Ahead, Live(receiver), Live(receiver)', line # <<>>, line' = Tail(line),
         UNCHANGED <<sender, written>>, receiver'.expected = receiver.expected,
         receiver'.at = receiver.at, Surplus <= Surplus',
         Live(sender) =>
            /\ back' = back \/ back' = Append(back, "NAK")
            /\ Budget(line', receiver') + Surplus <= Budget(line, receiver) + Surplus'
  PROVE  Ahead'
<1>1. /\ Queue(line, Wrote, sender.block) /\ InOrder /\ sender.block - Wrote <= 1 + Surplus
      /\ receiver.expected = (Wrote + 1) % Modulus
  BY DEF Ahead
<1>2. /\ Wrote' = Wrote /\ InOrder'
  BY <1>1 DEF Wrote, InOrder
<1>3. /\ Surplus \in Nat /\ Surplus' \in Nat /\ Wrote \in Nat /\ sender.block \in Nat
      /\ line \in Seq(Frames) /\ line' \in Seq(Frames) /\ back \in Seq(Replies)
      /\ back' \in Seq(Replies) /\ Len(line) \in Nat /\ Len(back) \in Nat
      /\ Budget(line, receiver) \in Nat /\ Budget(line', receiver') \in Nat
      /\ Room \in Int /\ Room = 1 + Surplus - Budget(line, receiver)
      /\ Room' \in Int /\ Room' = 1 + Surplus' - Budget(line', receiver')
  BY RoomTypes, RoomTypesNext DEF RoomTyped
<1>4. Queue(line', Wrote, sender.block)
  BY <1>1, <1>3, QueueTail
<1>n. PICK s \in Nat, t \in Nat, u \in Nat, v \in Nat :
        /\ s = Surplus /\ t = Surplus' /\ u = Budget(line, receiver) /\ v = Budget(line', receiver')
  BY <1>3
<1>m. s <= t /\ Room = 1 + s - u /\ Room' = 1 + t - v
  BY <1>3, <1>n
<1>5. CASE ~Live(sender)
  <2>1. sender'.block - Wrote' <= 1 + Surplus'
    <3>1. PICK k \in Nat, w \in Nat : k = sender.block /\ w = Wrote
      BY <1>3
    <3>2. k - w <= 1 + s
      BY <1>1, <1>n, <3>1
    <3>3. k - w <= 1 + t
      BY <1>m, <3>2
    <3> QED
      BY <1>2, <1>n, <3>1, <3>3
  <2> QED
    BY <1>1, <1>2, <1>4, <1>5, <2>1 DEF Ahead, Live
<1>6. CASE Live(sender)
  <2>1. Busy
    BY <1>6 DEF Ahead
  <2>2. /\ Len(line) >= 1 /\ Len(line') = Len(line) - 1
        /\ \A i \in 1..(Len(line) - 1) : line'[i] = line[i + 1]
    BY <1>3, TailFields
  <2>3. sender.at # "start" /\ receiver.at # "begin"
    BY <2>1 DEF Busy
  <2>4. Room <= Room'
    <3>1. v + s <= u + t
      BY <1>n, <1>6
    <3> QED
      BY <1>m, <3>1
  <2>5. Covered(line', back', Wrote, sender.block, Room)
    <3>1. "NAK" \in Replies /\ "NAK" # "ACK"
      BY DEF Replies
    <3>2. back' = back \/ \E x \in Replies : x # "ACK" /\ back' = Append(back, x)
      BY <1>6, <3>1
    <3> QED
      BY <1>3, <2>1, <3>2, CoveredDrop DEF Busy
  <2>6. Covered(line', back', Wrote, sender.block, Room')
    <3>1. PICK r \in Int, more \in Int : r = Room /\ more = Room'
      BY <1>3
    <3>2. r <= more /\ Covered(line', back', Wrote, sender.block, r)
      BY <2>4, <2>5, <3>1
    <3>3. Covered(line', back', Wrote, sender.block, more)
      BY <1>3, <3>2, CoveredRoomier
    <3> QED
      BY <3>1, <3>3
  <2>7. Len(line') + Len(back') <= Room'
    <3>1. Len(back') \in Nat /\ Len(back') <= Len(back) + 1
      <4>1. CASE back' = back
        BY <1>3, <4>1
      <4>2. CASE back' = Append(back, "NAK")
        <5>1. Len(back') = Len(back) + 1
          BY <1>3, <4>2, AppendFields DEF Replies
        <5> QED
          BY <1>3, <5>1
      <4> QED
        BY <1>6, <4>1, <4>2
    <3>2. Len(line) + Len(back) <= Room
      BY <2>1 DEF Busy
    <3> QED
      BY <1>3, <2>2, <2>4, <3>1, <3>2
  <2>8. \A i \in 1..Len(line') : line'[i].kind # "can" /\ (line'[i].kind = "noise" => i = 1)
    <3> SUFFICES ASSUME NEW i \in 1..Len(line')
                 PROVE  line'[i].kind # "can" /\ line'[i].kind # "noise"
      OBVIOUS
    <3>1. i + 1 \in 1..Len(line) /\ i + 1 # 1 /\ line'[i] = line[i + 1]
      BY <1>3, <2>2
    <3> QED
      BY <2>1, <3>1 DEF Busy
  <2>9. Busy'
    BY <1>2, <2>3, <2>6, <2>7, <2>8 DEF Busy
  <2> QED
    BY <1>1, <1>2, <1>4, <2>9, AheadBoth
<1> QED
  BY <1>5, <1>6

\* Behind a first frame that is gone there is no noise.
LEMMA TailQuiet ==
  ASSUME Typed, Ahead, Live(receiver), Live(sender), line # <<>>
  PROVE  Tail(line) = <<>> \/ Tail(line)[1].kind # "noise"
<1>0. line \in Seq(Frames)
  BY RoomTypes DEF RoomTyped
<1>1. /\ Tail(line) \in Seq(Frames) /\ Len(line) \in Nat /\ Len(line) >= 1
      /\ Len(Tail(line)) = Len(line) - 1
      /\ \A i \in 1..(Len(line) - 1) : Tail(line)[i] = line[i + 1]
  BY <1>0, TailFields
<1>2. \A i \in 1..Len(line) : line[i].kind = "noise" => i = 1
  BY DEF Ahead, Busy
<1>3. CASE Len(line) = 1
  <2>1. Len(Tail(line)) = 0
    BY <1>1, <1>3
  <2> QED
    BY <1>1, <2>1, EmptySeq
<1>4. CASE Len(line) # 1
  <2>1. 1 \in 1..(Len(line) - 1) /\ 2 \in 1..Len(line)
    BY <1>1, <1>4
  <2>2. Tail(line)[1] = line[2]
    BY <1>1, <2>1
  <2> QED
    BY <1>2, <2>1, <2>2
<1> QED
  BY <1>3, <1>4

-----------------------------------------------------------------------------
(* XMODEM out of step: the receiver, the line and the theorem *)

\* Blocks less than the modulus apart with the same number are the same.
LEMMA SameNumber ==
  ASSUME NEW m \in Nat, NEW n \in Nat, m <= n, n - m < Modulus, m % Modulus = n % Modulus
  PROVE  m = n
<1> SUFFICES ASSUME m # n PROVE FALSE
  OBVIOUS
<1>k. PICK k \in Nat : k = n - m
  OBVIOUS
<1>1. k \in 1..(Modulus - 1) /\ n = m + k
  BY <1>k, ConstantFacts
<1>2. m % Modulus # (m + k) % Modulus
  BY <1>1, NumbersDiffer
<1> QED
  BY <1>1, <1>2

\* A block that the receiver reads: by its number it is the one written last, the next
\* one, or neither.
LEMMA BlockKnown ==
  ASSUME Typed, Near, Ahead, Live(receiver), line # <<>>, line[1].kind = "good"
  PROVE  /\ line[1].file = 1 /\ line[1].index \in Nat
         /\ line[1].number = receiver.expected <=> line[1].index = Wrote + 1
         /\ line[1].number = (receiver.expected - 1) % Modulus <=> line[1].index = Wrote
<1>1. /\ line \in Seq(Frames) /\ Wrote \in Nat /\ sender.block \in Nat /\ Surplus \in Nat
  BY RoomTypes DEF RoomTyped
<1>2. 1 \in 1..Len(line) /\ line[1].index \in Nat
  BY <1>1, EmptySeq, IndexTyped
<1>3. /\ line[1].file = 1 /\ line[1].number = line[1].index % Modulus
      /\ Wrote <= line[1].index /\ line[1].index <= sender.block
  BY <1>2 DEF Ahead, Queue
<1>4. /\ receiver.expected = (Wrote + 1) % Modulus /\ sender.block - Wrote <= 1 + Surplus
      /\ 1 + Surplus < Modulus
  BY <1>1 DEF Ahead, Near
<1>n. PICK w \in Nat, v \in Nat : w = Wrote /\ v = line[1].index
  BY <1>1, <1>2
<1>5. w <= v /\ v - w < Modulus /\ Modulus \in Nat /\ Modulus > 2
  BY <1>1, <1>3, <1>4, <1>n, ConstantFacts
<1>6. v % Modulus = (w + 1) % Modulus => v = w + 1
  <2> SUFFICES ASSUME v % Modulus = (w + 1) % Modulus PROVE v = w + 1
    OBVIOUS
  <2>1. CASE v = w
    <3>1. 1 \in 1..(Modulus - 1)
      BY <1>5
    <3>2. w % Modulus # (w + 1) % Modulus
      BY <3>1, NumbersDiffer
    <3> QED
      BY <2>1, <3>2
  <2>2. CASE v # w
    <3>1. w + 1 <= v /\ v - (w + 1) < Modulus /\ w + 1 \in Nat
      BY <1>5, <2>2
    <3> QED
      BY <3>1, SameNumber
  <2> QED
    BY <2>1, <2>2
<1>7. v % Modulus = w % Modulus => v = w
  BY <1>5, SameNumber
<1>8. (receiver.expected - 1) % Modulus = w % Modulus
  BY <1>4, <1>n, NumberBefore
<1> QED
  BY <1>2, <1>3, <1>4, <1>6, <1>7, <1>8, <1>n

\* The next block is written, or the last one acknowledged again.
LEMMA StoreAhead ==
  ASSUME Typed, Typed', Near, Ahead, receiver.at = "data", ~receiver.can,
         line # <<>>, line[1].kind = "good", line' = Tail(line), Store(line[1]),
         UNCHANGED <<protocol, sender, disturbed, faults>>
  PROVE  Ahead'
<1>0. Live(receiver)
  BY DEF Live, Final
<1>1. /\ line[1].file = 1 /\ line[1].index \in Nat
      /\ line[1].number = receiver.expected <=> line[1].index = Wrote + 1
      /\ line[1].number = (receiver.expected - 1) % Modulus <=> line[1].index = Wrote
  BY <1>0, BlockKnown
<1>2. /\ Wrote \in Nat /\ sender.block \in Nat /\ Surplus \in Nat
      /\ line \in Seq(Frames) /\ line' \in Seq(Frames) /\ back \in Seq(Replies)
      /\ Len(line) \in Nat /\ Len(back) \in Nat /\ receiver \in Receivers /\ Room \in Int
      /\ Room = 1 + Surplus - Budget(line, receiver)
  BY RoomTypes, RoomTypesNext DEF RoomTyped
<1>3. /\ InOrder /\ receiver.expected = (Wrote + 1) % Modulus
      /\ Queue(line, Wrote, sender.block) /\ sender.block - Wrote <= 1 + Surplus
  BY <1>0 DEF Ahead
<1>4. Surplus' = Surplus
  BY SurplusStays
<1>5. ASSUME Live(sender)
      PROVE  Budget(line', [receiver EXCEPT !.retries = 0]) = 0 /\ Budget(line, receiver) = 0
  <2>1. line' = <<>> \/ line'[1].kind # "noise"
    BY <1>0, <1>5, TailQuiet
  <2>2. [receiver EXCEPT !.retries = 0] \in Receivers /\ ~[receiver EXCEPT !.retries = 0].can
    <3>1. 0 \in 0..Retries
      BY ConstantFacts
    <3>2. PICK r : r = [receiver EXCEPT !.retries = 0]
      OBVIOUS
    <3>3. r \in Receivers /\ r.can = receiver.can
      BY <1>2, <3>1, <3>2 DEF Receivers
    <3> QED
      BY <3>2, <3>3
  <2> QED
    BY <1>2, <2>1, <2>2, BudgetFields
<1>6. CASE line[1].index # Wrote + 1 /\ line[1].index # Wrote
  <2>n. PICK r : r = [receiver EXCEPT !.retries = 0]
    OBVIOUS
  <2>1. /\ receiver' = r /\ back' = back \o <<"NAK">> /\ UNCHANGED written
    BY <1>1, <1>6, <2>n DEF Store, Reply
  <2>2. r.at = receiver.at /\ r.expected = receiver.expected
    BY <1>2, <2>n DEF Receivers
  <2>3. back' = Append(back, "NAK")
    BY <1>2, <2>1
  <2>4. ASSUME Live(sender) PROVE Budget(line', receiver') + Surplus <= Budget(line, receiver) + Surplus'
    <3>1. Budget(line', receiver') = 0 /\ Budget(line, receiver) = 0
      BY <1>5, <2>1, <2>4, <2>n
    <3> QED
      BY <1>2, <1>4, <3>1
  <2>5. Live(receiver)'
    BY <1>0, <2>1, <2>2 DEF Live
  <2>6. Surplus <= Surplus'
    BY <1>2, <1>4
  <2> QED
    BY <1>0, <2>1, <2>2, <2>3, <2>4, <2>5, <2>6, AheadDrops
<1>7. CASE line[1].index = Wrote + 1 \/ line[1].index = Wrote
  <2>v. PICK v \in {Wrote, Wrote + 1} : v = line[1].index
    BY <1>7
  <2>1. /\ back' = Append(back, "ACK") /\ Live(receiver)' /\ receiver'.at # "begin"
        /\ receiver'.expected = (v + 1) % Modulus /\ InOrder' /\ Wrote' = v
        /\ ~receiver'.can
    <3>1. CASE line[1].index = Wrote
      <4>n. PICK r : r = [receiver EXCEPT !.retries = 0]
        OBVIOUS
      <4>0. line[1].index # Wrote + 1
        BY <1>2, <3>1
      <4>1. receiver' = r /\ back' = back \o <<"ACK">> /\ UNCHANGED written
        BY <1>1, <3>1, <4>0, <4>n DEF Store, Reply
      <4>2. r.at = receiver.at /\ r.expected = receiver.expected /\ ~r.can
        BY <1>2, <4>n DEF Receivers
      <4>3. back' = Append(back, "ACK")
        BY <1>2, <4>1
      <4>4. InOrder' /\ Wrote' = Wrote
        BY <1>3, <4>1 DEF InOrder, Wrote
      <4> QED
        BY <1>3, <2>v, <3>1, <4>1, <4>2, <4>3, <4>4 DEF Live, Final
    <3>2. CASE line[1].index = Wrote + 1
      <4>e. PICK next : next = (receiver.expected + 1) % Modulus
        OBVIOUS
      <4>n. PICK r : r = [receiver EXCEPT !.expected = next, !.retries = 0]
        OBVIOUS
      <4>f. receiver.file = 1 /\ protocol = "xmodem"
        BY DEF Typed, PlacedReceiver, Near
      <4>1. /\ receiver' = r /\ back' = back \o <<"ACK">>
            /\ written' = [written EXCEPT ![1] = Append(@, <<1, Wrote + 1>>)]
        BY <1>1, <3>2, <4>e, <4>f, <4>n DEF Store, Reply
      <4>2. r.at = receiver.at /\ r.expected = next /\ ~r.can
        BY <1>2, <4>n DEF Receivers
      <4>3. back' = Append(back, "ACK")
        BY <1>2, <4>1
      <4>4. next = (v + 1) % Modulus
        <5>1. PICK k \in Nat : k = Wrote + 1
          BY <1>2
        <5>2. ((k % Modulus) + 1) % Modulus = (k + 1) % Modulus
          BY NumberNext
        <5> QED
          BY <1>3, <2>v, <3>2, <4>e, <5>1, <5>2
      <4>5. PICK s : s = written[1]
        OBVIOUS
      <4>t. PICK t : t = Append(s, <<1, Len(s) + 1>>)
        OBVIOUS
      <4>6. /\ written \in [FileSet -> Seq((0..Len(Files)) \X Nat)] /\ 1 \in FileSet
            /\ s \in Seq((0..Len(Files)) \X Nat)
        BY <4>5, ConstantFacts DEF Typed, TypeOK, FileSet
      <4>7. Counts(s, 1)
        BY <1>3, <4>5, <4>6 DEF InOrder, Counts
      <4>8. Counts(t, 1) /\ Len(t) = Len(s) + 1
        BY <4>6, <4>7, <4>t, AppendInOrder
      <4>9. written'[1] = t /\ \A g \in FileSet : g # 1 => written'[g] = written[g]
        BY <4>1, <4>5, <4>6, <4>t DEF Wrote
      <4>10. InOrder'
        <5>1. \A g \in FileSet : written'[g] = [i \in 1..Len(written'[g]) |-> <<g, i>>]
          BY <1>3, <4>8, <4>9 DEF InOrder, Counts
        <5> QED
          BY <5>1 DEF InOrder
      <4>11. Wrote' = v
        BY <2>v, <3>2, <4>5, <4>8, <4>9 DEF Wrote
      <4> QED
        BY <4>1, <4>2, <4>3, <4>4, <4>10, <4>11 DEF Live, Final
    <3> QED
      BY <1>7, <3>1, <3>2
  <2>2. Queue(line', v, sender.block)
    BY <1>2, <1>3, <2>v, QueueTail
  <2>3. v \in Nat /\ v >= Wrote
    BY <1>2
  <2>4. CASE ~Live(sender)
    <3>1. sender.block - v <= 1 + Surplus
      BY <1>2, <1>3, <2>3
    <3> QED
      BY <1>4, <2>1, <2>2, <2>4, <3>1 DEF Ahead, Live
  <2>5. CASE Live(sender)
    <3>1. Busy
      BY <1>0, <2>5 DEF Ahead
    <3>2. Covered(line', back', v, sender.block, Room)
      BY <1>2, <2>1, <2>v, <3>1, CoveredStore DEF Busy
    <3>3. Room' = Room
      <4>1. line' = <<>> \/ line'[1].kind # "noise"
        BY <1>0, <2>5, TailQuiet
      <4>2. receiver' \in Receivers
        BY RoomTypesNext DEF RoomTyped
      <4>3. Budget(line', receiver') = 0
        BY <2>1, <4>1, <4>2, BudgetFields
      <4> QED
        BY <1>4, <1>5, <2>5, <4>3 DEF Room
    <3>4. /\ Len(line) >= 1 /\ Len(line') = Len(line) - 1
          /\ \A i \in 1..(Len(line) - 1) : line'[i] = line[i + 1]
      BY <1>2, TailFields
    <3>5. Len(line') + Len(back') <= Room'
      <4>1. Len(back') = Len(back) + 1
        BY <1>2, <2>1, AppendFields DEF Replies
      <4>2. Len(line) + Len(back) <= Room
        BY <3>1 DEF Busy
      <4> QED
        BY <1>2, <3>3, <3>4, <4>1, <4>2
    <3>6. \A i \in 1..Len(line') : line'[i].kind # "can" /\ (line'[i].kind = "noise" => i = 1)
      <4> SUFFICES ASSUME NEW i \in 1..Len(line')
                   PROVE  line'[i].kind # "can" /\ line'[i].kind # "noise"
        OBVIOUS
      <4>1. i + 1 \in 1..Len(line) /\ i + 1 # 1 /\ line'[i] = line[i + 1]
        BY <1>2, <3>4
      <4> QED
        BY <3>1, <4>1 DEF Busy
    <3>7. sender.at # "start"
      BY <3>1 DEF Busy
    <3>8. Busy'
      BY <2>1, <3>2, <3>3, <3>5, <3>6, <3>7 DEF Busy
    <3> QED
      BY <2>1, <2>2, <3>8, AheadBoth
  <2> QED
    BY <2>4, <2>5
<1> QED
  BY <1>6, <1>7

\* What a read may find in a frame, and what it leaves of the line.
LEMMA ReadFinds ==
  ASSUME Typed, ReceiverReads, NEW kind \in Seen(Head(line))
  PROVE  /\ line # <<>> /\ Head(line) = line[1] /\ line[1] \in Frames
         /\ line' = Tail(line) \/ (line' = line /\ line[1].kind = "noise")
         /\ kind = "good" => line[1].kind = "good"
         /\ kind = "can" => line[1].kind \in {"can", "noise"}
         /\ UNCHANGED <<protocol, sender, disturbed, faults>>
<1>1. line \in Seq(Frames) /\ line # <<>>
  BY RoomTypes DEF RoomTyped, ReceiverReads
<1>2. Head(line) = line[1] /\ line[1] \in Frames
  BY <1>1, TailFields
<1>3. line' = Tail(line) \/ (line' = line /\ line[1].kind = "noise")
  BY <1>2 DEF ReceiverReads
<1>4. kind \in Seen(line[1])
  BY <1>2
<1>5. /\ kind = "good" => line[1].kind = "good"
      /\ kind = "can" => line[1].kind \in {"can", "noise"}
  BY <1>4 DEF Seen
<1> QED
  BY <1>1, <1>2, <1>3, <1>5 DEF ReceiverReads

\* What is refused: a frame that is gone, or noise that goes on at the price of a retry.
LEMMA ReadErrorAhead ==
  ASSUME Typed, Typed', Near, Ahead, receiver.at = "data", ReadError,
         UNCHANGED <<sender, written, disturbed, faults>>, line # <<>>,
         \/ line' = Tail(line)
         \/ /\ line[1].kind = "noise" \/ receiver.can
            /\ line' = line \/ line' = <<Byte("noise")>> \o Tail(line)
            /\ line'[1].kind = "noise"
  PROVE  Ahead'
<1>0. Live(receiver)
  BY DEF Live, Final
<1>t. /\ Surplus \in Nat /\ line \in Seq(Frames) /\ line' \in Seq(Frames)
      /\ back \in Seq(Replies) /\ Len(line) \in Nat /\ receiver \in Receivers
      /\ Budget(line, receiver) \in Nat /\ Budget(line', receiver') \in Nat
      /\ receiver' \in Receivers
  BY RoomTypes, RoomTypesNext DEF RoomTyped
<1>1. Surplus' = Surplus
  BY SurplusStays
<1>2. CASE ~(receiver.retries < Retries)
  <2>1. receiver' = [receiver EXCEPT !.at = "failed"]
    BY <1>2 DEF ReadError, Reply
  <2>2. receiver'.at = "failed"
    BY <1>t, <2>1 DEF Receivers
  <2> QED
    BY <2>2, AheadReceiverDone DEF Live, Final
<1>3. CASE receiver.retries < Retries
  <2>n. PICK r : r = [receiver EXCEPT !.retries = @ + 1, !.can = FALSE]
    OBVIOUS
  <2>1. receiver' = r /\ back' = back \o <<"NAK">>
    BY <1>3, <2>n DEF ReadError, Reply
  <2>2. /\ r.at = receiver.at /\ r.expected = receiver.expected /\ ~r.can
        /\ r.retries = receiver.retries + 1
    BY <1>t, <2>n DEF Receivers
  <2>3. back' = Append(back, "NAK")
    BY <1>t, <2>1
  <2>4. Live(receiver)' /\ receiver'.expected = receiver.expected /\ receiver'.at = receiver.at
        /\ Surplus <= Surplus'
    BY <1>0, <1>1, <1>t, <2>1, <2>2 DEF Live
  <2>5. CASE line' = Tail(line)
    <3>1. ASSUME Live(sender) PROVE Budget(line', receiver') + Surplus <= Budget(line, receiver) + Surplus'
      <4>1. line' = <<>> \/ line'[1].kind # "noise"
        BY <1>0, <2>5, <3>1, TailQuiet
      <4>2. Budget(line', receiver') = 0
        BY <1>t, <2>1, <2>2, <4>1, BudgetFields
      <4> QED
        BY <1>1, <1>t, <4>2
    <3> QED
      BY <1>0, <2>3, <2>4, <2>5, <3>1, AheadDrops
  <2>6. CASE /\ line[1].kind = "noise" \/ receiver.can
             /\ line' = line \/ line' = <<Byte("noise")>> \o Tail(line)
             /\ line'[1].kind = "noise"
    <3>1. /\ Len(line') = Len(line) /\ \A i \in 2..Len(line) : line'[i] = line[i]
      <4>1. CASE line' = line
        BY <4>1
      <4>2. CASE line' = <<Byte("noise")>> \o Tail(line)
        <5>1. PICK x \in Frames : x = Byte("noise")
          BY ByteIsFrame
        <5> QED
          BY <1>t, <4>2, <5>1, HeadFields
      <4> QED
        BY <2>6, <4>1, <4>2
    <3>2. line' # <<>>
      BY <1>t, <3>1, EmptySeq
    <3>3. Budget(line', receiver') = Retries - (receiver.retries + 1)
      BY <1>t, <2>1, <2>2, <2>6, <3>2, BudgetFields
    <3>4. Budget(line, receiver) = Retries - receiver.retries
      BY <1>t, <2>6, BudgetFields
    <3>5. Budget(line', receiver') + 1 + Surplus <= Budget(line, receiver) + Surplus'
      <4>1. receiver.retries \in Nat /\ Retries \in Nat
        BY <1>t, ConstantFacts DEF Receivers
      <4> QED
        BY <1>1, <1>t, <3>3, <3>4, <4>1, SMTT(30)
    <3>6. \A i \in 1..Len(line') : line'[i].kind = "good" => line'[i] = line[i]
      <4> SUFFICES ASSUME NEW i \in 1..Len(line'), line'[i].kind = "good" PROVE line'[i] = line[i]
        OBVIOUS
      <4>1. i # 1
        BY <2>6
      <4>2. i \in 2..Len(line)
        BY <1>t, <3>1, <4>1
      <4> QED
        BY <3>1, <4>2
    <3>7. ASSUME Live(sender)
          PROVE  \A i \in 1..Len(line') : line'[i].kind # "can" /\ (line'[i].kind = "noise" => i = 1)
      <4> SUFFICES ASSUME NEW i \in 1..Len(line')
                   PROVE  line'[i].kind # "can" /\ (line'[i].kind = "noise" => i = 1)
        OBVIOUS
      <4>1. CASE i = 1
        BY <2>6, <4>1
      <4>2. CASE i # 1
        <5>1. i \in 2..Len(line) /\ i \in 1..Len(line)
          BY <1>t, <3>1, <4>2
        <5> QED
          BY <1>0, <3>1, <3>7, <5>1 DEF Ahead, Busy
      <4> QED
        BY <4>1, <4>2
    <3> QED
      BY <1>0, <2>3, <2>4, <3>1, <3>5, <3>6, <3>7, AheadKeeps
  <2> QED
    BY <2>5, <2>6
<1> QED
  BY <1>2, <1>3

\* A byte of noise that looks like a CAN: the next byte is awaited.
LEMMA FirstCanAhead ==
  ASSUME Typed, Typed', Near, Ahead, receiver.at = "data", ~receiver.can, line # <<>>,
         Reply([receiver EXCEPT !.can = TRUE], <<>>),
         UNCHANGED <<sender, written, disturbed, faults>>,
         line[1].kind \in {"can", "noise"},
         line' = Tail(line) \/ (line' = line /\ line[1].kind = "noise")
  PROVE  Ahead'
<1>0. Live(receiver)
  BY DEF Live, Final
<1>t. /\ Surplus \in Nat /\ line \in Seq(Frames) /\ line' \in Seq(Frames)
      /\ back \in Seq(Replies) /\ Len(line) \in Nat /\ Len(line) >= 1 /\ receiver \in Receivers
      /\ Budget(line, receiver) \in Nat /\ Budget(line', receiver') \in Nat
      /\ receiver' \in Receivers
  BY RoomTypes, RoomTypesNext, TailFields DEF RoomTyped
<1>1. Surplus' = Surplus
  BY SurplusStays
<1>n. PICK r : r = [receiver EXCEPT !.can = TRUE]
  OBVIOUS
<1>2. receiver' = r /\ back' = back
  BY <1>n, <1>t DEF Reply
<1>3. r.at = receiver.at /\ r.expected = receiver.expected /\ r.can /\ r.retries = receiver.retries
  BY <1>n, <1>t DEF Receivers
<1>4. Live(receiver)' /\ receiver'.expected = receiver.expected /\ receiver'.at = receiver.at
      /\ Surplus <= Surplus'
  BY <1>0, <1>1, <1>2, <1>3, <1>t DEF Live
<1>5. Live(sender) => line[1].kind = "noise"
  BY <1>0, <1>t DEF Ahead, Busy
<1>6. ASSUME Live(sender) PROVE Budget(line', receiver') + Surplus <= Budget(line, receiver) + Surplus'
  <2>1. Budget(line', receiver') = Retries - receiver.retries
    BY <1>2, <1>3, <1>t, BudgetFields
  <2>2. Budget(line, receiver) = Retries - receiver.retries
    BY <1>5, <1>6, <1>t, BudgetFields
  <2>3. Budget(line', receiver') = Budget(line, receiver)
    BY <2>1, <2>2
  <2> QED
    BY <1>1, <1>t, <2>3
<1>7. CASE line' = Tail(line)
  BY <1>0, <1>2, <1>4, <1>6, <1>7, AheadDrops
<1>8. CASE line' = line
  <2>1. ASSUME Live(sender)
        PROVE  \A i \in 1..Len(line) : line[i].kind # "can" /\ (line[i].kind = "noise" => i = 1)
    BY <1>0, <2>1 DEF Ahead, Busy
  <2> QED
    BY <1>0, <1>2, <1>4, <1>6, <1>8, <2>1, AheadKeeps
<1> QED
  BY <1>7, <1>8

\* A receiver that gives up or is done.
LEMMA ReplyEndsAhead ==
  ASSUME Typed, Ahead, NEW place \in Final, NEW bytes,
         Reply([receiver EXCEPT !.at = place], bytes), UNCHANGED written
  PROVE  Ahead'
<1>1. receiver' = [receiver EXCEPT !.at = place] /\ receiver \in Receivers
  BY RoomTypes DEF Reply, RoomTyped
<1>2. receiver'.at = place
  BY <1>1 DEF Receivers
<1> QED
  BY <1>2, AheadReceiverDone DEF Live

\* ReadPacket: a block, the end, the first byte of a cancellation or an error.
LEMMA ReadPacketAhead ==
  ASSUME Typed, Typed', Near, Ahead, ReadPacket
  PROVE  Ahead'
<1>1. receiver.at = "data" /\ ~receiver.can /\ ReceiverReads
  BY DEF ReadPacket
<1>2. PICK kind \in Seen(Head(line)) :
        \/ kind = "good" /\ Store(Head(line))
        \/ EndOfFile /\ UNCHANGED written
        \/ kind = "can" /\ Reply([receiver EXCEPT !.can = TRUE], <<>>) /\ UNCHANGED written
        \/ ReadError /\ UNCHANGED written
  BY DEF ReadPacket
<1>3. /\ line # <<>> /\ Head(line) = line[1]
      /\ line' = Tail(line) \/ (line' = line /\ line[1].kind = "noise")
      /\ kind = "good" => line[1].kind = "good"
      /\ kind = "can" => line[1].kind \in {"can", "noise"}
      /\ UNCHANGED <<protocol, sender, disturbed, faults>>
  BY <1>1, ReadFinds
<1>4. CASE kind = "good" /\ Store(Head(line))
  BY <1>1, <1>3, <1>4, StoreAhead
<1>5. CASE EndOfFile /\ UNCHANGED written
  <2>1. Reply([receiver EXCEPT !.at = "ok"], <<"ACK">>)
    BY <1>5 DEF EndOfFile, Near
  <2> QED
    BY <1>5, <2>1, ReplyEndsAhead DEF Final
<1>6. CASE kind = "can" /\ Reply([receiver EXCEPT !.can = TRUE], <<>>) /\ UNCHANGED written
  BY <1>1, <1>3, <1>6, FirstCanAhead
<1>7. CASE ReadError /\ UNCHANGED written
  BY <1>1, <1>3, <1>7, ReadErrorAhead
<1> QED
  BY <1>2, <1>4, <1>5, <1>6, <1>7

\* ReadAfterFirstCan: the end, or an error that may leave noise.
LEMMA ReadAfterFirstCanAhead ==
  ASSUME Typed, Typed', Near, Ahead, ReadAfterFirstCan
  PROVE  Ahead'
<1>1. /\ receiver.can /\ line # <<>> /\ UNCHANGED <<protocol, sender, written, disturbed, faults>>
      /\ receiver.at = "data"
      /\ line' = Tail(line) \/ line' = <<Byte("noise")>> \o Tail(line)
  BY DEF ReadAfterFirstCan, AfterMarker, Typed, PlacedReceiver, Near
<1>2. CASE Reply([receiver EXCEPT !.at = "failed"], <<>>)
  BY <1>1, <1>2, ReplyEndsAhead DEF Final
<1>3. CASE ReadError
  <2>1. line' = <<Byte("noise")>> \o Tail(line) => line'[1].kind = "noise"
    <3>1. PICK x \in Frames : x = Byte("noise")
      BY ByteIsFrame
    <3>2. x.kind = "noise"
      BY <3>1 DEF Byte
    <3>3. line \in Seq(Frames)
      BY RoomTypes DEF RoomTyped
    <3>4. (<<x>> \o Tail(line))[1] = x
      BY <1>1, <3>3, HeadFields
    <3> QED
      BY <3>1, <3>2, <3>4
  <2> QED
    BY <1>1, <1>3, <2>1, ReadErrorAhead
<1> QED
  BY <1>2, <1>3 DEF ReadAfterFirstCan

\* Begin: one request is under way.
LEMMA BeginAhead ==
  ASSUME Typed, Typed', Ahead, Near, Begin
  PROVE  Ahead'
<1>1. /\ receiver.at = "begin" /\ UNCHANGED <<sender, line, written, disturbed, faults>>
      /\ protocol = "xmodem"
  BY DEF Begin, Near
<1>0. Live(receiver)
  BY <1>1 DEF Live, Final
<1>t. /\ Surplus \in Nat /\ receiver \in Receivers /\ Wrote \in Nat /\ Room \in Int
      /\ sender.block \in Nat /\ line \in Seq(Frames) /\ back \in Seq(Replies)
  BY RoomTypes DEF RoomTyped
<1>a. PICK ask \in Replies : ask # "ACK" /\ ask = IF receiver.crc THEN "WANT_CRC" ELSE "NAK"
  BY DEF Replies
<1>n. PICK r : r = [receiver EXCEPT !.at = "data", !.file = 1]
  OBVIOUS
<1>2. receiver' = r /\ back' = back \o <<ask>>
  BY <1>1, <1>a, <1>n DEF Begin, Reply
<1>3. /\ r.at = "data" /\ r.expected = receiver.expected /\ r.can = receiver.can
      /\ r.retries = receiver.retries
  BY <1>n, <1>t DEF Receivers
<1>4. /\ InOrder /\ receiver.expected = (Wrote + 1) % Modulus /\ Queue(line, Wrote, sender.block)
      /\ sender.block - Wrote <= 1 + Surplus
  BY <1>0 DEF Ahead
<1>5. /\ Surplus' = Surplus /\ Wrote' = Wrote /\ InOrder'
  BY <1>1, <1>4, SurplusStays DEF Wrote, InOrder
<1>6. CASE ~Live(sender)
  BY <1>1, <1>2, <1>3, <1>4, <1>5, <1>6 DEF Ahead, Live
<1>7. CASE Live(sender)
  <2>1. Busy
    BY <1>0, <1>7 DEF Ahead
  <2>2. /\ sender.at = "start" /\ back = <<>> /\ ~receiver.can /\ line = <<>>
        /\ sender.block = 0 /\ Wrote = 0
    BY <1>1, <2>1 DEF Busy
  <2>3. back' = <<ask>> /\ back' = Append(back, ask)
    BY <1>2, <2>2
  <2>4. Len(back') = 1 /\ back'[1] = ask /\ Len(line') = 0
    BY <1>1, <2>2, <2>3
  <2>5. Budget(line, receiver) = 0 /\ Budget(line', receiver') = 0
    BY <1>1, <1>2, <1>3, <2>2 DEF Budget
  <2>6. Room' = Room /\ Room = 1 + Surplus
    BY <1>5, <1>t, <2>5 DEF Room
  <2>7. Covered(line', back', Wrote, sender.block, Room)
    BY <1>1, <1>a, <1>t, <2>1, <2>2, <2>3, CoveredRefusal DEF Busy
  <2>8. Len(line') + Len(back') <= Room'
    BY <1>t, <2>4, <2>6
  <2>9. \A i \in 1..Len(back') : back'[i] # "ACK"
    BY <1>a, <2>4
  <2>10. Busy'
    BY <1>1, <1>2, <1>3, <1>5, <2>1, <2>2, <2>6, <2>7, <2>8, <2>9 DEF Busy
  <2> QED
    BY <1>1, <1>2, <1>3, <1>4, <1>5, <2>10, AheadBoth
<1> QED
  BY <1>6, <1>7

\* ReceiverTimeout: a refusal on a silent line, or one that a disturbance pays for.
LEMMA ReceiverTimeoutAhead ==
  ASSUME Typed, Typed', Ahead, Near, ReceiverTimeout
  PROVE  Ahead'
<1>1. /\ receiver.at = "data" /\ ReadError /\ UNCHANGED <<protocol, sender, line, written>>
      /\ \/ /\ line = <<>> /\ (sender.at \in Final \/ back = <<>>)
            /\ UNCHANGED <<faults, disturbed>>
         \/ Disturb("late")
  BY DEF ReceiverTimeout, TimeoutIn, Typed, PlacedReceiver, Receivers, Near, Final
<1>0. Live(receiver)
  BY <1>1 DEF Live, Final
<1>t. /\ Surplus \in Nat /\ Surplus' \in Nat /\ receiver \in Receivers /\ receiver' \in Receivers
      /\ line \in Seq(Frames) /\ back \in Seq(Replies)
      /\ Budget(line, receiver) \in Nat /\ Budget(line', receiver') \in Nat
  BY RoomTypes, RoomTypesNext DEF RoomTyped
<1>2. CASE ~(receiver.retries < Retries)
  <2>1. receiver' = [receiver EXCEPT !.at = "failed"]
    BY <1>1, <1>2 DEF ReadError, Reply
  <2>2. receiver'.at = "failed"
    BY <1>t, <2>1 DEF Receivers
  <2> QED
    BY <1>1, <2>2, AheadReceiverDone DEF Live, Final
<1>3. CASE receiver.retries < Retries
  <2>n. PICK r : r = [receiver EXCEPT !.retries = @ + 1, !.can = FALSE]
    OBVIOUS
  <2>1. receiver' = r /\ back' = back \o <<"NAK">>
    BY <1>1, <1>3, <2>n DEF ReadError, Reply
  <2>2. /\ r.at = receiver.at /\ r.expected = receiver.expected /\ ~r.can
        /\ r.retries = receiver.retries + 1
    BY <1>t, <2>n DEF Receivers
  <2>3. back' = Append(back, "NAK")
    BY <1>t, <2>1
  <2>4. receiver.retries \in Nat /\ Retries \in Nat
    BY <1>t, ConstantFacts DEF Receivers
  <2>5. \/ Budget(line', receiver') = 0
        \/ /\ Budget(line, receiver) = Retries - receiver.retries
           /\ Budget(line', receiver') = Retries - (receiver.retries + 1)
    BY <1>1, <1>t, <2>1, <2>2, BudgetFields
  <2>6. Budget(line', receiver') <= Budget(line, receiver)
    BY <1>t, <2>4, <2>5
  <2>7. ASSUME Live(sender)
        PROVE  \/ Budget(line', receiver') + 1 + Surplus <= Budget(line, receiver) + Surplus'
               \/ /\ line = <<>> /\ back = <<>> /\ Budget(line', receiver') = 0
                  /\ Surplus' = Surplus /\ Budget(line, receiver) = 0
    <3>1. CASE Disturb("late")
      <4>1. Surplus' >= Surplus + 1
        BY <3>1, SurplusGrows
      <4> QED
        BY <1>t, <2>6, <4>1
    <3>2. CASE line = <<>> /\ back = <<>> /\ UNCHANGED <<faults, disturbed>>
      <4>1. Surplus' = Surplus
        BY <3>2, SurplusStays
      <4>2. CASE ~receiver.can
        <5>1. Budget(line, receiver) = 0
          BY <1>t, <3>2, <4>2, BudgetFields
        <5>2. Budget(line', receiver') = 0
          BY <1>t, <2>6, <5>1
        <5> QED
          BY <3>2, <4>1, <5>1, <5>2
      <4>3. CASE receiver.can
        <5>1. Budget(line, receiver) = Retries - receiver.retries
          BY <1>t, <4>3, BudgetFields
        <5>2. Budget(line', receiver') = 0
          BY <1>1, <1>t, <2>1, <2>2, <3>2, BudgetFields
        <5> QED
          BY <1>3, <1>t, <2>4, <4>1, <5>1, <5>2
      <4> QED
        BY <4>2, <4>3
    <3> QED
      BY <1>1, <2>7, <3>1, <3>2 DEF Live
  <2>8. Surplus <= Surplus'
    BY <1>1, <1>t, SurplusGrows, SurplusStays
  <2>9. Live(receiver)' /\ receiver'.expected = receiver.expected /\ receiver'.at = receiver.at
    BY <1>0, <2>1, <2>2 DEF Live
  <2>10. ASSUME Live(sender)
         PROVE  \A i \in 1..Len(line) : line[i].kind # "can" /\ (line[i].kind = "noise" => i = 1)
    BY <1>0, <2>10 DEF Ahead, Busy
  <2> QED
    BY <1>0, <1>1, <2>3, <2>7, <2>8, <2>9, <2>10, AheadKeeps
<1> QED
  BY <1>2, <1>3

\* A receiver that fails or is stopped.
LEMMA ReceiverFailsAhead ==
  ASSUME Typed, Ahead, ReceiverError \/ StopReceiver
  PROVE  Ahead'
<1>1. receiver' = [receiver EXCEPT !.at = "failed"] /\ receiver \in Receivers /\ UNCHANGED written
  BY RoomTypes DEF ReceiverError, StopReceiver, RoomTyped
<1>2. receiver'.at = "failed"
  BY <1>1 DEF Receivers
<1> QED
  BY <1>1, <1>2, AheadReceiverDone DEF Live, Final

\* DamageBlock: the block keeps its place, and noise is paid for.
LEMMA DamageBlockAhead ==
  ASSUME Typed, Typed', Ahead, DamageBlock
  PROVE  Ahead'
<1>1. /\ line # <<>> /\ Head(line).kind = "good"
      /\ UNCHANGED <<protocol, sender, receiver, back, written>>
  BY DEF DamageBlock
<1>2. PICK kind \in {"bad", "noise"}, cause \in {"noise", "header", "damage"} :
        /\ line' = <<[Head(line) EXCEPT !.kind = kind]>> \o Tail(line)
        /\ Disturb(cause) /\ (kind = "noise" => cause = "noise")
  <2>1. PICK kind \in {"bad", "noise"} :
          /\ line' = <<[Head(line) EXCEPT !.kind = kind]>> \o Tail(line)
          /\ Disturb(IF kind = "noise" THEN "noise"
                     ELSE IF Head(line).index = 0 THEN "header" ELSE "damage")
    BY DEF DamageBlock
  <2>2. PICK cause \in {"noise", "header", "damage"} :
          cause = IF kind = "noise" THEN "noise"
                  ELSE IF Head(line).index = 0 THEN "header" ELSE "damage"
    OBVIOUS
  <2> QED
    BY <2>1, <2>2
<1>t. /\ Surplus \in Nat /\ Surplus' \in Nat /\ receiver \in Receivers
      /\ line \in Seq(Frames) /\ line' \in Seq(Frames) /\ back \in Seq(Replies)
      /\ Len(line) \in Nat
      /\ Budget(line, receiver) \in Nat /\ Budget(line', receiver') \in Nat
  BY RoomTypes, RoomTypesNext DEF RoomTyped
<1>3. CASE ~Live(receiver)
  BY <1>1, <1>3, AheadReceiverDone DEF Live
<1>4. CASE Live(receiver)
  <2>1. Head(line) = line[1] /\ line[1] \in Frames
    BY <1>1, <1>t, TailFields
  <2>x. PICK x : x = [line[1] EXCEPT !.kind = kind]
    OBVIOUS
  <2>2. x \in Frames /\ x.kind = kind
    BY <2>1, <2>x DEF Frames
  <2>3. line' = <<x>> \o Tail(line)
    BY <1>2, <2>1, <2>x
  <2>4. /\ Len(line) >= 1 /\ Len(line') = Len(line) /\ line'[1] = x
        /\ \A i \in 2..Len(line) : line'[i] = line[i]
    BY <1>1, <1>t, <2>2, <2>3, HeadFields
  <2>5. \A i \in 1..Len(line') : line'[i].kind = "good" => line'[i] = line[i]
    <3> SUFFICES ASSUME NEW i \in 1..Len(line'), line'[i].kind = "good" PROVE line'[i] = line[i]
      OBVIOUS
    <3>1. i # 1
      BY <2>2, <2>4
    <3>2. i \in 2..Len(line)
      BY <1>t, <2>4, <3>1
    <3> QED
      BY <2>4, <3>2
  <2>6. ASSUME Live(sender)
        PROVE  \A i \in 1..Len(line') : line'[i].kind # "can" /\ (line'[i].kind = "noise" => i = 1)
    <3> SUFFICES ASSUME NEW i \in 1..Len(line')
                 PROVE  line'[i].kind # "can" /\ (line'[i].kind = "noise" => i = 1)
      OBVIOUS
    <3>1. CASE i = 1
      BY <2>2, <2>4, <3>1
    <3>2. CASE i # 1
      <4>1. i \in 2..Len(line) /\ i \in 1..Len(line)
        BY <1>t, <2>4, <3>2
      <4> QED
        BY <1>4, <2>4, <2>6, <4>1 DEF Ahead, Busy
    <3> QED
      BY <3>1, <3>2
  <2>7. Surplus' >= Surplus + 1 /\ (kind = "noise" => Surplus' >= Surplus + Retries + 1)
    BY <1>2, SurplusGrows
  <2>8. Budget(line', receiver') + Surplus <= Budget(line, receiver) + Surplus'
    <3>0. Retries \in Nat /\ receiver' = receiver
      BY <1>1, ConstantFacts
    <3>1. CASE kind = "noise"
      <4>1. Budget(line', receiver') <= Retries
        BY <1>t, <3>0, BudgetFields
      <4> QED
        BY <1>t, <2>7, <3>0, <3>1, <4>1
    <3>2. CASE kind = "bad"
      <4>1. line' # <<>> /\ line'[1].kind # "noise" /\ line[1].kind # "noise"
        BY <1>1, <1>t, <2>1, <2>2, <2>4, <3>2
      <4>2. Budget(line', receiver') = Budget(line, receiver)
        BY <3>0, <4>1 DEF Budget
      <4> QED
        BY <1>t, <2>7, <4>2
    <3> QED
      BY <3>1, <3>2
  <2>9. Surplus <= Surplus' /\ Live(receiver)'
    BY <1>1, <1>4, <1>t, <2>7 DEF Live
  <2> QED
    BY <1>1, <1>4, <2>4, <2>5, <2>6, <2>8, <2>9, AheadKeeps
<1> QED
  BY <1>3, <1>4

\* LoseFrame: the first frame is gone.
LEMMA LoseFrameAhead ==
  ASSUME Typed, Typed', Ahead, LoseFrame
  PROVE  Ahead'
<1>1. /\ line # <<>> /\ line' = Tail(line) /\ Disturb("loss")
      /\ UNCHANGED <<protocol, sender, receiver, back, written>>
  BY DEF LoseFrame
<1>t. /\ Surplus \in Nat /\ Surplus' \in Nat /\ receiver \in Receivers
      /\ Budget(line, receiver) \in Nat /\ Budget(line', receiver') \in Nat
  BY RoomTypes, RoomTypesNext DEF RoomTyped
<1>2. Surplus <= Surplus'
  BY <1>1, <1>t, SurplusGrows
<1>3. CASE ~Live(receiver)
  BY <1>1, <1>3, AheadReceiverDone DEF Live
<1>4. CASE Live(receiver)
  <2>1. ASSUME Live(sender) PROVE Budget(line', receiver') + Surplus <= Budget(line, receiver) + Surplus'
    <3>1. line' = <<>> \/ line'[1].kind # "noise"
      BY <1>1, <1>4, <2>1, TailQuiet
    <3>2. Budget(line', receiver') <= Budget(line, receiver)
      <4>1. CASE receiver.can
        <5>1. Budget(line', receiver') = Budget(line, receiver)
          BY <1>1, <4>1 DEF Budget
        <5> QED
          BY <1>t, <5>1
      <4>2. CASE ~receiver.can
        <5>1. Budget(line', receiver') = 0
          BY <1>1, <1>t, <3>1, <4>2, BudgetFields
        <5> QED
          BY <1>t, <5>1
      <4> QED
        BY <4>1, <4>2
    <3> QED
      BY <1>2, <1>t, <3>2
  <2>2. Live(receiver)'
    BY <1>1, <1>4 DEF Live
  <2> QED
    BY <1>1, <1>2, <1>4, <2>1, <2>2, AheadDrops
<1> QED
  BY <1>3, <1>4

\* LoseReply and DamageReply: no ACK is added.
LEMMA RepliesAhead ==
  ASSUME Typed, Typed', Ahead, LoseReply \/ DamageReply
  PROVE  Ahead'
<1>1. /\ back # <<>> /\ UNCHANGED <<protocol, sender, receiver, line, written>> /\ Disturb("loss")
      /\ \/ back' = Tail(back)
         \/ \E byte \in {"junk", "CAN"} : back' = <<byte>> \o Tail(back)
  BY DEF LoseReply, DamageReply
<1>t. /\ Surplus \in Nat /\ Surplus' \in Nat /\ Wrote \in Nat /\ sender.block \in Nat
      /\ line \in Seq(Frames) /\ back \in Seq(Replies) /\ back' \in Seq(Replies)
      /\ Len(line) \in Nat /\ Len(back) \in Nat
      /\ Room \in Int /\ Room = 1 + Surplus - Budget(line, receiver)
      /\ Room' \in Int /\ Room' = 1 + Surplus' - Budget(line', receiver')
      /\ Budget(line, receiver) \in Nat
  BY RoomTypes, RoomTypesNext DEF RoomTyped
<1>2. Surplus <= Surplus' /\ Room <= Room'
  <2>1. Surplus' >= Surplus + 1
    BY <1>1, SurplusGrows
  <2>2. Budget(line', receiver') = Budget(line, receiver)
    BY <1>1
  <2>3. PICK s \in Nat, u \in Nat, b \in Nat :
          s = Surplus /\ u = Surplus' /\ b = Budget(line, receiver)
    BY <1>t
  <2>4. u >= s + 1 /\ Room = 1 + s - b /\ Room' = 1 + u - b
    BY <1>t, <2>1, <2>2, <2>3
  <2> QED
    BY <2>3, <2>4
<1>3. CASE ~Live(receiver)
  BY <1>1, <1>3, AheadReceiverDone DEF Live
<1>4. CASE Live(receiver)
  <2>1. /\ InOrder /\ receiver.expected = (Wrote + 1) % Modulus /\ Queue(line, Wrote, sender.block)
        /\ sender.block - Wrote <= 1 + Surplus
    BY <1>4 DEF Ahead
  <2>2. Wrote' = Wrote /\ InOrder'
    BY <1>1, <2>1 DEF Wrote, InOrder
  <2>3. CASE ~Live(sender)
    <3>1. sender.block - Wrote <= 1 + Surplus'
      BY <1>2, <1>t, <2>1, SMTT(30)
    <3> QED
      BY <1>1, <2>1, <2>2, <2>3, <3>1 DEF Ahead, Live
  <2>4. CASE Live(sender)
    <3>1. Busy
      BY <1>4, <2>4 DEF Ahead
    <3>2. /\ Len(line) + Len(back) <= Room /\ Covered(line, back, Wrote, sender.block, Room)
          /\ sender.at = "start" => \A i \in 1..Len(back) : back[i] # "ACK"
          /\ receiver.at # "begin"
      BY <1>1, <3>1 DEF Busy
    <3>3. /\ Covered(line, back', Wrote, sender.block, Room) /\ Len(back') <= Len(back)
          /\ Len(back') \in Nat
          /\ sender.at = "start" => \A i \in 1..Len(back') : back'[i] # "ACK"
      <4>1. CASE back' = Tail(back)
        <5>1. Covered(line, back', Wrote, sender.block, Room)
          BY <1>1, <1>t, <3>2, <4>1, CoveredTake
        <5>2. /\ Len(back') = Len(back) - 1 /\ Len(back) >= 1
              /\ \A i \in 1..(Len(back) - 1) : back'[i] = back[i + 1]
          BY <1>1, <1>t, <4>1, TailFields
        <5>3. ASSUME sender.at = "start", NEW i \in 1..Len(back') PROVE back'[i] # "ACK"
          <6>1. i + 1 \in 1..Len(back) /\ back'[i] = back[i + 1]
            BY <1>t, <5>2
          <6> QED
            BY <3>2, <5>3, <6>1
        <5>4. Len(back') <= Len(back) /\ Len(back') \in Nat
          BY <1>t, <5>2
        <5> QED
          BY <5>1, <5>3, <5>4
      <4>2. CASE \E byte \in {"junk", "CAN"} : back' = <<byte>> \o Tail(back)
        <5>1. PICK byte \in {"junk", "CAN"} : back' = <<byte>> \o Tail(back)
          BY <4>2
        <5>2. byte \in Replies /\ byte # "ACK"
          BY DEF Replies
        <5>3. /\ Len(back') = Len(back) /\ back'[1] = byte
              /\ \A i \in 2..Len(back) : back'[i] = back[i]
          BY <1>1, <1>t, <5>1, <5>2, HeadFields
        <5>4. ASSUME NEW i \in 1..Len(back'), back'[i] = "ACK" PROVE i \in 1..Len(back) /\ back[i] = "ACK"
          <6>1. i # 1
            BY <5>2, <5>3, <5>4
          <6>2. i \in 2..Len(back)
            BY <1>t, <5>3, <6>1
          <6> QED
            BY <1>t, <5>3, <5>4, <6>2
        <5>5. Covered(line, back', Wrote, sender.block, Room)
          BY <1>t, <3>2, <5>3, <5>4, CoveredDamaged
        <5>6. Len(back') <= Len(back) /\ Len(back') \in Nat
          BY <1>t, <5>3
        <5> QED
          BY <3>2, <5>4, <5>5, <5>6
      <4> QED
        BY <1>1, <4>1, <4>2
    <3>4. Covered(line, back', Wrote, sender.block, Room')
      <4>1. PICK r \in Int, more \in Int : r = Room /\ more = Room'
        BY <1>t
      <4>2. r <= more /\ Covered(line, back', Wrote, sender.block, r)
        BY <1>2, <3>3, <4>1
      <4>3. Covered(line, back', Wrote, sender.block, more)
        BY <1>t, <4>2, CoveredRoomier
      <4> QED
        BY <4>1, <4>3
    <3>5. Len(line') + Len(back') <= Room'
      BY <1>1, <1>2, <1>t, <3>2, <3>3
    <3>6. Busy'
      BY <1>1, <2>2, <3>1, <3>2, <3>3, <3>4, <3>5 DEF Busy
    <3> QED
      BY <1>1, <2>1, <2>2, <3>6, AheadBoth
  <2> QED
    BY <2>3, <2>4
<1> QED
  BY <1>3, <1>4

\* What is near now was so before: the surplus does not shrink.
LEMMA NearBack == Typed /\ Typed' /\ [Next]_vars /\ Near' => Near
<1> SUFFICES ASSUME Typed, Typed', [Next]_vars, Near' PROVE Near
  OBVIOUS
<1>t. Surplus \in Nat /\ Surplus' \in Nat /\ Modulus \in Nat
  BY RoomTypes, RoomTypesNext, ConstantFacts DEF RoomTyped
<1>1. UNCHANGED <<disturbed, faults>> \/ \E kind : Disturb(kind)
  <2>1. CASE UNCHANGED vars
    BY <2>1 DEF vars
  <2>2. CASE SenderStep
    <3>1. UNCHANGED <<disturbed, faults>> \/ SenderTimeout
      BY <2>2 DEF SenderStep, ReadCan, ReadAfterCan, WaitForStart, SendBlock, ExpectWantCrc,
         FinishSend, SenderReads
    <3> QED
      BY <3>1 DEF SenderTimeout, TimeoutIn
  <2>3. CASE ReceiverStep
    <3>1. UNCHANGED <<disturbed, faults>> \/ ReceiverTimeout
      BY <2>3 DEF ReceiverStep, Begin, ReadHeader, ReadPacket, ReadAfterFirstCan, ReadSecondEot,
         ReceiverReads
    <3> QED
      BY <3>1 DEF ReceiverTimeout, TimeoutIn
  <2>4. CASE Disturbance
    BY <2>4 DEF Disturbance, StopSender, StopReceiver, SenderError, ReceiverError,
       DamageBlock, LoseFrame, LoseReply, DamageReply
  <2> QED
    BY <2>1, <2>2, <2>3, <2>4 DEF Next
<1>2. Surplus <= Surplus'
  BY <1>1, <1>t, SurplusStays, SurplusGrows
<1>3. protocol' = protocol
  <2>1. CASE UNCHANGED vars
    BY <2>1 DEF vars
  <2>2. CASE SenderStep
    BY <2>2 DEF SenderStep, ReadCan, ReadAfterCan, WaitForStart, SendBlock, ExpectWantCrc,
       FinishSend, SenderTimeout, SenderReads
  <2>3. CASE ReceiverStep
    BY <2>3 DEF ReceiverStep, Begin, ReadHeader, ReadPacket, ReadAfterFirstCan,
       ReadSecondEot, ReceiverTimeout, ReceiverReads
  <2>4. CASE Disturbance
    BY <2>4 DEF Disturbance, StopSender, StopReceiver, SenderError, ReceiverError,
       DamageBlock, LoseFrame, LoseReply, DamageReply
  <2> QED
    BY <2>1, <2>2, <2>3, <2>4 DEF Next
<1>4. protocol' = "xmodem" /\ Surplus' + 1 < Modulus
  BY DEF Near
<1>5. PICK now \in Nat, next \in Nat : now = Surplus /\ next = Surplus'
  BY <1>t
<1>6. now <= next
  BY <1>2, <1>5
<1>7. next + 1 < Modulus
  BY <1>4, <1>5
<1>8. now + 1 < Modulus
  BY <1>6, <1>7, <1>t
<1> QED
  BY <1>3, <1>4, <1>5, <1>8 DEF Near

\* Every step keeps the sender's lead within the room.
LEMMA AheadStep == Typed /\ Typed' /\ NearAhead /\ [Next]_vars => NearAhead'
<1> SUFFICES ASSUME Typed, Typed', NearAhead, [Next]_vars, Near' PROVE Ahead'
  BY DEF NearAhead
<1>1. Near /\ Ahead
  BY NearBack DEF NearAhead
<1>x. protocol = "xmodem"
  BY <1>1 DEF Near
<1>2. CASE UNCHANGED vars
  <2>1. UNCHANGED <<sender, receiver, line, back, written, disturbed, faults>>
    BY <1>2 DEF vars
  <2> QED
    BY <1>1, <2>1 DEF Ahead, Busy, InOrder, Live, Wrote, Room, Surplus
<1>3. CASE SenderStep
  <2>1. ~ExpectWantCrc
    BY <1>x DEF ExpectWantCrc, Typed, PlacedSender
  <2> QED
    BY <1>1, <1>3, <1>x, <2>1, ReadCanAhead, ReadAfterCanAhead, WaitForStartAhead, SendBlockAhead,
       FinishSendAhead, SenderFailsAhead DEF SenderStep
<1>4. CASE ReceiverStep
  <2>1. ~ReadHeader /\ ~ReadSecondEot
    BY <1>x DEF ReadHeader, ReadSecondEot, Typed, PlacedReceiver
  <2> QED
    BY <1>1, <1>4, <2>1, BeginAhead, ReadPacketAhead, ReadAfterFirstCanAhead,
       ReceiverTimeoutAhead DEF ReceiverStep
<1>5. CASE Disturbance
  BY <1>1, <1>5, StopSenderAhead, ReceiverFailsAhead, SenderFailsAhead, DamageBlockAhead,
     LoseFrameAhead, RepliesAhead DEF Disturbance
<1> QED
  BY <1>2, <1>3, <1>4, <1>5 DEF Next

\* At the start nothing is under way.
LEMMA AheadInit == Init => Ahead
<1> SUFFICES ASSUME Init PROVE Ahead
  OBVIOUS
<1>t. Typed
  BY TypedInit
<1>1. /\ line = <<>> /\ back = <<>> /\ written = [f \in FileSet |-> <<>>] /\ sender.at = "start"
      /\ sender.block = 0 /\ receiver.expected = 1 /\ ~receiver.can
  BY DEF Init, FileSet
<1>2. InOrder /\ Wrote = 0
  <2>1. \A f \in FileSet : written[f] = <<>>
    BY <1>1
  <2>2. \A f \in FileSet : written[f] = [i \in 1..Len(written[f]) |-> <<f, i>>]
    BY <2>1, LinkedInit DEF Linked, FilesInStep, InOrder
  <2> QED
    BY <2>1, <2>2, ConstantFacts DEF InOrder, Wrote
<1>3. (0 + 1) % Modulus = 1
  BY ConstantFacts
<1>4. Len(line) = 0 /\ Len(back) = 0 /\ 1..0 = {}
  BY <1>1
<1>5. Surplus \in Nat /\ Room \in Int /\ Room = 1 + Surplus
  BY <1>1, <1>t, RoomTypes DEF RoomTyped, Room, Budget
<1>6. Queue(line, 0, 0)
  BY <1>4 DEF Queue
<1>7. Covered(line, back, 0, 0, Room)
  <2>1. (0 + 1)..0 = {} /\ 0 \in 0..0
    OBVIOUS
  <2>2. Covers(line, back, 0, 0, Room, 0, 0, 0)
    BY <1>4, <1>5, <2>1 DEF Covers
  <2> QED
    BY <1>4, <2>1, <2>2 DEF Covered
<1>8. Busy
  BY <1>1, <1>2, <1>4, <1>5, <1>7 DEF Busy
<1>9. 0 - 0 <= 1 + Surplus
  BY <1>5
<1> QED
  BY <1>1, <1>2, <1>3, <1>6, <1>8, <1>9 DEF Ahead

\* A file's writer is given that file's blocks in order and each once: in XMODEM and YMODEM
\* while the sides are in step, whatever is damaged, lost or cancelled and although block
\* numbers wrap; in XMODEM also out of step, while late answers, noise and the other
\* disturbances are too few to bring the sender ahead by all block numbers.
THEOREM OrderKept == Spec => []WrittenInOrder
<1>1. Init => Typed /\ LinkedInStep /\ NearAhead
  BY TypedInit, LinkedInit, AheadInit DEF LinkedInStep, NearAhead
<1>2. Typed /\ LinkedInStep /\ NearAhead /\ [Next]_vars => (Typed /\ LinkedInStep /\ NearAhead)'
  BY TypedStep, LinkedStep, AheadStep
<1>3. Typed /\ LinkedInStep /\ NearAhead => WrittenInOrder
  BY DEF LinkedInStep, Linked, FilesInStep, NearAhead, Near, Ahead, InOrder, FileSet, WrittenInOrder
<1> QED
  BY <1>1, <1>2, <1>3, PTL DEF Spec

=============================================================================
