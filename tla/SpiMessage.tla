----------------------------- MODULE SpiMessage -----------------------------
(***************************************************************************)
(* What the transfer engine promises at the level of whole messages        *)
(* (spec.md 4.5, 5 and 7): the host hands over one message at a time; a    *)
(* message with a transfer whose width is not 1..128 bits or whose length  *)
(* is shorter than one word is rejected whole; any other message is, in    *)
(* one step, finalized with success, having sent every tx buffer whole and *)
(* filled every rx buffer with the bytes the device clocked out, in order. *)
(* Nothing of a message is visible before it is finalized.                 *)
(***************************************************************************)
EXTENDS Integers, Sequences, SequencesExt

CONSTANTS
  Candidates,     \* the messages the host may submit
  MaxMsgs,        \* bound: messages submitted in one behaviour
  TxData(_, _),   \* TxData(m, x): the tx buffer of transfer x of m
  DeviceByte(_)   \* DeviceByte(n): the n-th byte the device sends in a message

VARIABLES
  msgs,       \* messages submitted so far; the last is the active one
  status,     \* status of each submitted message
  finalized,  \* whether each message was handed back to the host
  sent,       \* per transfer of the last message: the bytes sent, once final
  delivered   \* per transfer of the last message: its rx buffer, once final

avars == << msgs, status, finalized, sent, delivered >>

Width(m, x) == IF m.xfers[x].bits_per_word # 0 THEN m.xfers[x].bits_per_word
                                               ELSE m.spi.bits_per_word

\* spec.md 3: byte_length * 8 >= word_width, and a width the codec supports
ValidXfer(m, x) == Width(m, x) \in 1..128 /\ m.xfers[x].len * 8 >= Width(m, x)

Valid(m) == \A x \in DOMAIN m.xfers : ValidXfer(m, x)

\* Bytes the device clocked out before transfer x: the transfers are
\* exchanged in order and every byte of each crosses the wire.
Offset(m, x) == FoldLeft(LAMBDA a, b : a + b, 0,
                         [k \in 1..x-1 |-> m.xfers[k].len])

RxData(m, x) == [i \in 1..m.xfers[x].len |-> DeviceByte(Offset(m, x) + i)]

Nothing(m) == [x \in DOMAIN m.xfers |-> << >>]

Active == Len(msgs) > 0 /\ ~finalized[Len(msgs)]

Init ==
  /\ msgs = << >> /\ status = << >> /\ finalized = << >>
  /\ sent = << >> /\ delivered = << >>

\* submit: accepted only when no message is active; an invalid message is
\* rejected at once with no data exchanged.
Submit(m) ==
  /\ ~Active
  /\ Len(msgs) < MaxMsgs
  /\ msgs' = Append(msgs, m)
  /\ status' = Append(status, IF Valid(m) THEN "INPROGRESS" ELSE "EINVAL")
  /\ finalized' = Append(finalized, ~Valid(m))
  /\ sent' = Nothing(m)
  /\ delivered' = Nothing(m)

\* the last transfer is exhausted: status success, both directions whole
Finish ==
  /\ Active
  /\ LET n == Len(msgs)
         m == msgs[n]
     IN  /\ finalized' = [finalized EXCEPT ![n] = TRUE]
         /\ status' = [status EXCEPT ![n] = "OK"]
         /\ sent' = [x \in DOMAIN m.xfers |->
                       IF m.xfers[x].tx THEN TxData(m, x) ELSE << >>]
         /\ delivered' = [x \in DOMAIN m.xfers |->
                            IF m.xfers[x].rx THEN RxData(m, x) ELSE << >>]
         /\ UNCHANGED msgs

Next == (\E m \in Candidates : Submit(m)) \/ Finish

SafeSpec == Init /\ [][Next]_avars

\* An accepted message is eventually handed back.
Fairness == WF_avars(Finish)

Spec == SafeSpec /\ Fairness

=============================================================================
