------------------------------ MODULE WebSocket ------------------------------
(***************************************************************************)
(* What a bridge connection makes of a client's bytes (ws.rs and the loop  *)
(* of server.rs that feeds it): frames are taken from the front of a       *)
(* buffer that fills in pieces of any size, and messages are put together  *)
(* from frames between which pings, pongs and a close may stand.           *)
(*                                                                         *)
(* A frame on the wire is a head, a longer size when the short one does    *)
(* not do, a mask and the payload, each a cell that has arrived or has     *)
(* not.  Text is characters "a" and the two halves, "lead" and "trail", of *)
(* a character that takes two bytes.                                       *)
(***************************************************************************)
EXTENDS Integers, Sequences, SequencesExt

CONSTANTS
  ShortSize,   \* the longest payload whose size the head holds, and of a control frame
  MaxMessage,  \* MAX_MESSAGE
  Texts,       \* the payloads of text frames
  MaxFrames    \* bound: frames the client sends

ASSUME WebAssumption ==
  /\ ShortSize \in Nat /\ MaxMessage \in Nat \ {0} /\ ShortSize <= MaxMessage
  /\ Texts \subseteq Seq({"a", "lead", "trail"})

VARIABLES
  wire,       \* the buffer, frame by frame, the last one perhaps in part
  missing,    \* the cells of the last one that have not arrived
  partial,    \* Assembler.partial: whether a message is open, and its text
  given,      \* the text messages the connection acted on
  pongs,      \* the pings it answered
  ended,      \* the code of the close frame it sent, 0 while the loop runs
  meant,      \* the text messages the client sent whole
  pings,      \* the pings it sent
  unfinished, \* the client's own view of its open message
  due         \* the code of the close its last frame asks for, 0 for none

webVars == <<wire, missing, partial, given, pongs, ended, meant, pings, unfinished, due>>

Control == {"ping", "pong", "close"}
Closed == [open |-> FALSE, text |-> <<>>]
Open(text) == [open |-> TRUE, text |-> text]

\* A frame, and what may be wrong with it apart from its place among others.
Frame(op, fin, text, flaw) == [op |-> op, fin |-> fin, text |-> text, flaw |-> flaw]
Flaws == {"reserved bits", "unknown opcode", "not masked", "size not minimal"}

\* Every character is whole.
IsText(text) ==
  \A i \in 1..Len(text) :
    /\ text[i] = "lead" => i < Len(text) /\ text[i + 1] = "trail"
    /\ text[i] = "trail" => i > 1 /\ text[i - 1] = "lead"

\* The close frames: without a code, with half of one, with a code, with one
\* that may not be sent, and with a reason that is not text.
CloseAnswer == [none |-> 1000, half |-> 1002, code |-> 1001, wrong |-> 1002, reason |-> 1007]
CloseFrames == {Frame("close", TRUE, <<>>, kind) : kind \in DOMAIN CloseAnswer}

-----------------------------------------------------------------------------
(***************************************************************************)
(* parse_client_frame: as soon as the cells that show it are there, a      *)
(* broken rule is an error; otherwise the whole frame is waited for.       *)
(***************************************************************************)
SizeCells(frame) == IF Len(frame.text) > ShortSize \/ frame.flaw = "size not minimal" THEN 1 ELSE 0
Cells(frame) == 2 + SizeCells(frame) + Len(frame.text)

Arrived(frame) == Cells(frame) - (IF Len(wire) = 1 THEN missing ELSE 0)

\* The code of an error, 0 for a whole frame, -1 when more must arrive.
Parsed(frame) ==
  LET here == Arrived(frame)
  IN IF here >= 1 /\ frame.flaw \in {"reserved bits", "unknown opcode", "not masked"} THEN 1002
     ELSE IF here < 1 + SizeCells(frame) THEN -1
     ELSE IF frame.flaw = "size not minimal" THEN 1002
     ELSE IF frame.op \in Control /\ (~frame.fin \/ Len(frame.text) > ShortSize) THEN 1002
     ELSE IF Len(frame.text) > MaxMessage THEN 1009
     ELSE IF here < Cells(frame) THEN -1
     ELSE 0

-----------------------------------------------------------------------------
(***************************************************************************)
(* Assembler::push: the message open after a frame, the text given, and    *)
(* the code of an error or a close.                                        *)
(***************************************************************************)
Result(next, texts, code) == [partial |-> next, texts |-> texts, code |-> code]

Finished(text) == IF IsText(text) THEN Result(Closed, <<text>>, 0) ELSE Result(Closed, <<>>, 1007)

\* Mutant: a control frame between two fragments drops the first.
PushedAfresh(frame) ==
  IF frame.op \in {"ping", "pong"} THEN Result(Closed, <<>>, 0)
  ELSE IF frame.op = "close" THEN Result(partial, <<>>, CloseAnswer[frame.flaw])
  ELSE IF frame.op = "binary" THEN Result(partial, <<>>, 1003)
  ELSE IF (frame.op = "text") = partial.open THEN Result(partial, <<>>, 1002)
  ELSE LET text == partial.text \o frame.text
       IN IF Len(text) > MaxMessage THEN Result(Closed, <<>>, 1009)
          ELSE IF frame.fin THEN Finished(text) ELSE Result(Open(text), <<>>, 0)

\* A text frame opens a message and a continuation goes on with it.
Pushed(frame) ==
  IF frame.op \in {"ping", "pong"} THEN Result(partial, <<>>, 0)
  ELSE IF frame.op = "close" THEN Result(partial, <<>>, CloseAnswer[frame.flaw])
  ELSE IF frame.op = "binary" THEN Result(partial, <<>>, 1003)
  ELSE IF (frame.op = "text") = partial.open THEN Result(partial, <<>>, 1002)
  ELSE LET text == partial.text \o frame.text
       IN IF Len(text) > MaxMessage THEN Result(Closed, <<>>, 1009)
          ELSE IF frame.fin THEN Finished(text) ELSE Result(Open(text), <<>>, 0)

\* One frame of the loop over the buffer.
Take ==
  /\ ended = 0
  /\ wire # <<>>
  /\ LET frame == Head(wire)
         code == Parsed(frame)
         result == Pushed(frame)
     IN /\ code >= 0
        /\ IF code > 0
           THEN ended' = code /\ UNCHANGED <<wire, partial, given, pongs>>
           ELSE /\ wire' = Tail(wire)
                /\ partial' = result.partial
                /\ given' = given \o result.texts
                /\ pongs' = IF frame.op = "ping" THEN Append(pongs, frame.text) ELSE pongs
                /\ ended' = result.code
  /\ UNCHANGED <<missing, meant, pings, unfinished, due>>

-----------------------------------------------------------------------------
(***************************************************************************)
(* The client (external): it keeps to the protocol up to one frame.        *)
(***************************************************************************)
Data == {Frame(op, fin, text, "none") : op \in {"text", "continuation"}, fin \in BOOLEAN,
                                        text \in Texts}
Pings == {Frame("ping", TRUE, text, "none") : text \in {t \in Texts : Len(t) <= ShortSize}}
TooLong == [i \in 1..(ShortSize + 1) |-> "a"]
Broken == {Frame("text", TRUE, <<"a">>, flaw) : flaw \in Flaws}
            \cup {Frame("ping", FALSE, <<>>, "none"), Frame("binary", TRUE, <<"a">>, "none"),
                  Frame("ping", TRUE, TooLong, "none")}
Frames == Data \cup Pings \cup Broken \cup CloseFrames \cup {Frame("pong", TRUE, <<>>, "none")}

\* What the protocol says of a frame after the client's earlier ones.
Due(frame) ==
  LET text == unfinished.text \o frame.text
  IN IF frame.op = "close" THEN CloseAnswer[frame.flaw]
     ELSE IF frame.op = "binary" THEN 1003
     ELSE IF frame \in Broken THEN 1002
     ELSE IF frame \notin Data THEN 0
     ELSE IF (frame.op = "text") = unfinished.open
          THEN IF Len(frame.text) > MaxMessage THEN 1009 ELSE 1002
     ELSE IF Len(text) > MaxMessage THEN 1009
     ELSE IF frame.fin /\ ~IsText(text) THEN 1007
     ELSE 0

Write(frame) ==
  LET text == unfinished.text \o frame.text
  IN /\ missing = 0
     /\ due = 0
     /\ Len(meant) + Len(pings) + Len(wire) + Len(unfinished.text) < MaxFrames
     /\ due' = Due(frame)
     /\ wire' = Append(wire, frame)
     /\ missing' = Cells(frame)
     /\ pings' = IF frame \in Pings THEN Append(pings, frame.text) ELSE pings
     /\ meant' = IF frame \in Data /\ due' = 0 /\ frame.fin THEN Append(meant, text) ELSE meant
     /\ unfinished' = IF frame \in Data /\ due' = 0
                      THEN (IF frame.fin THEN Closed ELSE Open(text)) ELSE unfinished
     /\ UNCHANGED <<partial, given, pongs, ended>>

\* A read returns some more of it.
Arrive ==
  /\ missing > 0
  /\ \E left \in 0..(missing - 1) : missing' = left
  /\ UNCHANGED <<wire, partial, given, pongs, ended, meant, pings, unfinished, due>>

WebInit ==
  /\ wire = <<>> /\ missing = 0
  /\ partial = Closed /\ unfinished = Closed
  /\ given = <<>> /\ meant = <<>>
  /\ pongs = <<>> /\ pings = <<>>
  /\ ended = 0 /\ due = 0

WebNext == Take \/ (\E frame \in Frames : Write(frame)) \/ Arrive

WebSpec == WebInit /\ [][WebNext]_webVars

-----------------------------------------------------------------------------
\* However its bytes arrive and whatever stands between the fragments, the
\* connection acts on the client's messages, whole and in their order, and
\* answers its pings; when all has arrived and been looked at, on every one.
MessagesWhole ==
  /\ IsPrefix(given, meant)
  /\ IsPrefix(pongs, pings)
  /\ wire = <<>> => given = meant /\ pongs = pings

\* The connection is closed for what the client did wrong, or because it asked
\* for it, and for nothing else.
CodeIsDue ==
  /\ ended # 0 => ended = due
  /\ wire = <<>> => ended = due

ClientIsServed == MessagesWhole /\ CodeIsDue

=============================================================================
