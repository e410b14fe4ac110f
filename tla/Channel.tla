------------------------------- MODULE Channel --------------------------------
(* One way of a connection of the Client: a document is printed, sent as a    *)
(* length and a body, and received in pieces of any size (ClientNet.cpp, and  *)
(* readMsg and sendMsg of RequestHandler.java at the other end).              *)
(*                                                                            *)
(* Way "up" leads from the Client to the Center, "down" back; "out" leads     *)
(* to the Agent, "web" back.  Two of the four bytes of a length are told      *)
(* apart, and a line of the printed text stands for its bytes.                *)
EXTENDS Integers, Sequences, SequencesExt

CONSTANTS Threads,   \* those that send over the connection
          Docs,      \* the documents that each way carries
          Text,     \* the lines that a document is printed on
          MaxSends   \* bound on messages

Ways == {"up", "down", "out", "web"}

(* A document is never printed on no line at all, not even an empty one.      *)
ASSUME DocsAssumption ==
  \A w \in Ways : \A d \in Docs[w] :
    Text[d] # <<>> /\ Text[d] \in Seq(ToSet(Text[d]))

VARIABLES way,      \* "up", "down", "out" or "web"
          hand,     \* for each thread, what it has not yet sent of its message
          wire,     \* what was sent and not yet received
          alive,    \* the connection stands
          buf,      \* what the receiver has of the current message
          sent,     \* history: the documents, in the order of their lengths
          got,      \* the bodies that were received
          ended,    \* the receiver has noticed the end
          mixed     \* history: a message was sent while another was half sent

vars == <<way, hand, wire, alive, buf, sent, got, ended, mixed>>

-----------------------------------------------------------------------------
(* Sending *)

Length(n) == <<<<"length", n, 1>>, <<"length", n, 2>>>>

Frame(d) == Length(Len(Text[d])) \o Text[d]

(* Of the bytes left of a message, so many are sent at once: the Client sends *)
(* the length, under the mutex, and then the body, without it; the Java side  *)
(* writes byte by byte.                                                       *)
FirstPiece == IF way \in {"up", "out"} THEN 2 ELSE 1
NextPiece(rest) == IF way \in {"up", "out"} THEN Len(rest) ELSE 1

(* A socket that is 0 or closed takes nothing.                                *)
SendMsg(t, d) ==
  /\ hand[t] = <<>> /\ alive
  /\ Len(sent) < MaxSends
  /\ wire' = wire \o SubSeq(Frame(d), 1, FirstPiece)
  /\ hand' = [hand EXCEPT ![t] = SubSeq(Frame(d), FirstPiece + 1, Len(Frame(d)))]
  /\ sent' = Append(sent, d)
  /\ mixed' = (mixed \/ \E u \in Threads : hand[u] # <<>>)
  /\ UNCHANGED <<way, alive, buf, got, ended>>

SendRest(t) ==
  LET n == NextPiece(hand[t])
  IN  /\ hand[t] # <<>>
      /\ wire' = IF alive THEN wire \o SubSeq(hand[t], 1, n) ELSE wire
      /\ hand' = [hand EXCEPT ![t] = SubSeq(@, n + 1, Len(@))]
      /\ UNCHANGED <<way, alive, buf, sent, got, ended, mixed>>

-----------------------------------------------------------------------------
(* Receiving *)

\* Mutant of Need: the terminating zero is taken for part of the body.
NeedZero == IF Len(buf) < 2 THEN 2 ELSE 2 + buf[1][2] + 1

Need == IF Len(buf) < 2 THEN 2 ELSE 2 + buf[1][2]

Body(b) == SubSeq(b, 3, Len(b))

(* One recv of RecMsg: as much as is there, and not more than is missing.     *)
Recv(k) ==
  /\ ~ended
  /\ k \in 1..Len(wire) /\ Len(buf) + k <= Need
  /\ wire' = SubSeq(wire, k + 1, Len(wire))
  /\ buf' = buf \o SubSeq(wire, 1, k)
  /\ UNCHANGED <<way, hand, alive, sent, got, ended, mixed>>

(* The body is complete and goes to the parser.                               *)
RecMsg ==
  /\ Len(buf) > 2 /\ Len(buf) = Need
  /\ got' = Append(got, Body(buf))
  /\ buf' = <<>>
  /\ UNCHANGED <<way, hand, wire, alive, sent, ended, mixed>>

\* Mutant of RecvFails: what has come is returned.
RecvFailsLate ==
  /\ ~alive /\ wire = <<>> /\ ~ended
  /\ got' = IF Len(buf) > 2 THEN Append(got, Body(buf)) ELSE got
  /\ ended' = TRUE
  /\ UNCHANGED <<way, hand, wire, alive, buf, sent, mixed>>

(* Nothing more comes: "" is returned, whatever has come of the message.      *)
RecvFails ==
  /\ ~alive /\ wire = <<>> /\ ~ended
  /\ ended' = TRUE
  /\ UNCHANGED <<way, hand, wire, alive, buf, sent, got, mixed>>

(* The connection is lost, and with it some of what was under way.            *)
Lose ==
  /\ alive
  /\ alive' = FALSE
  /\ \E n \in 0..Len(wire) : wire' = SubSeq(wire, 1, n)
  /\ UNCHANGED <<way, hand, buf, sent, got, ended, mixed>>

-----------------------------------------------------------------------------

Init ==
  /\ way \in Ways
  /\ hand = [t \in Threads |-> <<>>]
  /\ wire = <<>> /\ buf = <<>> /\ sent = <<>> /\ got = <<>>
  /\ alive = TRUE /\ ended = FALSE /\ mixed = FALSE

(* What becomes of messages that were mixed is not followed.                  *)
Next ==
  /\ ~mixed
  /\ \/ \E t \in Threads : \E d \in Docs[way] : SendMsg(t, d)
     \/ \E t \in Threads : SendRest(t)
     \/ \E k \in 1..Len(wire) : Recv(k)
     \/ RecMsg
     \/ RecvFails
     \/ Lose

(* Threads go on sending what they have begun, and the receiver reads what is *)
(* there.                                                                     *)
Fairness ==
  /\ \A t \in Threads : WF_vars(SendRest(t))
  /\ WF_vars(\E k \in 1..Len(wire) : Recv(k))
  /\ WF_vars(RecMsg)

Spec == Init /\ [][Next]_vars /\ Fairness

-----------------------------------------------------------------------------
(* What RecMsg returns was sent so: the messages come in the order of their   *)
(* lengths, none twice, none left out, none cut, whatever the size of the     *)
(* pieces and whenever the connection ends (ClientNet.cpp, 85-116).  The      *)
(* proviso is that no two threads were sending at a time: the mutex of        *)
(* SendMsg does not cover the body.                                           *)
Framed ==
  ~mixed => /\ Len(got) <= Len(sent)
            /\ \A i \in DOMAIN got : got[i] = Text[sent[i]]

(* Under the fairness above, a message arrives as long as the connection      *)
(* stands and the messages are not mixed.                                     *)
EachArrives ==
  \A n \in 1..MaxSends : Len(sent) >= n ~> (Len(got) >= n \/ ~alive \/ mixed)
=============================================================================
