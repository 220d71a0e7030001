--------------------------- MODULE MessageChannel ---------------------------
(***************************************************************************)
(* What a named stream promises in one direction: the messages that one    *)
(* side sends, each ended by an EOF frame, are the messages that the other *)
(* side reads, whole, once each and in order. When the stream ends within  *)
(* a message, the beginning of that message may be read as the last one.   *)
(***************************************************************************)
EXTENDS Naturals, Sequences, SequencesExt

CONSTANT Message

VARIABLES
    sent,       \* the messages sent
    delivered,  \* the messages read
    ended       \* has the reader seen the end of the stream?

vars == <<sent, delivered, ended>>

Init == sent = <<>> /\ delivered = <<>> /\ ended = FALSE

Send(m) ==
    /\ ~ended
    /\ sent' = Append(sent, m)
    /\ UNCHANGED <<delivered, ended>>

Deliver ==
    /\ ~ended /\ Len(delivered) < Len(sent)
    /\ delivered' = Append(delivered, sent[Len(delivered) + 1])
    /\ UNCHANGED <<sent, ended>>

\* A beginning of the next message, if it is a message that has been sent.
End ==
    /\ ~ended /\ ended' = TRUE
    /\ \/ UNCHANGED delivered
       \/ \E m \in Message :
             /\ Len(delivered) < Len(sent) => IsPrefix(m, sent[Len(delivered) + 1])
             /\ delivered' = Append(delivered, m)
    /\ UNCHANGED sent

Next == (\E m \in Message : Send(m)) \/ Deliver \/ End

Spec == Init /\ [][Next]_vars
=============================================================================
