------------------------------ MODULE Handshake ------------------------------
(***************************************************************************)
(* How a client and a server agree on a session (wirenet.go): one request  *)
(* and one response over the first stream of a connection, each a frame of *)
(* frame.go, under a deadline of each side; and what becomes of the two    *)
(* sessions when the connection ends.                                      *)
(*                                                                         *)
(* A frame travels in pieces, the first of which holds its header. Decode  *)
(* reads what there is before it looks at a deadline or at the end of the  *)
(* stream; and when the body then is not complete it returns the frame     *)
(* without an error, with zeros for what is missing. What protocol buffers *)
(* make of such a response decides what the client takes for the verdict:  *)
(* the response is modelled cell by cell, down to the err field that ends  *)
(* it. Of a torn request the model says only that it may be an error, or   *)
(* that its last field is altered.                                         *)
(***************************************************************************)
EXTENDS Naturals, Sequences

CONSTANTS
    Pieces,      \* into how many pieces the request is split on its way
    FieldLen,    \* the length of what the response holds ahead of its err
    ErrLens,     \* the lengths of the errors with which the validator may refuse
    MayLose      \* may the connection be lost?

ASSUME HandshakeAssumption ==
    /\ Pieces \in Nat \ {0} /\ FieldLen \in Nat \ {0}
    /\ ErrLens \subseteq Nat /\ MayLose \in BOOLEAN

VARIABLES
    cl,        \* where the client is: openSession, then its session
    sv,        \* where the server is: confirmSession, then its session
    sent,      \* the frames that have been sent
    arrived,   \* how many pieces of each have arrived
    expired,   \* the sides whose deadline has passed
    verdict,   \* what the server's token validator said
    errLen,    \* the length of the err in the response; 0: there is none
    altered,   \* the sides that took a torn frame for whole
    lost       \* is the connection closed?

vars == <<cl, sv, sent, arrived, expired, verdict, errLen, altered, lost>>

Frames == {"request", "response"}
Sides == {"client", "server"}

ClientStates == {"start", "reading", "opened", "refused", "failed", "gone"}
ServerStates == {"start", "decoding", "answering", "answered", "registered", "failed", "gone"}

\* The response on its way: a field of FieldLen (the session's id and the stream
\* names), then the err, if the validator gave one a text. Each field is a tag, a
\* length and so many bytes; what comes after the first k cells is zero.
PayloadLen(e) == FieldLen + 2 + (IF e = 0 THEN 0 ELSE e + 2)

Payload(e, k) ==
    [i \in 1..PayloadLen(e) |->
        CASE i > k -> 0
          [] i <= k /\ i = 2 -> FieldLen
          [] i <= k /\ i = FieldLen + 4 -> e
          [] OTHER -> 1]

\* The pieces of a frame; the first of the response is what precedes its payload.
Size(f) == IF f = "request" THEN Pieces ELSE 1 + PayloadLen(errLen)

\* Types; what arrives was sent, whole at most; and the server goes on to a session
\* only when its answer is on the way.
TypeOK ==
    /\ cl \in ClientStates /\ sv \in ServerStates
    /\ sent \subseteq Frames /\ arrived \in [Frames -> Nat]
    /\ expired \subseteq Sides /\ altered \subseteq Sides
    /\ verdict \in {"none", "accepted", "refused"} /\ lost \in BOOLEAN
    /\ errLen \in Nat /\ (errLen # 0 => verdict = "refused")
    /\ \A f \in Frames : arrived[f] <= Size(f) /\ (arrived[f] > 0 => f \in sent)
    /\ "response" \in sent <=> sv \in {"answered", "registered", "gone"}

Init ==
    /\ cl = "start" /\ sv = "start"
    /\ sent = {} /\ arrived = [f \in Frames |-> 0]
    /\ expired = {} /\ altered = {} /\ verdict = "none" /\ errLen = 0 /\ lost = FALSE

-----------------------------------------------------------------------------
(* Frames.                                                                 *)

Encode(f) == sent' = sent \cup {f}

Arrive(f) ==
    /\ f \in sent /\ ~lost /\ arrived[f] < Size(f)
    /\ arrived' = [arrived EXCEPT ![f] = @ + 1]
    /\ UNCHANGED <<cl, sv, sent, expired, verdict, errLen, altered, lost>>

\* When reading waits no longer for the rest of f.
Ended(f) ==
    IF f = "request" THEN lost \/ "server" \in expired
    ELSE lost \/ "client" \in expired

\* What Decode returns: the frame, a torn frame, or an error.
Whole(f) == arrived[f] = Size(f)
Torn(f) == arrived[f] \in 1..Size(f) - 1 /\ Ended(f)
Missing(f) == arrived[f] = 0 /\ Ended(f)

\* proto.Unmarshal: a field has a tag, which is not zero, and its bytes; the fields
\* fill the payload. A response has two at most.
Field(p, i) == i + 1 <= Len(p) /\ p[i] # 0 /\ i + 1 + p[i + 1] <= Len(p)
After(p, i) == i + 2 + p[i + 1]

Unmarshals(p) ==
    /\ Field(p, 1)
    /\ \/ After(p, 1) > Len(p)
       \/ Field(p, After(p, 1)) /\ After(p, After(p, 1)) > Len(p)

\* len(resp.Err) of what was unmarshalled.
ErrOf(p) == IF After(p, 1) > Len(p) THEN 0 ELSE p[After(p, 1) + 1]

\* The payload that Decode returns to the client.
Response == Payload(errLen, arrived["response"] - 1)

-----------------------------------------------------------------------------
(* The client.                                                             *)

\* openSessionRequest: one Encode.
Ask ==
    /\ cl = "start" /\ ~lost
    /\ cl' = "reading" /\ Encode("request")
    /\ UNCHANGED <<sv, arrived, expired, verdict, errLen, altered, lost>>

\* As a mutant: whether the response could be unmarshalled is not looked at.
ClientDecodeUnchecked ==
    /\ cl = "reading" /\ (Whole("response") \/ Torn("response"))
    /\ altered' = IF Whole("response") THEN altered ELSE altered \cup {"client"}
    /\ IF Unmarshals(Response) /\ ErrOf(Response) # 0 THEN cl' = "refused" /\ lost' = TRUE
       ELSE cl' = "opened" /\ UNCHANGED lost
    /\ UNCHANGED <<sv, sent, arrived, expired, verdict, errLen>>

\* An err with a text in what was decoded is a refusal: the client closes the
\* connection. Nothing else tells it that its token was refused.
ClientDecode ==
    /\ cl = "reading" /\ (Whole("response") \/ Torn("response")) /\ Unmarshals(Response)
    /\ altered' = IF Whole("response") THEN altered ELSE altered \cup {"client"}
    /\ IF ErrOf(Response) = 0 THEN cl' = "opened" /\ UNCHANGED lost
       ELSE cl' = "refused" /\ lost' = TRUE
    /\ UNCHANGED <<sv, sent, arrived, expired, verdict, errLen>>

\* As a mutant: the connection is not closed.
ClientFailsKeeps ==
    /\ \/ cl = "start" /\ lost
       \/ cl = "reading" /\ (Missing("response") \/ Torn("response"))
    /\ cl' = "failed"
    /\ UNCHANGED <<sv, sent, arrived, expired, verdict, errLen, altered, lost>>

\* No stream, no response, or a torn one that is no message (or, cut within a
\* character, no text): the connection is closed.
ClientFails ==
    /\ \/ cl = "start" /\ lost
       \/ cl = "reading" /\ (Missing("response") \/ Torn("response"))
    /\ cl' = "failed" /\ lost' = TRUE
    /\ UNCHANGED <<sv, sent, arrived, expired, verdict, errLen, altered>>

\* The accept loop of the client's session ends with the connection.
ClientSessionEnds ==
    /\ cl = "opened" /\ lost
    /\ cl' = "gone"
    /\ UNCHANGED <<sv, sent, arrived, expired, verdict, errLen, altered, lost>>

-----------------------------------------------------------------------------
(* The server.                                                             *)

\* AcceptStream, which no deadline bounds.
AcceptStream ==
    /\ sv = "start" /\ cl # "start" /\ ~lost
    /\ sv' = "decoding"
    /\ UNCHANGED <<cl, sent, arrived, expired, verdict, errLen, altered, lost>>

\* Decode the request and ask the validator. Its error goes into the response, as
\* the text it has, and is not returned.
ServerDecode ==
    /\ sv = "decoding" /\ (Whole("request") \/ Torn("request"))
    /\ altered' = IF Whole("request") THEN altered ELSE altered \cup {"server"}
    /\ \/ verdict' = "accepted" /\ errLen' = 0
       \/ verdict' = "refused" /\ errLen' \in ErrLens
    /\ sv' = "answering"
    /\ UNCHANGED <<cl, sent, arrived, expired, lost>>

\* As a mutant: whether the response could be written is not looked at.
AnswerUnchecked ==
    /\ sv = "answering"
    /\ sent' = IF lost THEN sent ELSE sent \cup {"response"}
    /\ sv' = "answered"
    /\ UNCHANGED <<cl, arrived, expired, verdict, errLen, altered, lost>>

\* Encode the response. A deadline that has passed does not stop a Write for
\* which there is room.
Answer ==
    /\ sv = "answering" /\ ~lost
    /\ Encode("response")
    /\ sv' = "answered"
    /\ UNCHANGED <<cl, arrived, expired, verdict, errLen, altered, lost>>

\* openSession: whatever the verdict was.
Register ==
    /\ sv = "answered"
    /\ sv' = "registered"
    /\ UNCHANGED <<cl, sent, arrived, expired, verdict, errLen, altered, lost>>

\* No stream, no request, one that cannot be read, or no way to answer (or an
\* error that is no text for protocol buffers): the connection is closed.
ServerFails ==
    /\ \/ sv = "start" /\ lost
       \/ sv = "decoding" /\ (Missing("request") \/ Torn("request"))
       \/ sv = "answering" /\ (lost \/ errLen # 0)
    /\ sv' = "failed" /\ lost' = TRUE
    /\ UNCHANGED <<cl, sent, arrived, expired, verdict, errLen, altered>>

ServerSessionEnds ==
    /\ sv = "registered" /\ lost
    /\ sv' = "gone"
    /\ UNCHANGED <<cl, sent, arrived, expired, verdict, errLen, altered, lost>>

-----------------------------------------------------------------------------
(* Time and the network.                                                   *)

Expire(side) ==
    /\ side \notin expired
    /\ IF side = "client" THEN cl = "reading" ELSE sv \in {"decoding", "answering"}
    /\ expired' = expired \cup {side}
    /\ UNCHANGED <<cl, sv, sent, arrived, verdict, errLen, altered, lost>>

Lose ==
    /\ MayLose /\ ~lost
    /\ lost' = TRUE
    /\ UNCHANGED <<cl, sv, sent, arrived, expired, verdict, errLen, altered>>

-----------------------------------------------------------------------------

ClientStep == Ask \/ ClientDecode \/ ClientFails \/ ClientSessionEnds
ServerStep == AcceptStream \/ ServerDecode \/ Answer \/ Register \/ ServerFails \/ ServerSessionEnds

Next ==
    \/ ClientStep \/ ServerStep \/ Lose
    \/ \E f \in Frames : Arrive(f)
    \/ \E side \in Sides : Expire(side)

Spec == Init /\ [][Next]_vars

\* Goroutines run and deadlines pass; the network need not deliver.
FairSpec ==
    Spec /\ WF_vars(ClientStep) /\ WF_vars(ServerStep)
         /\ \A side \in Sides : WF_vars(Expire(side))

-----------------------------------------------------------------------------
(* What the handshake promises.                                            *)

\* A client that has a session was accepted, or was refused with an error that has
\* no text: wherever the response was torn, and whatever zeros were read for the
\* rest of it, a refusal with a text is never unmarshalled as an acceptance
\* (frame.go:94-108, wirenet.go:607-613).
OpenedIsAccepted ==
    cl \in {"opened", "gone"} => verdict = "accepted" \/ (verdict = "refused" /\ errLen = 0)

\* The two sides settle, and together: in the end both have the session, or
\* neither has, whatever was lost or refused and whichever deadline passed.
SettleTogether ==
    <>[](\/ cl = "opened" /\ sv = "registered"
         \/ cl \in {"refused", "failed", "gone"} /\ sv \in {"failed", "gone"})

-----------------------------------------------------------------------------
(* What the documentation says, and the code does not do.                  *)

\* The server has no session of a client that it has refused: it has, until it
\* notices that the client has closed the connection.
RefusedIsNotRegistered == sv = "registered" => verdict = "accepted"

\* A client that was refused has no session, whatever the error reads: it has, when
\* the error is an empty text, for the response then has none.
RefusedIsNotOpened == cl \in {"opened", "gone"} => verdict = "accepted"
=============================================================================
