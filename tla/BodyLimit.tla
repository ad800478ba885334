------------------------------ MODULE BodyLimit ------------------------------
(***************************************************************************)
(* RequestBodyLimitMiddleware (src/app.py): the body of an HTTP request is *)
(* buffered up to a limit before the application runs, and the buffered    *)
(* messages are then replayed to it ahead of the live ASGI channel.        *)
(*                                                                         *)
(* A message is a chunk of the body, with its size and whether more are to *)
(* come, or the disconnect of the client.                                  *)
(***************************************************************************)
EXTENDS Integers, Sequences, SequencesExt

CONSTANTS Limit,        \* REQUEST_BODY_LIMIT_BYTES, in units of a chunk
          ChunkSizes,   \* the sizes of the chunks the server hands over
          MaxMessages   \* bounds the messages of one request

ASSUME LimitAssumption ==
    Limit \in Nat /\ MaxMessages \in Nat \ {0} /\ ChunkSizes \subseteq Nat

VARIABLES declared,  \* the Content-Length header, -1 when absent or unusable
          stream,    \* every message receive() has returned, in order
          pc,        \* what the middleware is doing
          total,     \* the bytes buffered
          messages,  \* the buffer
          index,     \* the buffered messages replayed so far
          seen       \* what the application has received

vars == <<declared, stream, pc, total, messages, index, seen>>

Chunk      == [type : {"http.request"}, size : ChunkSizes, more_body : BOOLEAN]
Disconnect == [type |-> "http.disconnect"]
Message    == Chunk \cup {Disconnect}

TypeOK ==
    /\ declared \in Int
    /\ stream \in Seq(Message) /\ messages \in Seq(Message) /\ seen \in Seq(Message)
    /\ pc \in {"called", "buffering", "serving", "refused", "dropped"}
    /\ total \in Nat
    /\ index \in 0 .. Len(messages)

Init ==
    /\ declared \in -1 .. Limit + 1
    /\ stream = <<>> /\ messages = <<>> /\ seen = <<>>
    /\ pc = "called" /\ total = 0 /\ index = 0

----------------------------------------------------------------------------
\* What receive() may return next: chunks until the last of the body, and the
\* disconnect, again and again, once the client has gone
Receive(msg) ==
    /\ Len(stream) < MaxMessages
    /\ \/ msg = Disconnect
       \/ /\ msg \in Chunk
          /\ stream # <<>> =>
                Last(stream).type = "http.request" /\ Last(stream).more_body
    /\ stream' = Append(stream, msg)

CheckDeclared ==
    /\ pc = "called"
    /\ pc' = IF declared > Limit THEN "refused" ELSE "buffering"
    /\ UNCHANGED <<declared, stream, total, messages, index, seen>>

\* faulty: the limit is held against every chunk by itself
BufferByChunk ==
    /\ pc = "buffering"
    /\ \E msg \in Message :
          /\ Receive(msg)
          /\ messages' = Append(messages, msg)
          /\ IF msg = Disconnect
             THEN pc' = "dropped" /\ UNCHANGED total
             ELSE /\ total' = msg.size
                  /\ pc' = IF total' > Limit THEN "refused"
                           ELSE IF msg.more_body THEN "buffering" ELSE "serving"
    /\ UNCHANGED <<declared, index, seen>>

Buffer ==
    /\ pc = "buffering"
    /\ \E msg \in Message :
          /\ Receive(msg)
          /\ messages' = Append(messages, msg)
          /\ IF msg = Disconnect
             THEN pc' = "dropped" /\ UNCHANGED total
             ELSE /\ total' = total + msg.size
                  /\ pc' = IF total' > Limit THEN "refused"
                           ELSE IF msg.more_body THEN "buffering" ELSE "serving"
    /\ UNCHANGED <<declared, index, seen>>

\* faulty: the channel is read as soon as something has been replayed
ReplayOnce ==
    /\ pc = "serving"
    /\ \/ /\ index = 0
          /\ index' = 1
          /\ seen' = Append(seen, messages[1])
          /\ UNCHANGED stream
       \/ /\ index > 0
          /\ \E msg \in Message : Receive(msg) /\ seen' = Append(seen, msg)
          /\ UNCHANGED index
    /\ UNCHANGED <<declared, pc, total, messages>>

\* The application calls replay()
Replay ==
    /\ pc = "serving"
    /\ \/ /\ index < Len(messages)
          /\ index' = index + 1
          /\ seen' = Append(seen, messages[index + 1])
          /\ UNCHANGED stream
       \/ /\ index = Len(messages)
          /\ \E msg \in Message : Receive(msg) /\ seen' = Append(seen, msg)
          /\ UNCHANGED index
    /\ UNCHANGED <<declared, pc, total, messages>>

Next == CheckDeclared \/ Buffer \/ Replay

Spec == Init /\ [][Next]_vars

----------------------------------------------------------------------------
Size(msg) == IF msg.type = "http.request" THEN msg.size ELSE 0

\* The bytes of a sequence of messages
Bytes(msgs) ==
    LET sum[n \in 0 .. Len(msgs)] ==
            IF n = 0 THEN 0 ELSE sum[n - 1] + Size(msgs[n])
    IN  sum[Len(msgs)]

\* The application cannot tell the middleware is there: it receives what the
\* server handed over, every message once and in order, across the change from
\* the buffer to the channel.
AppSeesStream == seen = SubSeq(stream, 1, Len(seen))

\* The application runs on complete bodies within the limit only, and whoever
\* is refused has declared or sent more and was never seen by it.
LimitEnforced ==
    /\ pc = "serving" => Bytes(messages) <= Limit /\ ~Last(messages).more_body
    /\ pc = "refused" => /\ declared > Limit \/ Bytes(stream) > Limit
                         /\ seen = <<>>
=============================================================================
