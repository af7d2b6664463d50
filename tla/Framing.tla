-------------------------------- MODULE Framing --------------------------------
(***************************************************************************)
(* The framing of helper/session/bluez/connection.go.  A message travels   *)
(* as two bytes of length and its payload, cut into chunks.  Incoming      *)
(* chunks are notifications that may be lost or late, put together again   *)
(* by rx and flush; outgoing ones are the writes of Send, which several    *)
(* goroutines call.                                                        *)
(*                                                                         *)
(* Bytes are 0 .. Base - 1, so that a payload byte read as a length is     *)
(* what it would be, and time is whether the gap before a chunk, as rx     *)
(* measures it when it gets there, exceeds rxTimeout.                      *)
(*                                                                         *)
(* An operator named X_Suffix is a variant of X with a plausible mistake   *)
(* that no action uses.                                                    *)
(***************************************************************************)
EXTENDS Naturals, Sequences

CONSTANTS
    Base,             \* of the length prefix (256)
    MaxMessageSize,   \* maxMessageSize
    InboxCap,         \* connector.BufferSize
    Block,            \* most bytes in a chunk: what the link can carry
    Messages,         \* payloads the vehicle sends
    Senders,          \* goroutines that call Send
    FrameSize,        \* bytes of the frame each of them sends
    Guaranteed,       \* defaultMTU - 3: bytes that every link carries
    BlockLengths,     \* of new connections: as BlueZ reports or, if it does not,
                      \* the most to expect
    MaxMessages, MaxFaults  \* bounds on a behaviour

ASSUME Sizes ==
    /\ {Base, Block, Guaranteed, FrameSize, InboxCap} \subseteq Nat \ {0}
    /\ Guaranteed <= Block
    /\ \A b \in BlockLengths : b \in Nat /\ b >= Guaranteed
    /\ "nobody" \notin Senders
    /\ MaxMessageSize \in Nat /\ MaxMessageSize < Base * Base
    /\ Messages \subseteq Seq(0 .. Base - 1)
    /\ \A m \in Messages : Len(m) <= MaxMessageSize

VARIABLES
    air,          \* bytes of the message the vehicle is sending, still to come
    whole,        \* that message, with whether its first chunk is still to come
    rxBuf, inbox,
    flushing,     \* rx is in its loop
    sent,         \* history: messages that ended since both ends last agreed
                  \* on where a message begins,
    observed,     \* what the inbound observer got since then,
    inSync,       \* and whether they still agree
    faults, messages,  \* counters for the bounds
    out,          \* Send: the bytes each sender has left to write,
    outcome,      \* what Send returned,
    mu,           \* who holds Connection.mu, if any
    blockLength,
    wire          \* history: bytes written, each with its sender and place

inbound  == <<air, whole, rxBuf, inbox, flushing, sent, observed, inSync, faults, messages>>
outbound == <<out, outcome, mu, blockLength, wire>>
vars     == <<inbound, outbound>>

Nobody == "nobody"
Byte   == 0 .. Base - 1

Init ==
    /\ air = <<>> /\ whole = [payload |-> <<>>, begins |-> FALSE]
    /\ rxBuf = <<>> /\ inbox = <<>> /\ flushing = FALSE
    /\ sent = <<>> /\ observed = <<>> /\ inSync = TRUE
    /\ faults = 0 /\ messages = 0
    /\ out = [s \in Senders |-> FrameSize]
    /\ outcome = [s \in Senders |-> "none"]
    /\ mu = Nobody /\ blockLength \in BlockLengths /\ wire = <<>>

-----------------------------------------------------------------------------
(* Receiving.                                                              *)

Length(b) == Base * b[1] + b[2]
Framed(m) == <<Len(m) \div Base, Len(m) % Base>> \o m

\* One round of the loop in rx: what to keep, and the message that was complete.
Complete(b) == Len(b) >= 2 /\ Len(b) >= 2 + Length(b)
NoMessage(b) == [done |-> FALSE, keep |-> b]
FirstMessage(b) == [done |-> TRUE, message |-> SubSeq(b, 3, 2 + Length(b)),
                    keep |-> SubSeq(b, 3 + Length(b), Len(b))]

flush_Unlimited(b) == IF Complete(b) THEN FirstMessage(b) ELSE NoMessage(b)

flush(b) ==
    IF Len(b) >= 2 /\ Length(b) > MaxMessageSize
    THEN NoMessage(<<>>)
    ELSE IF Complete(b) THEN FirstMessage(b) ELSE NoMessage(b)

\* The inbox takes a message while it has room, and loses it otherwise.
queued(box, m) == IF Len(box) < InboxCap THEN Append(box, m) ELSE box

\* The buffer that rx flushes, with the chunk p in it.
rx_KeepsBuffer(p, late) == rxBuf \o p
rx(p, late) == (IF late THEN <<>> ELSE rxBuf) \o p

VehicleSends ==
    /\ air = <<>> /\ messages < MaxMessages
    /\ \E m \in Messages : /\ air' = Framed(m)
                           /\ whole' = [payload |-> m, begins |-> TRUE]
    /\ messages' = messages + 1
    /\ UNCHANGED <<rxBuf, inbox, flushing, sent, observed, inSync, faults, outbound>>

Before(n) == SubSeq(air, 1, n)
After(n)  == SubSeq(air, n + 1, Len(air))

\* The next chunk, of n bytes, goes: it arrives or is lost.
ChunkGoes(n) ==
    /\ n <= Len(air) /\ n <= Block
    /\ air' = After(n) /\ whole' = [whole EXCEPT !.begins = FALSE]
    /\ UNCHANGED <<messages, outbound>>

\* rx has the chunk and its loop begins; the next signal waits for its end.
\* Both ends agree again with the first chunk of a message after a gap.  They
\* disagree, or may, from a chunk that is lost or late within its message.
Arrives(n, late) ==
    LET agreed == late /\ whole.begins
        fault  == late /\ ~whole.begins
    IN /\ ~flushing /\ ChunkGoes(n)
       /\ rxBuf' = rx(Before(n), late) /\ flushing' = TRUE
       /\ observed' = IF agreed THEN <<>> ELSE observed
       /\ sent' = (IF agreed THEN <<>> ELSE sent)
                     \o (IF n = Len(air) THEN <<whole.payload>> ELSE <<>>)
       /\ inSync' = (agreed \/ (inSync /\ ~fault))
       /\ faults' = (IF fault THEN faults + 1 ELSE faults) /\ faults' <= MaxFaults
       /\ UNCHANGED inbox

\* One round of the loop: a message goes to the observer and to the inbox, or
\* the loop ends.
Flushes ==
    LET f == flush(rxBuf)
    IN /\ flushing
       /\ rxBuf' = f.keep /\ flushing' = f.done
       /\ IF f.done
          THEN observed' = Append(observed, f.message) /\ inbox' = queued(inbox, f.message)
          ELSE UNCHANGED <<observed, inbox>>
       /\ UNCHANGED <<air, whole, sent, inSync, faults, messages, outbound>>

\* On the air, or because the queue of signals is full.
Lost(n) ==
    /\ ChunkGoes(n) /\ faults < MaxFaults
    /\ inSync' = FALSE /\ faults' = faults + 1
    /\ UNCHANGED <<rxBuf, inbox, flushing, sent, observed>>

Receive ==
    /\ inbox # <<>> /\ inbox' = Tail(inbox)
    /\ UNCHANGED <<air, whole, rxBuf, flushing, sent, observed, inSync, faults, messages, outbound>>

-----------------------------------------------------------------------------
(* Sending.                                                                *)

free_Always == TRUE
free == mu = Nobody

Lock(s) ==
    /\ outcome[s] = "none" /\ free
    /\ mu' = s /\ outcome' = [outcome EXCEPT ![s] = "sending"]
    /\ UNCHANGED <<inbound, out, blockLength, wire>>

chunkOf(s) == IF out[s] < blockLength THEN out[s] ELSE blockLength
BytesOf(s) == [i \in 1 .. chunkOf(s) |-> [by |-> s, place |-> FrameSize - out[s] + i]]

Returns(s, with) == /\ outcome' = [outcome EXCEPT ![s] = with]
                    /\ mu' = IF mu = s THEN Nobody ELSE mu

\* writeChunk succeeds: the link carries chunks of at most Block bytes.
ChunkWritten(s) ==
    /\ outcome[s] = "sending" /\ chunkOf(s) <= Block
    /\ wire' = wire \o BytesOf(s)
    /\ out' = [out EXCEPT ![s] = @ - chunkOf(s)]
    /\ IF out'[s] = 0 THEN Returns(s, "ok") ELSE UNCHANGED <<outcome, mu>>
    /\ UNCHANGED <<inbound, blockLength>>

\* It fails, and nothing was written, be the chunk too large for the link or
\* not, the first of its frame or not: Send falls back to the guaranteed size
\* for what is left and all later frames, and gives up if it had done so.
ChunkFails_Restarts(s) ==
    /\ outcome[s] = "sending"
    /\ IF blockLength <= Guaranteed
       THEN Returns(s, "error") /\ UNCHANGED <<out, blockLength>>
       ELSE /\ blockLength' = Guaranteed /\ out' = [out EXCEPT ![s] = FrameSize]
            /\ UNCHANGED <<outcome, mu>>
    /\ UNCHANGED <<inbound, wire>>

ChunkFails(s) ==
    /\ outcome[s] = "sending"
    /\ IF blockLength <= Guaranteed
       THEN Returns(s, "error") /\ UNCHANGED blockLength
       ELSE blockLength' = Guaranteed /\ UNCHANGED <<outcome, mu>>
    /\ UNCHANGED <<inbound, out, wire>>

\* The context ends, before a write or during one whose bytes were written.
Expires(s) ==
    /\ outcome[s] = "sending"
    /\ wire' \in {wire} \cup (IF chunkOf(s) <= Block THEN {wire \o BytesOf(s)} ELSE {})
    /\ Returns(s, "error")
    /\ UNCHANGED <<inbound, out, blockLength>>

-----------------------------------------------------------------------------

Next ==
    \/ VehicleSends \/ Flushes \/ Receive
    \/ \E n \in 1 .. Block : Lost(n) \/ \E late \in BOOLEAN : Arrives(n, late)
    \/ \E s \in Senders : Lock(s) \/ ChunkWritten(s) \/ ChunkFails(s) \/ Expires(s)

Spec == Init /\ [][Next]_vars

-----------------------------------------------------------------------------
(* Properties.                                                             *)

\* The buffer and the inbox stay within their limits, whatever is lost and
\* whatever the bytes of a payload would mean as a length: flush resets
\* rxBuf rather than wait for a message longer than any.
TypeOK ==
    /\ Len(rxBuf) < 2 + MaxMessageSize + (IF flushing THEN Block ELSE 0)
    /\ Len(inbox) <= InboxCap
    /\ air \in Seq(Byte) /\ rxBuf \in Seq(Byte) /\ flushing \in BOOLEAN
    /\ mu \in Senders \cup {Nobody} /\ blockLength \in BlockLengths \cup {Guaranteed}

\* A fragment that was lost or late spoils no message but those before the next
\* gap: from the first chunk of a message that comes more than rxTimeout after
\* the last (connection.go:291), the observer gets each message the vehicle
\* sends, unchanged and once, by the time rx returns from its last chunk, until
\* another chunk is lost or late.
DeliveredIsSent == inSync /\ ~flushing => observed = sent

\* Send is thread-safe (connection.go:144): a frame whose Send returned no
\* error is on the wire in one piece, in order and once, whatever other
\* goroutines send and however writes fail, also when the chunks shrink within
\* the frame: what is tried again is the chunk, not the frame.
FramesAreWhole ==
    \A s \in Senders : outcome[s] = "ok" =>
        \E k \in 0 .. Len(wire) - FrameSize :
            /\ \A i \in 1 .. FrameSize : wire[k + i] = [by |-> s, place |-> i]
            /\ \A j \in 1 .. Len(wire) :
                 wire[j].by = s => j \in k + 1 .. k + FrameSize
=============================================================================
