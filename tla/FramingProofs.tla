---------------------------- MODULE FramingProofs ----------------------------
(***************************************************************************)
(* Proofs about bluez.Connection: frames that Send wrote are whole, for    *)
(* any number of goroutines, and one round of flush undoes the framing of  *)
(* a message, for any message.                                             *)
(***************************************************************************)
EXTENDS Framing, TLAPS

-----------------------------------------------------------------------------
(* Sequences.                                                              *)

LEMMA Concatenated ==
    ASSUME NEW S, NEW a \in Seq(S), NEW b \in Seq(S)
    PROVE  /\ a \o b \in Seq(S)
           /\ Len(a) \in Nat /\ Len(b) \in Nat
           /\ Len(a \o b) = Len(a) + Len(b)
           /\ \A i \in 1 .. Len(a) : (a \o b)[i] = a[i]
           /\ \A i \in 1 .. Len(b) : (a \o b)[Len(a) + i] = b[i]
OBVIOUS

LEMMA Piece ==
    ASSUME NEW S, NEW a \in Seq(S), NEW j \in Nat \ {0}, NEW k \in Nat,
           j <= k + 1, k <= Len(a)
    PROVE  /\ SubSeq(a, j, k) \in Seq(S) /\ Len(SubSeq(a, j, k)) = k - j + 1
           /\ \A i \in 1 .. k - j + 1 : SubSeq(a, j, k)[i] = a[j + i - 1]
OBVIOUS

LEMMA FunctionIsSequence ==
    ASSUME NEW S, NEW n \in Nat, NEW f \in [1 .. n -> S]
    PROVE  f \in Seq(S) /\ Len(f) = n
OBVIOUS

-----------------------------------------------------------------------------
(* Sending.                                                                *)

Written == [by : Senders, place : Nat]

SendType ==
    /\ out \in [Senders -> 0 .. FrameSize]
    /\ outcome \in [Senders -> {"none", "sending", "ok", "error"}]
    /\ blockLength \in BlockLengths \cup {Guaranteed}
    /\ wire \in Seq(Written)

\* The first n bytes of the frame of s are on the wire, beginning after place k.
Placed(s, k, n) ==
    /\ k \in Nat /\ k + n <= Len(wire)
    /\ \A i \in 1 .. n : wire[k + i] = [by |-> s, place |-> i]

\* Who sends has the lock, and what it has written ends the wire.
SendInv ==
    /\ \A s \in Senders : outcome[s] = "sending" => mu = s
    /\ \A s \in Senders : outcome[s] = "none" => out[s] = FrameSize
    /\ \A s \in Senders : outcome[s] = "sending" =>
         Placed(s, Len(wire) - (FrameSize - out[s]), FrameSize - out[s])
    /\ \A s \in Senders : outcome[s] = "ok" => \E k \in Nat : Placed(s, k, FrameSize)

\* A chunk is never empty and never more than what is left.
LEMMA ChunkSize ==
    ASSUME SendType, NEW s \in Senders
    PROVE  /\ chunkOf(s) \in 0 .. out[s]
           /\ out[s] - chunkOf(s) \in 0 .. FrameSize
BY Sizes DEF SendType, chunkOf, Sizes

LEMMA ChunkBytes ==
    ASSUME SendType, NEW s \in Senders
    PROVE  /\ BytesOf(s) \in Seq(Written) /\ Len(BytesOf(s)) = chunkOf(s)
           /\ \A i \in 1 .. chunkOf(s) :
                BytesOf(s)[i] = [by |-> s, place |-> FrameSize - out[s] + i]
<1> DEFINE e(i) == [by |-> s, place |-> FrameSize - out[s] + i]
<1>1. chunkOf(s) \in Nat /\ FrameSize - out[s] \in Nat
  BY ChunkSize, Sizes DEF SendType, Sizes
<1>2. \A i \in 1 .. chunkOf(s) : e(i) \in Written
  BY <1>1 DEF Written
<1>3. BytesOf(s) = [i \in 1 .. chunkOf(s) |-> e(i)]
  BY DEF BytesOf
<1> HIDE DEF e
<1>4. BytesOf(s) \in [1 .. chunkOf(s) -> Written]
  BY <1>2, <1>3
<1>5. \A i \in 1 .. chunkOf(s) : BytesOf(s)[i] = e(i)
  BY <1>3
<1> QED
  BY <1>1, <1>4, <1>5, FunctionIsSequence DEF e

\* A wire that only grows keeps what is placed on it.
LEMMA PlacedStays ==
    ASSUME SendType, SendType', NEW b \in Seq(Written), wire' = wire \o b,
           NEW s \in Senders, NEW k, NEW n \in Nat, Placed(s, k, n)
    PROVE  Placed(s, k, n)'
<1>1. /\ Len(wire) \in Nat /\ Len(wire') \in Nat /\ Len(wire') >= Len(wire)
      /\ \A i \in 1 .. Len(wire) : wire'[i] = wire[i]
  BY Concatenated DEF SendType
<1> QED
  BY <1>1 DEF Placed

\* The steps of the receiver and of the vehicle leave Send alone.
InboundStep ==
    \/ VehicleSends \/ Flushes \/ Receive
    \/ \E n \in 1 .. Block : Lost(n) \/ \E late \in BOOLEAN : Arrives(n, late)

LEMMA InboundSteps == InboundStep => UNCHANGED outbound
BY DEF InboundStep, VehicleSends, Flushes, Receive, Lost, Arrives, ChunkGoes

LEMMA SendTypeKept == SendType /\ [Next]_vars => SendType'
<1> SUFFICES ASSUME SendType, [Next]_vars
             PROVE  SendType'
  OBVIOUS
<1>1. CASE UNCHANGED outbound
  BY <1>1 DEF SendType, outbound
<1>2. ASSUME NEW s \in Senders, Lock(s) \/ ChunkFails(s)
      PROVE  SendType'
  BY <1>2 DEF SendType, Lock, ChunkFails, Returns
<1>3. ASSUME NEW s \in Senders
      PROVE  wire \o BytesOf(s) \in Seq(Written)
  BY ChunkBytes, Concatenated DEF SendType
<1>4. ASSUME NEW s \in Senders, ChunkWritten(s)
      PROVE  SendType'
  <2>1. wire' \in Seq(Written)
    BY <1>3, <1>4 DEF ChunkWritten
  <2>2. out' \in [Senders -> 0 .. FrameSize]
    BY <1>4, ChunkSize DEF ChunkWritten, SendType
  <2>3. /\ outcome' \in [Senders -> {"none", "sending", "ok", "error"}]
        /\ blockLength' = blockLength
    BY <1>4 DEF ChunkWritten, Returns, SendType
  <2> QED
    BY <2>1, <2>2, <2>3 DEF SendType
<1>5. ASSUME NEW s \in Senders, Expires(s)
      PROVE  SendType'
  BY <1>3, <1>5 DEF Expires, Returns, SendType
<1>6. InboundStep => UNCHANGED outbound
  BY InboundSteps
<1> QED
  BY <1>1, <1>2, <1>4, <1>5, <1>6 DEF Next, InboundStep, vars

\* What one goroutine does to the others: nothing, as they do not send.
LEMMA OthersStay ==
    ASSUME SendType, SendType', SendInv, NEW s \in Senders,
           outcome[s] = "sending" \/ Lock(s),
           NEW b \in Seq(Written), wire' = wire \o b \/ wire' = wire,
           \A t \in Senders \ {s} : outcome'[t] = outcome[t] /\ out'[t] = out[t],
           NEW t \in Senders, t # s
    PROVE  /\ outcome'[t] # "sending"
           /\ outcome'[t] = "none" => out'[t] = FrameSize
           /\ outcome'[t] = "ok" => \E k \in Nat : Placed(t, k, FrameSize)'
<1>1. outcome'[t] = outcome[t] /\ out'[t] = out[t]
  OBVIOUS
<1>2. outcome[t] # "sending"
  BY Sizes DEF SendInv, Lock, free, Nobody, Sizes
<1>3. ASSUME outcome[t] = "ok"
      PROVE  \E k \in Nat : Placed(t, k, FrameSize)'
  <2>1. PICK k \in Nat : Placed(t, k, FrameSize)
    BY <1>3 DEF SendInv
  <2>2. CASE wire' = wire
    BY <2>1, <2>2 DEF Placed
  <2>3. CASE wire' = wire \o b
    BY <2>1, <2>3, PlacedStays, Sizes DEF Sizes
  <2> QED
    BY <2>2, <2>3
<1> QED
  BY <1>1, <1>2, <1>3 DEF SendInv

LEMMA SendKept ==
    ASSUME SendType, SendInv, [Next]_vars
    PROVE  SendInv'
<1>a. SendType'
  BY SendTypeKept
<1>b. FrameSize \in Nat \ {0} /\ Len(wire) \in Nat /\ <<>> \in Seq(Written)
  BY Sizes DEF Sizes, SendType
<1>1. CASE UNCHANGED outbound
  BY <1>1 DEF SendInv, Placed, outbound
<1>2. ASSUME NEW s \in Senders, Lock(s)
      PROVE  SendInv'
  <2>1. /\ outcome[s] = "none" /\ mu' = s
        /\ outcome' = [outcome EXCEPT ![s] = "sending"]
        /\ UNCHANGED <<out, wire>>
    BY <1>2 DEF Lock
  <2>2. outcome'[s] = "sending" /\ out'[s] = FrameSize
    BY <2>1 DEF SendType, SendInv
  <2>3. Placed(s, Len(wire) - (FrameSize - out[s]), FrameSize - out[s])'
    BY <1>b, <2>1, <2>2 DEF Placed
  <2>4. \A t \in Senders \ {s} : outcome'[t] = outcome[t] /\ out'[t] = out[t]
    BY <2>1 DEF SendType
  <2>5. ASSUME NEW t \in Senders, t # s
        PROVE  /\ outcome'[t] # "sending"
               /\ outcome'[t] = "none" => out'[t] = FrameSize
               /\ outcome'[t] = "ok" => \E k \in Nat : Placed(t, k, FrameSize)'
    BY <1>2, <1>a, <1>b, <2>1, <2>4, <2>5, OthersStay
  <2> QED
    BY <2>1, <2>2, <2>3, <2>5 DEF SendInv
<1>3. ASSUME NEW s \in Senders, ChunkWritten(s)
      PROVE  SendInv'
  <2> DEFINE d == FrameSize - out[s]
             n == chunkOf(s)
  <2>1. /\ outcome[s] = "sending" /\ mu = s
        /\ wire' = wire \o BytesOf(s)
        /\ out' = [out EXCEPT ![s] = out[s] - n]
        /\ IF out'[s] = 0 THEN Returns(s, "ok") ELSE UNCHANGED <<outcome, mu>>
    BY <1>3 DEF ChunkWritten, SendInv
  <2>2. out'[s] = out[s] - n /\ n \in 0 .. out[s] /\ out[s] \in 0 .. FrameSize
    BY <2>1, ChunkSize DEF SendType
  <2>3. /\ BytesOf(s) \in Seq(Written) /\ Len(BytesOf(s)) = n
        /\ \A i \in 1 .. n : BytesOf(s)[i] = [by |-> s, place |-> d + i]
    BY ChunkBytes
  <2>4. /\ Len(wire') = Len(wire) + n
        /\ \A i \in 1 .. Len(wire) : wire'[i] = wire[i]
        /\ \A i \in 1 .. n : wire'[Len(wire) + i] = [by |-> s, place |-> d + i]
    BY <2>1, <2>3, Concatenated DEF SendType
  <2>5. Placed(s, Len(wire) - d, d) /\ d \in 0 .. FrameSize
    <3>1. d \in 0 .. FrameSize
      BY <2>2, <1>b
    <3> QED
      BY <2>1, <3>1 DEF SendInv
  <2> HIDE DEF d, n
  <2>6. PICK k \in Nat, m \in Nat : k = Len(wire) - d /\ m = d + n
    <3>1. Len(wire) - d \in Nat
      BY <2>5 DEF Placed
    <3>2. d + n \in Nat
      BY <1>b, <2>2, <2>5
    <3> QED
      BY <3>1, <3>2, Zenon
  <2>7. Placed(s, k, m)' /\ FrameSize - out'[s] = m /\ Len(wire') - m = k
    <3>a. d \in Nat /\ n \in Nat
      BY <1>b, <2>2, <2>5
    <3>b. FrameSize - out'[s] = m
      BY <1>b, <2>2, <2>6, <3>a DEF d
    <3>1. k + m <= Len(wire') /\ FrameSize - out'[s] = m /\ Len(wire') - m = k
      BY <1>b, <2>4, <2>6, <3>a, <3>b
    <3>2. ASSUME NEW i \in 1 .. m
          PROVE  wire'[k + i] = [by |-> s, place |-> i]
      <4>1. CASE i <= d
        <5>1. i \in 1 .. d /\ k + i \in 1 .. Len(wire)
          BY <1>b, <2>2, <2>5, <2>6, <4>1
        <5>2. wire[Len(wire) - d + i] = [by |-> s, place |-> i]
          BY <2>5, <5>1 DEF Placed
        <5> QED
          BY <2>4, <2>6, <5>1, <5>2
      <4>2. CASE i > d
        <5>1. i - d \in 1 .. n /\ Len(wire) + (i - d) = k + i /\ d + (i - d) = i
          BY <1>b, <2>2, <2>5, <2>6, <4>2
        <5> QED
          BY <2>4, <5>1
      <4> QED
        BY <2>2, <2>5, <4>1, <4>2
    <3> QED
      BY <3>1, <3>2 DEF Placed
  <2>8. \A t \in Senders \ {s} : outcome'[t] = outcome[t] /\ out'[t] = out[t]
    BY <2>1 DEF SendType, Returns
  <2>9. ASSUME NEW t \in Senders, t # s
        PROVE  /\ outcome'[t] # "sending"
               /\ outcome'[t] = "none" => out'[t] = FrameSize
               /\ outcome'[t] = "ok" => \E j \in Nat : Placed(t, j, FrameSize)'
    BY <1>a, <2>1, <2>3, <2>8, <2>9, OthersStay
  <2>10. CASE out'[s] = 0
    <3>1. outcome'[s] = "ok"
      BY <2>1, <2>10 DEF Returns, SendType
    <3>2. m = FrameSize
      BY <1>b, <2>7, <2>10
    <3>3. \E j \in Nat : Placed(s, j, FrameSize)'
      BY <2>7, <3>2
    <3> QED
      BY <2>9, <3>1, <3>3 DEF SendInv
  <2>11. CASE out'[s] # 0
    <3>1. outcome'[s] = "sending" /\ mu' = s
      BY <2>1, <2>11
    <3>2. Placed(s, Len(wire) - (FrameSize - out[s]), FrameSize - out[s])'
      BY <2>7
    <3> QED
      BY <2>9, <3>1, <3>2 DEF SendInv
  <2> QED
    BY <2>10, <2>11
<1>4. ASSUME NEW s \in Senders, ChunkFails(s), UNCHANGED outcome
      PROVE  SendInv'
  <2>1. UNCHANGED <<out, wire, outcome>> /\ (outcome[s] = "sending")
    BY <1>4 DEF ChunkFails
  <2>2. mu' = mu
    BY <1>4, <2>1 DEF ChunkFails, Returns, SendType
  <2> QED
    BY <2>1, <2>2 DEF SendInv, Placed
<1>5. ASSUME NEW s \in Senders, outcome[s] = "sending", Returns(s, "error"),
             out' = out, wire' = wire \/ wire' = wire \o BytesOf(s)
      PROVE  SendInv'
  <2>1. outcome'[s] = "error"
    BY <1>5 DEF Returns, SendType
  <2>2. \A t \in Senders \ {s} : outcome'[t] = outcome[t] /\ out'[t] = out[t]
    BY <1>5 DEF Returns, SendType
  <2>3. BytesOf(s) \in Seq(Written)
    BY ChunkBytes
  <2>4. ASSUME NEW t \in Senders, t # s
        PROVE  /\ outcome'[t] # "sending"
               /\ outcome'[t] = "none" => out'[t] = FrameSize
               /\ outcome'[t] = "ok" => \E k \in Nat : Placed(t, k, FrameSize)'
    BY <1>5, <1>a, <2>2, <2>3, <2>4, OthersStay
  <2> QED
    BY <2>1, <2>4 DEF SendInv
<1>6. ASSUME NEW s \in Senders, ChunkFails(s) \/ Expires(s)
      PROVE  SendInv'
  <2>1. CASE ChunkFails(s) /\ UNCHANGED outcome
    BY <1>4, <2>1
  <2>2. CASE ChunkFails(s) /\ ~UNCHANGED outcome
    BY <1>5, <2>2 DEF ChunkFails
  <2>3. CASE Expires(s)
    BY <1>5, <2>3 DEF Expires
  <2> QED
    BY <1>6, <2>1, <2>2, <2>3
<1>7. InboundStep => UNCHANGED outbound
  BY InboundSteps
<1> QED
  BY <1>1, <1>2, <1>3, <1>6, <1>7 DEF Next, InboundStep, vars

\* No byte is on the wire twice: of a frame that is being sent, what is there
\* is what has been taken off out.
OnceInv ==
    /\ \A j \in 1 .. Len(wire) :
         /\ wire[j].place \in 1 .. FrameSize
         /\ outcome[wire[j].by] # "none"
         /\ outcome[wire[j].by] = "sending" =>
              wire[j].place <= FrameSize - out[wire[j].by]
    /\ \A i, j \in 1 .. Len(wire) : wire[i] = wire[j] => i = j

LEMMA WritesOnce ==
    ASSUME SendType, OnceInv, NEW s \in Senders, outcome[s] = "sending",
           wire' = wire \o BytesOf(s),
           out'[s] = out[s] - chunkOf(s) \/ outcome'[s] # "sending",
           outcome'[s] # "none",
           \A t \in Senders \ {s} : outcome'[t] = outcome[t] /\ out'[t] = out[t]
    PROVE  OnceInv'
<1> DEFINE d == FrameSize - out[s]
           n == chunkOf(s)
<1>1. FrameSize \in Nat /\ out[s] \in 0 .. FrameSize /\ n \in 0 .. out[s]
  BY ChunkSize, Sizes DEF SendType, Sizes
<1>2. d \in Nat /\ n \in Nat /\ d + n \in 0 .. FrameSize
      /\ FrameSize - (out[s] - n) = d + n
  BY <1>1
<1>3. /\ Len(wire) \in Nat /\ Len(wire') = Len(wire) + n
      /\ \A i \in 1 .. Len(wire) : wire'[i] = wire[i]
      /\ \A i \in 1 .. n : wire'[Len(wire) + i] = [by |-> s, place |-> d + i]
  BY ChunkBytes, Concatenated DEF SendType
<1>4. out'[s] = out[s] - n \/ outcome'[s] # "sending"
  OBVIOUS
<1>5. \A i \in 1 .. Len(wire) :
        wire[i] \in Written /\ (wire[i].by = s => wire[i].place <= d)
  BY <1>3 DEF SendType, OnceInv
<1> HIDE DEF d, n
<1>6. ASSUME NEW j \in 1 .. Len(wire'), j > Len(wire)
      PROVE  /\ wire'[j] = [by |-> s, place |-> d + (j - Len(wire))]
             /\ j - Len(wire) \in 1 .. n
  <2>1. j - Len(wire) \in 1 .. n /\ Len(wire) + (j - Len(wire)) = j
    BY <1>2, <1>3, <1>6
  <2> QED
    BY <1>3, <2>1
<1>7. ASSUME NEW j \in 1 .. Len(wire'), ~(j > Len(wire))
      PROVE  j \in 1 .. Len(wire) /\ wire'[j] = wire[j]
  BY <1>2, <1>3, <1>7
<1>b. ASSUME NEW j \in 1 .. Len(wire'), j > Len(wire)
      PROVE  /\ wire'[j].by = s /\ wire'[j].place = d + (j - Len(wire))
             /\ d + (j - Len(wire)) \in d + 1 .. d + n
  <2>1. /\ wire'[j] = [by |-> s, place |-> d + (j - Len(wire))]
        /\ j - Len(wire) \in 1 .. n
    BY <1>6, <1>b
  <2>2. wire'[j].by = s /\ wire'[j].place = d + (j - Len(wire))
    BY <2>1
  <2>3. d + (j - Len(wire)) \in d + 1 .. d + n
    BY <1>2, <1>3, <2>1
  <2> QED
    BY <2>2, <2>3
<1>8. ASSUME NEW j \in 1 .. Len(wire')
      PROVE  /\ wire'[j].place \in 1 .. FrameSize
             /\ outcome'[wire'[j].by] # "none"
             /\ outcome'[wire'[j].by] = "sending" =>
                  wire'[j].place <= FrameSize - out'[wire'[j].by]
  <2>1. CASE j > Len(wire)
    <3>1. wire'[j].by = s /\ wire'[j].place \in d + 1 .. d + n
      BY <1>b, <2>1
    <3>2. outcome'[s] = "sending" => FrameSize - out'[s] = d + n
      <4>1. FrameSize - (out[s] - n) = d + n
        BY <1>2
      <4> QED
        BY <1>4, <4>1
    <3>3. \A p \in d + 1 .. d + n : p \in 1 .. FrameSize /\ p <= d + n
      <4>1. d \in Nat /\ n \in Nat /\ FrameSize \in Nat /\ d + n <= FrameSize
        BY <1>1, <1>2
      <4> QED
        BY <4>1
    <3> QED
      BY <3>1, <3>2, <3>3
  <2>2. CASE ~(j > Len(wire)) /\ wire[j].by = s
    <3>1. /\ wire'[j] = wire[j] /\ wire[j].place \in 1 .. FrameSize
          /\ wire[j].place <= d
      BY <1>5, <1>7, <2>2 DEF OnceInv
    <3>2. outcome'[s] = "sending" => FrameSize - out'[s] = d + n
      <4>1. FrameSize - (out[s] - n) = d + n
        BY <1>2
      <4> QED
        BY <1>4, <4>1
    <3>3. \A p \in 1 .. FrameSize : p <= d => p <= d + n
      BY <1>2
    <3> QED
      BY <2>2, <3>1, <3>2, <3>3
  <2>3. CASE ~(j > Len(wire)) /\ wire[j].by # s
    <3>1. wire[j].by \in Senders \ {s} /\ wire'[j] = wire[j] /\ j \in 1 .. Len(wire)
      BY <1>5, <1>7, <2>3 DEF Written
    <3> QED
      BY <3>1 DEF OnceInv
  <2> QED
    BY <2>1, <2>2, <2>3
<1>9. ASSUME NEW i \in 1 .. Len(wire'), NEW j \in 1 .. Len(wire'),
             wire'[i] = wire'[j]
      PROVE  i = j
  <2>1. CASE i > Len(wire) /\ j > Len(wire)
    <3>1. d + (i - Len(wire)) = d + (j - Len(wire))
      BY <1>b, <1>9, <2>1
    <3> QED
      BY <1>2, <1>3, <1>b, <2>1, <3>1
  <2>2. CASE i > Len(wire) /\ ~(j > Len(wire))
    <3>1. wire[j].by = s /\ wire[j].place \in d + 1 .. d + n
      BY <1>7, <1>9, <1>b, <2>2
    <3> QED
      BY <1>2, <1>5, <1>7, <2>2, <3>1
  <2>3. CASE ~(i > Len(wire)) /\ j > Len(wire)
    <3>1. wire[i].by = s /\ wire[i].place \in d + 1 .. d + n
      BY <1>7, <1>9, <1>b, <2>3
    <3> QED
      BY <1>2, <1>5, <1>7, <2>3, <3>1
  <2>4. CASE ~(i > Len(wire)) /\ ~(j > Len(wire))
    BY <1>7, <1>9, <2>4 DEF OnceInv
  <2> QED
    BY <2>1, <2>2, <2>3, <2>4
<1> QED
  BY <1>8, <1>9 DEF OnceInv

LEMMA OnceKept ==
    ASSUME SendType, SendInv, OnceInv, [Next]_vars
    PROVE  OnceInv'
<1>a. \A j \in 1 .. Len(wire) : wire[j] \in Written /\ wire[j].by \in Senders
  <2>1. \A j \in 1 .. Len(wire) : wire[j] \in Written
    BY DEF SendType
  <2> QED
    BY <2>1 DEF Written
<1>1. CASE UNCHANGED outbound
  BY <1>1 DEF OnceInv, outbound
<1>2. ASSUME NEW s \in Senders, Lock(s)
      PROVE  OnceInv'
  <2>1. UNCHANGED <<out, wire>> /\ outcome[s] = "none"
        /\ \A t \in Senders \ {s} : outcome'[t] = outcome[t]
    BY <1>2 DEF Lock, SendType
  <2>2. \A j \in 1 .. Len(wire) : wire[j].by # s
    BY <2>1 DEF OnceInv
  <2> QED
    BY <1>a, <2>1, <2>2 DEF OnceInv
<1>3. ASSUME NEW s \in Senders, ChunkWritten(s)
      PROVE  OnceInv'
  <2>1. /\ outcome[s] = "sending" /\ wire' = wire \o BytesOf(s)
        /\ out'[s] = out[s] - chunkOf(s) /\ outcome'[s] # "none"
    BY <1>3 DEF ChunkWritten, Returns, SendType
  <2>2. \A t \in Senders \ {s} : outcome'[t] = outcome[t] /\ out'[t] = out[t]
    BY <1>3 DEF ChunkWritten, Returns, SendType
  <2> QED
    BY <2>1, <2>2, WritesOnce
<1>4. ASSUME NEW s \in Senders, ChunkFails(s) \/ Expires(s), wire' = wire
      PROVE  OnceInv'
  <2>1. /\ out' = out /\ outcome'[s] # "none" /\ outcome[s] = "sending"
        /\ \A t \in Senders \ {s} : outcome'[t] = outcome[t]
    BY <1>4 DEF ChunkFails, Expires, Returns, SendType
  <2> QED
    BY <1>4, <1>a, <2>1 DEF OnceInv
<1>5. ASSUME NEW s \in Senders, Expires(s), wire' = wire \o BytesOf(s)
      PROVE  OnceInv'
  <2>1. /\ outcome[s] = "sending" /\ outcome'[s] = "error"
        /\ \A t \in Senders \ {s} : outcome'[t] = outcome[t] /\ out'[t] = out[t]
    BY <1>5 DEF Expires, Returns, SendType
  <2> QED
    BY <1>5, <2>1, WritesOnce
<1>6. ASSUME NEW s \in Senders, ChunkFails(s) \/ Expires(s)
      PROVE  wire' = wire \/ (Expires(s) /\ wire' = wire \o BytesOf(s))
  BY <1>6 DEF ChunkFails, Expires
<1>7. InboundStep => UNCHANGED outbound
  BY InboundSteps
<1> QED
  BY <1>1, <1>2, <1>3, <1>4, <1>5, <1>6, <1>7 DEF Next, InboundStep, vars

\* Send is thread-safe: whatever other goroutines send, however writes fail
\* and whichever deadline passes, a frame whose Send returned no error is on
\* the wire in one piece, in order and once, for frames and chunks of any size, which
\* may shrink within a frame.
THEOREM SentFramesAreWhole == Spec => []FramesAreWhole
<1>1. Init => SendType /\ SendInv /\ OnceInv
  BY Sizes DEF Init, SendType, SendInv, OnceInv, Sizes
<1>2. ASSUME SendType, SendInv, OnceInv
      PROVE  FramesAreWhole
  <2> SUFFICES ASSUME NEW s \in Senders, outcome[s] = "ok"
               PROVE  \E k \in 0 .. Len(wire) - FrameSize :
                        /\ \A i \in 1 .. FrameSize :
                             wire[k + i] = [by |-> s, place |-> i]
                        /\ \A j \in 1 .. Len(wire) :
                             wire[j].by = s => j \in k + 1 .. k + FrameSize
    BY DEF FramesAreWhole
  <2>1. PICK k \in Nat : Placed(s, k, FrameSize)
    BY <1>2 DEF SendInv
  <2>2. k \in 0 .. Len(wire) - FrameSize
    BY <1>2, <2>1, Sizes DEF Placed, Sizes, SendType
  <2>3. ASSUME NEW j \in 1 .. Len(wire), wire[j].by = s
        PROVE  j \in k + 1 .. k + FrameSize
    <3>a. wire[j] \in Written
      BY <1>2 DEF SendType
    <3>1. PICK p \in 1 .. FrameSize : wire[j] = [by |-> s, place |-> p]
      BY <1>2, <2>3, <3>a DEF Written, OnceInv
    <3>2. k + p \in 1 .. Len(wire) /\ wire[k + p] = wire[j]
      BY <1>2, <2>1, <3>1, Sizes DEF Placed, Sizes, SendType
    <3>3. j = k + p
      BY <1>2, <3>2 DEF OnceInv
    <3> QED
      BY <3>1, <3>3, Sizes DEF Sizes
  <2> QED
    BY <2>1, <2>2, <2>3 DEF Placed
<1> QED
  BY <1>1, <1>2, SendTypeKept, SendKept, OnceKept, PTL DEF Spec

-----------------------------------------------------------------------------
(* Receiving.                                                              *)

LEMMA DivMod ==
    ASSUME NEW n \in Nat
    PROVE  /\ n \div Base \in Nat /\ n % Base \in Nat
           /\ Base * (n \div Base) + (n % Base) = n
<1>1. ASSUME NEW d \in Nat \ {0}
      PROVE  n \div d \in Nat /\ n % d \in Nat /\ d * (n \div d) + (n % d) = n
  OBVIOUS
<1> QED
  BY <1>1, Sizes DEF Sizes

\* The bytes of a frame, and of a buffer that begins with one.
LEMMA FrameBytes ==
    ASSUME NEW m \in Seq(Nat)
    PROVE  /\ Framed(m) \in Seq(Nat) /\ Len(Framed(m)) = Len(m) + 2
           /\ Len(m) \in Nat
           /\ Framed(m)[1] = Len(m) \div Base /\ Framed(m)[2] = Len(m) % Base
           /\ \A i \in 1 .. Len(m) : Framed(m)[i + 2] = m[i]
<1> DEFINE p == <<Len(m) \div Base, Len(m) % Base>>
<1>1. p \in Seq(Nat) /\ Len(p) = 2 /\ p[1] = Len(m) \div Base /\ p[2] = Len(m) % Base
  BY DivMod
<1>2. Framed(m) = p \o m
  BY DEF Framed
<1> HIDE DEF p
<1>3. /\ p \o m \in Seq(Nat) /\ Len(m) \in Nat /\ Len(p \o m) = Len(p) + Len(m)
      /\ \A i \in 1 .. Len(p) : (p \o m)[i] = p[i]
      /\ \A i \in 1 .. Len(m) : (p \o m)[Len(p) + i] = m[i]
  <2> p \in Seq(Nat)
    BY <1>1
  <2> QED
    BY Concatenated
<1> QED
  BY <1>1, <1>2, <1>3

LEMMA SameSequence ==
    ASSUME NEW S, NEW a \in Seq(S), NEW b \in Seq(S), Len(a) = Len(b),
           \A i \in 1 .. Len(a) : a[i] = b[i]
    PROVE  a = b
OBVIOUS

\* flush takes a message out of the buffer as it was sent, as soon as its last
\* byte is there and not before, whatever follows and whatever its bytes are.
THEOREM FlushUndoesFraming ==
    ASSUME NEW m \in Seq(Nat), Len(m) <= MaxMessageSize
    PROVE  /\ \A rest \in Seq(Nat) :
                flush(Framed(m) \o rest) =
                  [done |-> TRUE, message |-> m, keep |-> rest]
           /\ \A k \in 0 .. Len(m) + 1 :
                flush(SubSeq(Framed(m), 1, k)) =
                  NoMessage(SubSeq(Framed(m), 1, k))
<1>1. ASSUME NEW rest \in Seq(Nat)
      PROVE  flush(Framed(m) \o rest) =
               [done |-> TRUE, message |-> m, keep |-> rest]
  <2> DEFINE b == Framed(m) \o rest
             n == Len(m)
  <2>1. /\ b \in Seq(Nat) /\ n \in Nat /\ Len(rest) \in Nat
        /\ Len(b) = n + 2 + Len(rest)
        /\ \A i \in 1 .. n + 2 : b[i] = Framed(m)[i]
        /\ \A i \in 1 .. Len(rest) : b[n + 2 + i] = rest[i]
    <3>1. Framed(m) \in Seq(Nat) /\ Len(Framed(m)) = n + 2 /\ n \in Nat
      BY FrameBytes
    <3>2. /\ b \in Seq(Nat) /\ Len(rest) \in Nat
          /\ Len(b) = Len(Framed(m)) + Len(rest)
          /\ \A i \in 1 .. Len(Framed(m)) : b[i] = Framed(m)[i]
          /\ \A i \in 1 .. Len(rest) : b[Len(Framed(m)) + i] = rest[i]
      <4> Framed(m) \in Seq(Nat)
        BY <3>1
      <4> QED
        BY Concatenated
    <3> HIDE DEF b, n
    <3> QED
      BY <3>1, <3>2
  <2>2. b[1] = n \div Base /\ b[2] = n % Base
    <3>1. 1 \in 1 .. n + 2 /\ 2 \in 1 .. n + 2
      BY <2>1
    <3> QED
      BY <2>1, <3>1, FrameBytes
  <2>3. \A i \in 1 .. n : b[i + 2] = m[i]
    BY <2>1, FrameBytes
  <2> HIDE DEF b, n
  <2>4. Length(b) = n
    <3>1. Length(b) = Base * (n \div Base) + (n % Base)
      BY <2>2 DEF Length
    <3> QED
      BY <2>1, <3>1, DivMod
  <2>5. n <= MaxMessageSize /\ MaxMessageSize \in Nat
    BY Sizes DEF Sizes, n
  <2>6. flush(b) = FirstMessage(b)
    BY <2>1, <2>4, <2>5 DEF flush, Complete
  <2>7. SubSeq(b, 3, 2 + n) = m
    <3>1. /\ SubSeq(b, 3, 2 + n) \in Seq(Nat) /\ Len(SubSeq(b, 3, 2 + n)) = n
          /\ \A i \in 1 .. n : SubSeq(b, 3, 2 + n)[i] = b[i + 2]
      <4>1. 3 <= (2 + n) + 1 /\ 2 + n <= Len(b) /\ 2 + n \in Nat
        BY <2>1
      <4>2. /\ SubSeq(b, 3, 2 + n) \in Seq(Nat)
            /\ Len(SubSeq(b, 3, 2 + n)) = (2 + n) - 3 + 1
            /\ \A i \in 1 .. (2 + n) - 3 + 1 : SubSeq(b, 3, 2 + n)[i] = b[3 + i - 1]
        BY <2>1, <4>1, Piece
      <4>3. \A i \in 1 .. n : 3 + i - 1 = i + 2
        OBVIOUS
      <4> QED
        BY <2>1, <4>2, <4>3
    <3> QED
      BY <2>1, <2>3, <3>1, SameSequence DEF n
  <2>8. SubSeq(b, 3 + n, Len(b)) = rest
    <3>1. /\ SubSeq(b, 3 + n, Len(b)) \in Seq(Nat)
          /\ Len(SubSeq(b, 3 + n, Len(b))) = Len(rest)
          /\ \A i \in 1 .. Len(rest) : SubSeq(b, 3 + n, Len(b))[i] = b[n + 2 + i]
      <4> DEFINE j == 3 + n
                 l == Len(b)
      <4>1. j \in Nat \ {0} /\ l \in Nat /\ j <= l + 1 /\ l - j + 1 = Len(rest)
        BY <2>1
      <4>2. /\ SubSeq(b, j, l) \in Seq(Nat) /\ Len(SubSeq(b, j, l)) = l - j + 1
            /\ \A i \in 1 .. l - j + 1 : SubSeq(b, j, l)[i] = b[j + i - 1]
        BY <2>1, <4>1, Piece
      <4>3. \A i \in 1 .. Len(rest) : j + i - 1 = n + 2 + i
        BY <2>1
      <4> QED
        BY <4>1, <4>2, <4>3
    <3> QED
      BY <2>1, <3>1, SameSequence
  <2> QED
    BY <2>4, <2>6, <2>7, <2>8 DEF FirstMessage, b
<1>2. ASSUME NEW k \in 0 .. Len(m) + 1
      PROVE  flush(SubSeq(Framed(m), 1, k)) = NoMessage(SubSeq(Framed(m), 1, k))
  <2> DEFINE b == SubSeq(Framed(m), 1, k)
             n == Len(m)
  <2>1. n \in Nat /\ n <= MaxMessageSize /\ MaxMessageSize \in Nat /\ k < n + 2
    BY FrameBytes, Sizes DEF Sizes
  <2>2. b \in Seq(Nat) /\ Len(b) = k /\ \A i \in 1 .. k : b[i] = Framed(m)[i]
    <3>1. /\ Framed(m) \in Seq(Nat) /\ k <= Len(Framed(m)) /\ k \in Nat
          /\ k - 1 + 1 = k /\ \A i \in 1 .. k : 1 + i - 1 = i
      BY <2>1, FrameBytes
    <3> QED
      BY <3>1, Piece
  <2>3. k >= 2 => b[1] = n \div Base /\ b[2] = n % Base
    BY <2>1, <2>2, FrameBytes
  <2> HIDE DEF b, n
  <2>4. k >= 2 => Length(b) = n
    <3>1. k >= 2 => Length(b) = Base * (n \div Base) + (n % Base)
      BY <2>3 DEF Length
    <3> QED
      BY <2>1, <3>1, DivMod
  <2> QED
    BY <2>1, <2>2, <2>4 DEF flush, Complete, b
<1> QED
  BY <1>1, <1>2

\* The loop of rx ends, whatever the bytes mean, and leaves a buffer that is
\* no longer than a message that is not complete.
THEOREM FlushMakesProgress ==
    ASSUME NEW b \in Seq(Nat)
    PROVE  /\ flush(b).done => Len(flush(b).keep) < Len(b)
           /\ ~flush(b).done => Len(flush(b).keep) < 2 + MaxMessageSize
<1>1. MaxMessageSize \in Nat /\ Len(b) \in Nat
  BY Sizes DEF Sizes
<1>2. Len(b) >= 2 => Length(b) \in Nat
  <2>1. Len(b) >= 2 => b[1] \in Nat /\ b[2] \in Nat
    OBVIOUS
  <2>2. \A x, y \in Nat : Base * x + y \in Nat
    <3>1. \A z, x, y \in Nat : z * x + y \in Nat
      OBVIOUS
    <3> QED
      BY <3>1, Sizes DEF Sizes
  <2> QED
    BY <2>1, <2>2 DEF Length
<1>3. CASE Len(b) >= 2 /\ Length(b) > MaxMessageSize
  BY <1>1, <1>3 DEF flush, NoMessage
<1>4. CASE ~(Len(b) >= 2 /\ Length(b) > MaxMessageSize) /\ Complete(b)
  <2>1. Len(SubSeq(b, 3 + Length(b), Len(b))) < Len(b)
    <3>1. Length(b) \in Nat /\ Len(b) >= 2 + Length(b)
      BY <1>2, <1>4 DEF Complete
    <3>2. ASSUME NEW x \in Nat, NEW y \in Nat, y >= 2 + x
          PROVE  3 + x \in Nat \ {0} /\ 3 + x <= y + 1 /\ y - (3 + x) + 1 < y
      BY <3>2
    <3>3. /\ 3 + Length(b) \in Nat \ {0} /\ 3 + Length(b) <= Len(b) + 1
          /\ Len(b) - (3 + Length(b)) + 1 < Len(b)
      BY <1>1, <3>1, <3>2, Zenon
    <3> QED
      BY <1>1, <3>3, Piece
  <2>2. flush(b) = FirstMessage(b)
    BY <1>4 DEF flush
  <2>3. flush(b).done /\ flush(b).keep = SubSeq(b, 3 + Length(b), Len(b))
    <3>1. ASSUME NEW f, NEW x, NEW y, f = [done |-> TRUE, message |-> x, keep |-> y]
          PROVE  f.done /\ f.keep = y
      BY <3>1
    <3> QED
      BY <2>2, <3>1 DEF FirstMessage
  <2> QED
    BY <2>1, <2>3
<1>5. CASE ~(Len(b) >= 2 /\ Length(b) > MaxMessageSize) /\ ~Complete(b)
  <2>1. Len(b) < 2 + MaxMessageSize
    BY <1>1, <1>2, <1>5 DEF Complete
  <2>2. flush(b) = NoMessage(b)
    BY <1>5 DEF flush
  <2> QED
    BY <2>1, <2>2 DEF NoMessage
<1> QED
  BY <1>3, <1>4, <1>5
-----------------------------------------------------------------------------
(* The loop of rx.                                                         *)

\* What a vehicle may send, and what a buffer holds.
Payload == {m \in Seq(Byte) : Len(m) <= MaxMessageSize}

LEMMA BytesAreNumbers ==
    /\ Byte \subseteq Nat /\ Seq(Byte) \subseteq Seq(Nat) /\ <<>> \in Payload
    /\ MaxMessageSize \in Nat /\ Block \in Nat \ {0} /\ InboxCap \in Nat \ {0}
<1>1. Byte \subseteq Nat
  BY Sizes DEF Byte, Sizes
<1>2. ASSUME NEW S, NEW T, S \subseteq T
      PROVE  Seq(S) \subseteq Seq(T)
  BY <1>2
<1>3. MaxMessageSize \in Nat /\ Block \in Nat \ {0} /\ InboxCap \in Nat \ {0}
  BY Sizes DEF Sizes
<1>4. <<>> \in Seq(Byte) /\ Len(<<>>) = 0
  OBVIOUS
<1>5. <<>> \in Payload
  BY <1>3, <1>4 DEF Payload
<1> QED
  BY <1>1, <1>2, <1>3, <1>5

LEMMA Appended ==
    ASSUME NEW S, NEW a \in Seq(S), NEW e \in S
    PROVE  /\ Append(a, e) \in Seq(S) /\ Append(a, e) = a \o <<e>>
           /\ Len(Append(a, e)) = Len(a) + 1
OBVIOUS

LEMMA NothingConcatenated ==
    ASSUME NEW S, NEW a \in Seq(S)
    PROVE  <<>> \o a = a /\ a \o <<>> = a
OBVIOUS

LEMMA Grouped ==
    ASSUME NEW S, NEW a \in Seq(S), NEW b \in Seq(S), NEW c \in Seq(S)
    PROVE  (a \o b) \o c = a \o (b \o c)
OBVIOUS

\* A sequence cut in two.
LEMMA Cut ==
    ASSUME NEW S, NEW a \in Seq(S), NEW n \in 0 .. Len(a)
    PROVE  /\ SubSeq(a, 1, n) \in Seq(S) /\ Len(SubSeq(a, 1, n)) = n
           /\ SubSeq(a, n + 1, Len(a)) \in Seq(S)
           /\ Len(SubSeq(a, n + 1, Len(a))) = Len(a) - n
           /\ SubSeq(a, 1, n) \o SubSeq(a, n + 1, Len(a)) = a
<1> DEFINE p == SubSeq(a, 1, n)
           q == SubSeq(a, n + 1, Len(a))
<1>1. p \in Seq(S) /\ Len(p) = n /\ \A i \in 1 .. n : p[i] = a[i]
  OBVIOUS
<1>2. /\ q \in Seq(S) /\ Len(q) = Len(a) - n
      /\ \A i \in 1 .. Len(a) - n : q[i] = a[n + i]
  OBVIOUS
<1> HIDE DEF p, q
<1>3. /\ p \o q \in Seq(S) /\ Len(p \o q) = Len(p) + Len(q)
      /\ \A i \in 1 .. Len(p) : (p \o q)[i] = p[i]
      /\ \A i \in 1 .. Len(q) : (p \o q)[Len(p) + i] = q[i]
  <2> p \in Seq(S) /\ q \in Seq(S)
    BY <1>1, <1>2
  <2> QED
    BY Concatenated
<1>4. Len(a) \in Nat /\ n \in Nat /\ n <= Len(a)
  OBVIOUS
<1>5. ASSUME NEW i \in 1 .. Len(a)
      PROVE  (p \o q)[i] = a[i]
  <2>1. CASE i <= n
    BY <1>1, <1>3, <2>1
  <2>2. CASE i > n
    <3>1. PICK j \in 1 .. Len(a) - n : i = n + j
      <4> i - n \in 1 .. Len(a) - n /\ i = n + (i - n)
        BY <1>4, <2>2
      <4> QED
        OBVIOUS
    <3> QED
      BY <1>1, <1>2, <1>3, <3>1
  <2>3. i <= n \/ i > n
    BY <1>4
  <2> QED
    BY <2>1, <2>2, <2>3
<1>6. p \o q = a
  <2>1. Len(p \o q) = Len(a)
    BY <1>1, <1>2, <1>3, <1>4
  <2> QED
    BY <1>3, <1>5, <2>1, SameSequence
<1> QED
  BY <1>1, <1>2, <1>6 DEF p, q

LEMMA FrontOf ==
    ASSUME NEW S, NEW a \in Seq(S), NEW b \in Seq(S)
    PROVE  SubSeq(a \o b, 1, Len(a)) = a
OBVIOUS

LEMMA FrameIsBytes ==
    ASSUME NEW m \in Payload
    PROVE  Framed(m) \in Seq(Byte) /\ Len(Framed(m)) = Len(m) + 2 /\ Len(m) \in Nat
<1>1. Len(m) \in Nat /\ Len(m) < Base * Base /\ m \in Seq(Byte)
  BY Sizes DEF Sizes, Payload
<1>2. Base \in Nat \ {0}
  BY Sizes DEF Sizes
<1>3. ASSUME NEW n \in Nat, NEW d \in Nat \ {0}
      PROVE  n % d \in 0 .. d - 1
  OBVIOUS
<1>4. Len(m) \div Base \in Byte
  <2> DEFINE q == Len(m) \div Base
             r == Len(m) % Base
  <2>1. q \in Nat /\ r \in Nat /\ Base * q + r = Len(m)
    BY <1>1, DivMod
  <2> HIDE DEF q, r
  <2>2. \A x, y, z \in Nat : x >= y => z * x >= z * y
    OBVIOUS
  <2>3. q >= Base => Base * q >= Base * Base
    BY <1>2, <2>1, <2>2
  <2>4. \A x, y, z \in Nat : x + y = z => x <= z
    OBVIOUS
  <2>5. Base * q \in Nat /\ Base * Base \in Nat
    BY <1>2, <2>1
  <2>6. Base * q <= Len(m)
    BY <1>1, <2>1, <2>4, <2>5
  <2>7. q < Base
    BY <1>1, <1>2, <2>1, <2>3, <2>5, <2>6
  <2> QED
    BY <1>2, <2>1, <2>7 DEF Byte, q
<1>5. Len(m) % Base \in Byte
  BY <1>1, <1>2, <1>3 DEF Byte
<1>6. <<Len(m) \div Base, Len(m) % Base>> \in Seq(Byte)
  BY <1>4, <1>5
<1>7. Framed(m) \in Seq(Byte)
  BY <1>1, <1>6, Concatenated DEF Framed
<1> QED
  BY <1>1, <1>7, FrameBytes, BytesAreNumbers

\* What flush keeps and what it hands on are bytes.
LEMMA FlushType ==
    ASSUME NEW b \in Seq(Byte)
    PROVE  /\ flush(b).done \in BOOLEAN /\ flush(b).keep \in Seq(Byte)
           /\ flush(b).done => flush(b).message \in Seq(Byte)
<1>1. Len(b) \in Nat /\ <<>> \in Seq(Byte)
  OBVIOUS
<1>2. CASE ~(Len(b) >= 2 /\ Length(b) > MaxMessageSize) /\ Complete(b)
  <2>1. Length(b) \in Nat
    <3>1. b[1] \in Nat /\ b[2] \in Nat
      BY <1>2, BytesAreNumbers DEF Complete
    <3>2. \A x, y \in Nat : Base * x + y \in Nat
      <4>1. \A z, x, y \in Nat : z * x + y \in Nat
        OBVIOUS
      <4> QED
        BY <4>1, Sizes DEF Sizes
    <3> QED
      BY <3>1, <3>2 DEF Length
  <2>2. PICK n \in Nat : n = Length(b)
    BY <2>1
  <2>3. SubSeq(b, 3, 2 + n) \in Seq(Byte) /\ SubSeq(b, 3 + n, Len(b)) \in Seq(Byte)
    <3>1. /\ 3 \in Nat \ {0} /\ 2 + n \in Nat /\ 3 <= 2 + n + 1 /\ 2 + n <= Len(b)
          /\ 3 + n \in Nat \ {0} /\ 3 + n <= Len(b) + 1 /\ Len(b) <= Len(b)
      BY <1>1, <1>2, <2>2 DEF Complete
    <3> QED
      BY <1>1, <3>1, Piece
  <2>4. flush(b) = [done |-> TRUE, message |-> SubSeq(b, 3, 2 + n),
                    keep |-> SubSeq(b, 3 + n, Len(b))]
    BY <1>2, <2>2 DEF flush, FirstMessage
  <2> QED
    BY <2>3, <2>4
<1>3. CASE ~(~(Len(b) >= 2 /\ Length(b) > MaxMessageSize) /\ Complete(b))
  <2>1. flush(b) = NoMessage(b) \/ flush(b) = NoMessage(<<>>)
    BY <1>3 DEF flush
  <2>2. PICK x \in Seq(Byte) : flush(b) = [done |-> FALSE, keep |-> x]
    BY <1>1, <2>1 DEF NoMessage
  <2>3. flush(b).done = FALSE /\ flush(b).keep = x
    BY <2>2
  <2> QED
    BY <2>3
<1> QED
  BY <1>2, <1>3

\* The part of the vehicle's message that has gone, and what of it the buffer
\* has to keep: nothing of a message that is complete.
Got     == SubSeq(Framed(whole.payload), 1, Len(Framed(whole.payload)) - Len(air))
Partial == IF air = <<>> THEN <<>> ELSE Got

RxType ==
    /\ air \in Seq(Byte) /\ rxBuf \in Seq(Byte)
    /\ flushing \in BOOLEAN /\ inSync \in BOOLEAN
    /\ whole \in [payload : Payload, begins : BOOLEAN]
    /\ sent \in Seq(Seq(Byte)) /\ observed \in Seq(Seq(Byte))
    /\ inbox \in Seq(Seq(Byte)) /\ Len(inbox) <= InboxCap
    /\ Len(rxBuf) < 2 + MaxMessageSize + (IF flushing THEN Block ELSE 0)

\* The frame on the air is what has gone and what is to come.
AirInv == /\ Len(air) <= Len(Framed(whole.payload))
          /\ Framed(whole.payload) = Got \o air
          /\ whole.begins <=> Got = <<>>

\* While both ends agree, the buffer is the beginning of that frame and all
\* that was sent was observed, but for a message that the loop has just to take.
Taken   == observed = sent /\ rxBuf = Partial
Pending == /\ flushing /\ Partial = <<>>
           /\ \E m \in Payload : sent = Append(observed, m) /\ rxBuf = Framed(m)

RxInv == RxType /\ AirInv /\ (inSync => Taken \/ Pending)

LEMMA RxInit == Init => RxInv
<1> SUFFICES ASSUME Init
             PROVE  RxInv
  OBVIOUS
<1>1. <<>> \in Seq(Byte) /\ <<>> \in Seq(Seq(Byte)) /\ Len(<<>>) = 0
  OBVIOUS
<1>2. /\ air = <<>> /\ rxBuf = <<>> /\ inbox = <<>> /\ sent = <<>> /\ observed = <<>>
      /\ whole = [payload |-> <<>>, begins |-> FALSE]
      /\ flushing = FALSE /\ inSync = TRUE
  BY DEF Init
<1>3. RxType
  <2>1. whole \in [payload : Payload, begins : BOOLEAN]
    BY <1>2, BytesAreNumbers
  <2>2. Len(inbox) <= InboxCap
    BY <1>1, <1>2, BytesAreNumbers
  <2>3. Len(rxBuf) < 2 + MaxMessageSize + (IF flushing THEN Block ELSE 0)
    BY <1>1, <1>2, BytesAreNumbers
  <2> QED
    BY <1>1, <1>2, <2>1, <2>2, <2>3 DEF RxType
<1>4. AirInv
  <2>a. PICK m \in Payload : m = <<>>
    BY BytesAreNumbers
  <2>b. Framed(m) \in Seq(Byte) /\ Len(Framed(m)) = Len(m) + 2
    BY FrameIsBytes
  <2>1. PICK f \in Seq(Byte) : f = Framed(<<>>)
    BY <2>a, <2>b
  <2>2. Len(f) = 2
    BY <1>1, <2>a, <2>b, <2>1
  <2>3. SubSeq(f, 1, 2) = f /\ f \o <<>> = f /\ f # <<>>
    <3>1. SubSeq(f, 1, 2) = f
      BY <2>2
    <3>2. f # <<>>
      BY <2>2
    <3> QED
      BY <3>1, <3>2, NothingConcatenated
  <2>4. Got = f
    BY <1>1, <1>2, <2>1, <2>2, <2>3 DEF Got
  <2> QED
    BY <1>1, <1>2, <2>1, <2>2, <2>3, <2>4 DEF AirInv
<1> QED
  BY <1>2, <1>3, <1>4 DEF RxInv, Taken, Partial

\* A chunk that goes moves from what is to come to what has gone.
LEMMA ChunkMoves ==
    ASSUME RxInv, NEW n \in 1 .. Block, ChunkGoes(n)
    PROVE  /\ Before(n) \in Seq(Byte) /\ Len(Before(n)) = n
           /\ air # <<>> /\ air' \in Seq(Byte) /\ (n = Len(air) <=> air' = <<>>)
           /\ Got \in Seq(Byte) /\ Got' = Got \o Before(n)
           /\ whole' \in [payload : Payload, begins : BOOLEAN]
           /\ whole'.payload = whole.payload
           /\ AirInv'
<1>1. air \in Seq(Byte) /\ n \in 0 .. Len(air) /\ Len(air) \in Nat /\ air # <<>>
  <2>1. air \in Seq(Byte) /\ n \in Nat /\ n >= 1
    BY BytesAreNumbers DEF RxInv, RxType
  <2>2. n <= Len(air)
    BY DEF ChunkGoes
  <2>3. Len(air) \in Nat /\ (air = <<>> => Len(air) = 0)
    BY <2>1
  <2> QED
    BY <2>1, <2>2, <2>3
<1>2. PICK p \in Seq(Byte), rest \in Seq(Byte) :
        /\ p = Before(n) /\ rest = After(n)
        /\ Len(p) = n /\ Len(rest) = Len(air) - n /\ p \o rest = air
  <2>1. /\ SubSeq(air, 1, n) \in Seq(Byte) /\ Len(SubSeq(air, 1, n)) = n
        /\ SubSeq(air, n + 1, Len(air)) \in Seq(Byte)
        /\ Len(SubSeq(air, n + 1, Len(air))) = Len(air) - n
        /\ SubSeq(air, 1, n) \o SubSeq(air, n + 1, Len(air)) = air
    BY <1>1, Cut
  <2> QED
    BY <2>1, Zenon DEF Before, After
<1>3. air' = rest /\ whole' = [whole EXCEPT !.begins = FALSE]
  BY <1>2 DEF ChunkGoes
<1>4. PICK pay \in Payload : pay = whole.payload /\ whole'.payload = pay
  BY <1>3 DEF RxInv, RxType
<1>5. whole' \in [payload : Payload, begins : BOOLEAN] /\ whole'.begins = FALSE
  BY <1>3 DEF RxInv, RxType
<1>6. PICK f \in Seq(Byte) : f = Framed(pay)
  BY FrameIsBytes
<1>7. /\ Framed(whole.payload) = f /\ Framed(whole.payload)' = f
      /\ Len(f) \in Nat /\ Len(air) <= Len(f)
  BY <1>4, <1>6 DEF RxInv, AirInv, Framed
<1>8. PICK g \in Seq(Byte) : g = Got /\ Len(g) = Len(f) - Len(air) /\ f = g \o air
  <2>1. Len(f) - Len(air) \in 0 .. Len(f)
    BY <1>1, <1>7
  <2> QED
    BY <1>7, <2>1, Cut DEF Got, RxInv, AirInv
<1>9. f = (g \o p) \o rest /\ g \o p \in Seq(Byte) /\ Len(g \o p) = Len(f) - Len(rest)
  <2>1. g \o p \in Seq(Byte) /\ Len(g \o p) = Len(g) + Len(p)
    BY Concatenated
  <2>2. (g \o p) \o rest = f
    <3>1. (g \o p) \o rest = g \o (p \o rest)
      BY Grouped
    <3> QED
      BY <1>2, <1>8, <3>1
  <2>3. Len(g) + Len(p) = Len(f) - Len(rest)
    BY <1>1, <1>2, <1>7, <1>8
  <2> QED
    BY <2>1, <2>2, <2>3
<1>10. Got' = g \o p
  <2>1. Got' = SubSeq(f, 1, Len(f) - Len(rest))
    BY <1>3, <1>7 DEF Got
  <2>2. SubSeq((g \o p) \o rest, 1, Len(g \o p)) = g \o p
    BY <1>9, FrontOf
  <2> QED
    BY <1>9, <2>1, <2>2
<1>11. g \o p # <<>>
  BY <1>1, <1>2, <1>7, <1>8, <1>9
<1>12. AirInv'
  <2>1. Len(air') <= Len(f)
    BY <1>1, <1>2, <1>3, <1>7
  <2> QED
    BY <1>3, <1>5, <1>7, <1>9, <1>10, <1>11, <2>1 DEF AirInv
<1>13. n = Len(air) <=> rest = <<>>
  BY <1>1, <1>2
<1> QED
  BY <1>1, <1>2, <1>3, <1>4, <1>5, <1>8, <1>10, <1>12, <1>13

LEMMA ArrivesKept ==
    ASSUME RxInv, NEW n \in 1 .. Block, NEW late \in BOOLEAN, Arrives(n, late)
    PROVE  RxInv'
<1> DEFINE p == Before(n)
           agreed == late /\ whole.begins
           ended == IF n = Len(air) THEN <<whole.payload>> ELSE <<>>
<1>1. /\ ~flushing /\ flushing' = TRUE /\ ChunkGoes(n) /\ inbox' = inbox
      /\ rxBuf' = (IF late THEN <<>> ELSE rxBuf) \o p
      /\ observed' = IF agreed THEN <<>> ELSE observed
      /\ sent' = (IF agreed THEN <<>> ELSE sent) \o ended
      /\ inSync' = (agreed \/ (inSync /\ ~(late /\ ~whole.begins)))
  BY DEF Arrives, rx
<1>2. /\ p \in Seq(Byte) /\ Len(p) = n /\ air # <<>>
      /\ air' \in Seq(Byte) /\ (n = Len(air) <=> air' = <<>>)
      /\ Got \in Seq(Byte) /\ Got' = Got \o p
      /\ whole' \in [payload : Payload, begins : BOOLEAN]
      /\ whole'.payload = whole.payload /\ AirInv'
  BY <1>1, ChunkMoves
<1>3. whole.payload \in Payload /\ whole.payload \in Seq(Byte)
  BY DEF RxInv, RxType, Payload
<1>4. RxType'
  <2>1. PICK kept \in Seq(Byte) : /\ kept = IF late THEN <<>> ELSE rxBuf
                                  /\ Len(kept) < 2 + MaxMessageSize /\ Len(kept) \in Nat
    <3>1. rxBuf \in Seq(Byte) /\ Len(rxBuf) < 2 + MaxMessageSize
      BY <1>1, BytesAreNumbers DEF RxInv, RxType
    <3>2. <<>> \in Seq(Byte) /\ Len(<<>>) < 2 + MaxMessageSize
      BY BytesAreNumbers
    <3>3. ASSUME NEW s \in Seq(Byte)
          PROVE  Len(s) \in Nat
      OBVIOUS
    <3>4. CASE late
      BY <3>2, <3>3, <3>4
    <3>5. CASE ~late
      BY <3>1, <3>3, <3>5
    <3> QED
      BY <3>4, <3>5
  <2>2. rxBuf' \in Seq(Byte) /\ Len(rxBuf') = Len(kept) + n
    <3>1. kept \o p \in Seq(Byte) /\ Len(kept \o p) = Len(kept) + Len(p)
      <4> p \in Seq(Byte)
        BY <1>2
      <4> QED
        BY Concatenated
    <3> QED
      BY <1>1, <1>2, <2>1, <3>1
  <2>3. Len(rxBuf') < 2 + MaxMessageSize + (IF flushing' THEN Block ELSE 0)
    <3>1. n \in Nat /\ n <= Block
      BY BytesAreNumbers
    <3> QED
      BY <1>1, <2>1, <2>2, <3>1, BytesAreNumbers
  <2>4. inbox' \in Seq(Seq(Byte)) /\ Len(inbox') <= InboxCap
    BY <1>1 DEF RxInv, RxType
  <2>5. ended \in Seq(Seq(Byte)) /\ <<>> \in Seq(Seq(Byte))
    BY <1>3
  <2>6. observed' \in Seq(Seq(Byte))
    BY <1>1, <2>5 DEF RxInv, RxType
  <2>7. sent' \in Seq(Seq(Byte))
    <3>1. (IF agreed THEN <<>> ELSE sent) \in Seq(Seq(Byte))
      BY <2>5 DEF RxInv, RxType
    <3> HIDE DEF ended, agreed
    <3> QED
      BY <1>1, <2>5, <3>1, Concatenated
  <2>8. flushing' \in BOOLEAN /\ inSync' \in BOOLEAN
    <3>1. whole.begins \in BOOLEAN /\ inSync \in BOOLEAN
      BY DEF RxInv, RxType
    <3> QED
      BY <1>1, <3>1
  <2> QED
    BY <1>2, <2>2, <2>3, <2>4, <2>6, <2>7, <2>8 DEF RxType
<1>5. ASSUME inSync'
      PROVE  rxBuf' = Got' /\ sent' = observed' \o ended
  <2>1. CASE agreed
    <3>1. Got = <<>>
      BY <2>1 DEF RxInv, AirInv
    <3> QED
      BY <1>1, <1>2, <2>1, <3>1
  <2>2. CASE ~agreed
    <3>1. inSync /\ ~late
      BY <1>1, <1>5, <2>2
    <3>2. observed = sent /\ rxBuf = Partial
      BY <1>1, <3>1 DEF RxInv, Taken, Pending
    <3>3. rxBuf = Got
      BY <1>2, <3>2 DEF Partial
    <3> HIDE DEF ended
    <3> QED
      BY <1>1, <1>2, <2>2, <3>1, <3>2, <3>3
  <2> QED
    BY <2>1, <2>2
<1>6. observed' \in Seq(Seq(Byte))
  BY <1>4 DEF RxType
<1>7. ASSUME inSync', air' = <<>>
      PROVE  Pending'
  <2>1. sent' = Append(observed', whole.payload)
    <3>1. ended = <<whole.payload>>
      BY <1>2, <1>7
    <3> QED
      BY <1>3, <1>5, <1>6, <1>7, <3>1, Appended
  <2>2. rxBuf' = Framed(whole.payload)
    <3>1. Framed(whole.payload)' = Got' \o <<>>
      BY <1>2, <1>7 DEF AirInv
    <3>2. Got' \in Seq(Byte)
      BY <1>4, <1>5, <1>7 DEF RxType
    <3>3. Framed(whole.payload)' = Framed(whole.payload)
      BY <1>2 DEF Framed
    <3> QED
      BY <1>5, <1>7, <3>1, <3>2, <3>3, NothingConcatenated
  <2>3. Partial' = <<>>
    BY <1>7 DEF Partial
  <2>4. PICK m \in Payload : m = whole.payload
    BY <1>3
  <2>5. sent' = Append(observed', m) /\ rxBuf' = Framed(m)
    BY <2>1, <2>2, <2>4
  <2> QED
    BY <1>1, <2>3, <2>5 DEF Pending, Framed
<1>8. ASSUME inSync', air' # <<>>
      PROVE  Taken'
  <2>1. ended = <<>>
    BY <1>2, <1>8
  <2>2. sent' = observed'
    BY <1>5, <1>6, <1>8, <2>1, NothingConcatenated
  <2> QED
    BY <1>5, <1>8, <2>2 DEF Taken, Partial
<1> QED
  BY <1>2, <1>4, <1>7, <1>8 DEF RxInv

LEMMA FlushesKept ==
    ASSUME RxInv, Flushes
    PROVE  RxInv'
<1> DEFINE f == flush(rxBuf)
<1>1. /\ flushing /\ rxBuf' = f.keep /\ flushing' = f.done
      /\ IF f.done
         THEN observed' = Append(observed, f.message) /\ inbox' = queued(inbox, f.message)
         ELSE observed' = observed /\ inbox' = inbox
      /\ air' = air /\ whole' = whole /\ sent' = sent /\ inSync' = inSync
  BY DEF Flushes
<1>2. /\ air \in Seq(Byte) /\ rxBuf \in Seq(Byte) /\ inSync \in BOOLEAN
      /\ whole \in [payload : Payload, begins : BOOLEAN]
      /\ sent \in Seq(Seq(Byte)) /\ observed \in Seq(Seq(Byte))
      /\ inbox \in Seq(Seq(Byte)) /\ Len(inbox) <= InboxCap
      /\ Len(rxBuf) < 2 + MaxMessageSize + (IF flushing THEN Block ELSE 0)
  BY DEF RxInv, RxType
<1>3. /\ f.done \in BOOLEAN /\ f.keep \in Seq(Byte)
      /\ f.done => f.message \in Seq(Byte)
  BY <1>2, FlushType
<1>4. /\ f.done => Len(f.keep) < Len(rxBuf)
      /\ ~f.done => Len(f.keep) < 2 + MaxMessageSize
  <2>1. rxBuf \in Seq(Nat)
    BY <1>2, BytesAreNumbers
  <2> QED
    BY <2>1, FlushMakesProgress
<1>5. Got' = Got /\ Partial' = Partial /\ AirInv'
  BY <1>1 DEF Got, Partial, AirInv, Framed, RxInv
<1>6. inSync => \/ /\ f = NoMessage(rxBuf) /\ observed = sent /\ rxBuf = Partial
                \/ /\ Partial = <<>>
                   /\ \E m \in Payload :
                        /\ sent = Append(observed, m)
                        /\ f = [done |-> TRUE, message |-> m, keep |-> <<>>]
  <2> SUFFICES ASSUME inSync
               PROVE  \/ /\ f = NoMessage(rxBuf) /\ observed = sent /\ rxBuf = Partial
                      \/ /\ Partial = <<>>
                         /\ \E m \in Payload :
                              /\ sent = Append(observed, m)
                              /\ f = [done |-> TRUE, message |-> m, keep |-> <<>>]
    OBVIOUS
  <2>1. CASE Taken
    <3>1. CASE air = <<>>
      <4>1. rxBuf = <<>>
        BY <2>1, <3>1 DEF Taken, Partial
      <4>2. flush(<<>>) = NoMessage(<<>>)
        BY DEF flush, Complete
      <4> QED
        BY <2>1, <4>1, <4>2 DEF Taken
    <3>2. CASE air # <<>>
      <4>1. PICK m \in Payload : m = whole.payload
        BY <1>2
      <4>2. m \in Seq(Nat) /\ Len(m) <= MaxMessageSize
        BY BytesAreNumbers DEF Payload
      <4>3. PICK k \in 0 .. Len(m) + 1 : k = Len(Framed(m)) - Len(air)
        <5>1. Len(Framed(m)) = Len(m) + 2 /\ Len(m) \in Nat
          BY FrameIsBytes
        <5>2. Len(air) \in Nat /\ Len(air) >= 1 /\ Len(air) <= Len(Framed(m))
          BY <1>2, <3>2, <4>1 DEF RxInv, AirInv
        <5> QED
          BY <5>1, <5>2
      <4>4. rxBuf = SubSeq(Framed(m), 1, k)
        BY <2>1, <3>2, <4>1, <4>3 DEF Taken, Partial, Got
      <4>5. flush(SubSeq(Framed(m), 1, k)) = NoMessage(SubSeq(Framed(m), 1, k))
        BY <4>2, FlushUndoesFraming
      <4> QED
        BY <2>1, <4>4, <4>5 DEF Taken
    <3> QED
      BY <3>1, <3>2
  <2>2. CASE Pending
    <3>1. PICK m \in Payload : sent = Append(observed, m) /\ rxBuf = Framed(m)
      BY <2>2 DEF Pending
    <3>2. m \in Seq(Nat) /\ Len(m) <= MaxMessageSize
      BY BytesAreNumbers DEF Payload
    <3>3. flush(Framed(m) \o <<>>) = [done |-> TRUE, message |-> m, keep |-> <<>>]
      <4> <<>> \in Seq(Nat)
        OBVIOUS
      <4> QED
        BY <3>2, FlushUndoesFraming
    <3>4. Framed(m) \o <<>> = Framed(m)
      BY FrameIsBytes, NothingConcatenated
    <3> QED
      BY <2>2, <3>1, <3>3, <3>4 DEF Pending
  <2> QED
    BY <2>1, <2>2 DEF RxInv
<1> HIDE DEF f
<1>7. RxType'
  <2>1. Len(rxBuf') < 2 + MaxMessageSize + (IF flushing' THEN Block ELSE 0)
    <3>1. Len(rxBuf) \in Nat /\ Len(f.keep) \in Nat
      BY <1>2, <1>3
    <3>2. Len(rxBuf) < 2 + MaxMessageSize + Block
      BY <1>1, <1>2
    <3>3. CASE f.done
      <4>1. Len(rxBuf') < 2 + MaxMessageSize + Block
        BY <1>1, <1>4, <3>1, <3>2, <3>3, BytesAreNumbers
      <4> QED
        BY <1>1, <3>3, <4>1
    <3>4. CASE ~f.done
      <4>1. Len(rxBuf') < 2 + MaxMessageSize + 0
        BY <1>1, <1>4, <3>1, <3>4, BytesAreNumbers
      <4> QED
        BY <1>1, <3>4, <4>1
    <3> QED
      BY <3>3, <3>4
  <2>2. /\ observed' \in Seq(Seq(Byte)) /\ inbox' \in Seq(Seq(Byte))
        /\ Len(inbox') <= InboxCap
    <3>1. CASE f.done
      <4>1. Append(observed, f.message) \in Seq(Seq(Byte))
        BY <1>2, <1>3, <3>1, Appended
      <4>2. /\ Append(inbox, f.message) \in Seq(Seq(Byte))
            /\ Len(Append(inbox, f.message)) = Len(inbox) + 1 /\ Len(inbox) \in Nat
        BY <1>2, <1>3, <3>1, Appended
      <4>3. inbox' = IF Len(inbox) < InboxCap THEN Append(inbox, f.message) ELSE inbox
        BY <1>1, <3>1 DEF queued
      <4>4. inbox' \in Seq(Seq(Byte)) /\ Len(inbox') <= InboxCap
        BY <1>2, <4>2, <4>3, BytesAreNumbers
      <4> QED
        BY <1>1, <3>1, <4>1, <4>4
    <3>2. CASE ~f.done
      BY <1>1, <1>2, <3>2
    <3> QED
      BY <3>1, <3>2
  <2> QED
    BY <1>1, <1>2, <1>3, <2>1, <2>2 DEF RxType
<1>8. ASSUME inSync'
      PROVE  Taken'
  <2>1. CASE f = NoMessage(rxBuf) /\ observed = sent /\ rxBuf = Partial
    <3>1. f.done = FALSE /\ f.keep = rxBuf
      BY <2>1 DEF NoMessage
    <3> QED
      BY <1>1, <1>5, <2>1, <3>1 DEF Taken
  <2>2. CASE /\ Partial = <<>>
             /\ \E m \in Payload :
                  /\ sent = Append(observed, m)
                  /\ f = [done |-> TRUE, message |-> m, keep |-> <<>>]
    <3>1. PICK m \in Payload : /\ sent = Append(observed, m)
                               /\ f = [done |-> TRUE, message |-> m, keep |-> <<>>]
      BY <2>2
    <3>2. f.done = TRUE /\ f.keep = <<>> /\ f.message = m
      BY <3>1
    <3> QED
      BY <1>1, <1>5, <2>2, <3>1, <3>2 DEF Taken
  <2> QED
    BY <1>1, <1>6, <1>8, <2>1, <2>2
<1> QED
  BY <1>5, <1>7, <1>8 DEF RxInv

LEMMA VehicleSendsKept ==
    ASSUME RxInv, VehicleSends
    PROVE  RxInv'
<1>1. PICK m \in Messages : air' = Framed(m) /\ whole' = [payload |-> m, begins |-> TRUE]
  BY DEF VehicleSends
<1>2. air = <<>> /\ UNCHANGED <<rxBuf, inbox, flushing, sent, observed, inSync>>
  BY DEF VehicleSends
<1>3. m \in Payload
  BY Sizes DEF Sizes, Payload, Byte
<1>4. PICK f \in Seq(Byte) : f = Framed(m)
  BY <1>3, FrameIsBytes
<1>5. whole' \in [payload : Payload, begins : BOOLEAN] /\ whole'.begins = TRUE
  BY <1>1, <1>3
<1>6. Framed(whole.payload)' = f
  BY <1>1, <1>4 DEF Framed
<1>7. Got' = <<>>
  <2>1. Got' = SubSeq(f, 1, Len(f) - Len(f))
    BY <1>1, <1>4, <1>6 DEF Got
  <2>2. Len(f) - Len(f) = 0 /\ SubSeq(f, 1, 0) = <<>>
    OBVIOUS
  <2> QED
    BY <2>1, <2>2
<1>8. AirInv'
  <2>1. Len(air') <= Len(f) /\ f = <<>> \o air'
    BY <1>1, <1>4, NothingConcatenated
  <2> QED
    BY <1>5, <1>6, <1>7, <2>1 DEF AirInv
<1>9. RxType'
  BY <1>1, <1>2, <1>4, <1>5 DEF RxInv, RxType
<1>10. Partial = <<>> /\ Partial' = <<>>
  BY <1>2, <1>7 DEF Partial
<1>11. inSync' => Taken' \/ Pending'
  BY <1>2, <1>10 DEF RxInv, Taken, Pending, Framed
<1> QED
  BY <1>8, <1>9, <1>11 DEF RxInv

LEMMA RxKept ==
    ASSUME RxInv, [Next]_vars
    PROVE  RxInv'
<1>1. CASE UNCHANGED inbound
  <2>1. Got' = Got /\ Partial' = Partial
    BY <1>1 DEF inbound, Got, Partial, Framed
  <2>2. RxType' /\ AirInv'
    BY <1>1, <2>1 DEF inbound, RxInv, RxType, AirInv, Framed
  <2>3. inSync' => Taken' \/ Pending'
    BY <1>1, <2>1 DEF inbound, RxInv, Taken, Pending, Framed
  <2> QED
    BY <2>2, <2>3 DEF RxInv
<1>2. ASSUME Receive
      PROVE  RxInv'
  <2>1. /\ inbox # <<>> /\ inbox' = Tail(inbox)
        /\ UNCHANGED <<air, whole, rxBuf, flushing, sent, observed, inSync>>
    BY <1>2 DEF Receive
  <2>2. Got' = Got /\ Partial' = Partial
    BY <2>1 DEF Got, Partial, Framed
  <2>3. inbox' \in Seq(Seq(Byte)) /\ Len(inbox') <= InboxCap
    <3>1. ASSUME NEW S, NEW s \in Seq(S), s # <<>>
          PROVE  Tail(s) \in Seq(S) /\ Len(Tail(s)) = Len(s) - 1 /\ Len(s) \in Nat
      BY <3>1
    <3>2. Tail(inbox) \in Seq(Seq(Byte)) /\ Len(Tail(inbox)) = Len(inbox) - 1 /\ Len(inbox) \in Nat
      BY <2>1, <3>1 DEF RxInv, RxType
    <3>3. Len(inbox) <= InboxCap
      BY DEF RxInv, RxType
    <3> QED
      BY <2>1, <3>2, <3>3, BytesAreNumbers
  <2>4. RxType' /\ AirInv'
    BY <2>1, <2>2, <2>3 DEF RxInv, RxType, AirInv, Framed
  <2>5. inSync' => Taken' \/ Pending'
    BY <2>1, <2>2 DEF RxInv, Taken, Pending, Framed
  <2> QED
    BY <2>4, <2>5 DEF RxInv
<1>3. ASSUME NEW n \in 1 .. Block, Lost(n)
      PROVE  RxInv'
  <2>1. /\ ChunkGoes(n) /\ inSync' = FALSE
        /\ UNCHANGED <<rxBuf, inbox, flushing, sent, observed>>
    BY <1>3 DEF Lost
  <2>2. /\ air' \in Seq(Byte) /\ whole' \in [payload : Payload, begins : BOOLEAN]
        /\ AirInv'
    BY <2>1, ChunkMoves
  <2>3. RxType'
    BY <2>1, <2>2 DEF RxInv, RxType
  <2> QED
    BY <2>1, <2>2, <2>3 DEF RxInv
<1>4. ASSUME NEW s \in Senders, Lock(s) \/ ChunkWritten(s) \/ ChunkFails(s) \/ Expires(s)
      PROVE  UNCHANGED inbound
  BY <1>4 DEF Lock, ChunkWritten, ChunkFails, Expires
<1> QED
  BY <1>1, <1>2, <1>3, <1>4, ArrivesKept, FlushesKept, VehicleSendsKept DEF Next, vars

\* Whatever the bytes of a message are and whatever is lost, the buffer never
\* grows past a message and a chunk, nor the inbox past its capacity; and the
\* lock and the chunk size of Send stay what they may be.
THEOREM TypeCorrect == Spec => []TypeOK
<1> DEFINE MuType == mu \in Senders \cup {Nobody}
<1>1. Init => RxInv /\ SendType /\ MuType
  BY RxInit, Sizes DEF Init, SendType, Sizes
<1>2. RxInv /\ SendType /\ MuType /\ [Next]_vars => RxInv' /\ SendType' /\ MuType'
  <2> SUFFICES ASSUME RxInv, SendType, MuType, [Next]_vars
               PROVE  RxInv' /\ SendType' /\ MuType'
    OBVIOUS
  <2>1. ASSUME UNCHANGED outbound
        PROVE  MuType'
    BY <2>1 DEF outbound
  <2>2. ASSUME NEW s \in Senders, Lock(s) \/ ChunkWritten(s) \/ ChunkFails(s) \/ Expires(s)
        PROVE  MuType'
    BY <2>2 DEF Lock, ChunkWritten, ChunkFails, Expires, Returns
  <2>3. MuType'
    BY <2>1, <2>2, InboundSteps DEF Next, InboundStep, vars
  <2> QED
    BY <2>3, RxKept, SendTypeKept
<1>3. RxInv /\ SendType /\ MuType => TypeOK
  BY DEF RxInv, RxType, SendType, TypeOK
<1> QED
  BY <1>1, <1>2, <1>3, PTL DEF Spec

\* From the first chunk of a message that comes after a gap, the observer has
\* got each message that the vehicle sent, unchanged and once, whenever rx has
\* returned, until another chunk is lost or late: for any messages, any bytes
\* in them and any way of cutting them into chunks.
THEOREM DeliveredAsSent == Spec => []DeliveredIsSent
<1>1. RxInv => DeliveredIsSent
  BY DEF RxInv, DeliveredIsSent, Taken, Pending
<1> QED
  BY <1>1, RxInit, RxKept, PTL DEF Spec
=============================================================================
