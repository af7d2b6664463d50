---------------------------- MODULE PresenceProofs ----------------------------
(***************************************************************************)
(* Proofs about Presence, for every configuration and records of any       *)
(* length: MaxTicks is only a guard.                                       *)
(***************************************************************************)
EXTENDS Presence, TLAPS

Tick == [saw : {"weak", "strong", "failed", "gatt"}, at : Nat, until : Nat]

TypeInv ==
    /\ clock \in Nat /\ lastSeen \in Nat /\ consecNear \in Nat
    /\ gattUp \in BOOLEAN /\ near \in BOOLEAN
    /\ ticks \in Seq(Tick)

\* lastSeen bounds the times the vehicle was seen at, and no tick that saw it
\* outlasted the scan interval.
SeenInv ==
    /\ lastSeen <= clock
    /\ \A k \in DOMAIN ticks :
         Saw(k, {"strong", "gatt"}) => /\ ticks[k].at <= lastSeen
                                       /\ ticks[k].until <= ticks[k].at + ScanInterval

\* A tick is added to the record, and the rest of it stays.
LEMMA Recorded ==
    ASSUME NEW s \in {"weak", "strong", "failed", "gatt"}, NEW d \in Nat,
           TypeInv, Records(s, d)
    PROVE  /\ ticks' \in Seq(Tick)
           /\ Len(ticks') = Len(ticks) + 1
           /\ DOMAIN ticks = 1 .. Len(ticks)
           /\ DOMAIN ticks' = 1 .. Len(ticks) + 1
           /\ \A k \in 1 .. Len(ticks) : ticks'[k] = ticks[k]
           /\ ticks'[Len(ticks) + 1] = [saw |-> s, at |-> clock, until |-> clock + d]
<1> DEFINE t == [saw |-> s, at |-> clock, until |-> clock + d]
<1>1. t \in Tick  BY DEF Tick, TypeInv
<1>2. ticks \in Seq(Tick) /\ ticks' = Append(ticks, t)  BY DEF TypeInv, Records
<1> QED  BY <1>1, <1>2

\* What a tick without a link does, in terms of what it saw.
LEMMA LookSteps ==
    ASSUME TypeInv, NEW d \in Durations, NEW strong \in BOOLEAN, NEW outcome \in Outcome,
           Look(strong, outcome, d)
    PROVE  /\ clock' \in Nat /\ clock' >= clock + d
           /\ gattUp' \in BOOLEAN /\ near' \in BOOLEAN
           /\ consecNear' \in Nat /\ lastSeen' \in Nat
           /\ \/ /\ Records("weak", d)
                 /\ lastSeen' = lastSeen /\ consecNear' = 0
                 /\ near' <=> near /\ ~(clock - lastSeen > FarTimeout)
              \/ /\ Records("failed", d)
                 /\ lastSeen' = clock /\ consecNear' = 0 /\ ~near'
              \/ /\ Records("strong", d)
                 /\ lastSeen' = clock
                 /\ near' <=> near \/ consecNear + 1 >= NearConfirm
                 /\ ~near' => consecNear' = consecNear + 1
<1> USE Config
<1> DEFINE step == presenceStep(strong)
<1>1. d \in Nat /\ ScanInterval \in Nat /\ clock \in Nat  BY DEF Durations, TypeInv
<1>2. clock' \in Nat /\ clock' >= clock + d  BY <1>1 DEF Look, Took
<1>3. gattUp' \in BOOLEAN  BY DEF Look
<1>4. near \in BOOLEAN /\ consecNear \in Nat /\ lastSeen \in Nat  BY DEF TypeInv
<1>5. CASE ~strong
  <2>1. step = [near  |-> (~near /\ 0 >= NearConfirm) \/ (near /\ ~(near /\ clock - lastSeen > FarTimeout)),
                count |-> 0, seen |-> lastSeen]
        BY <1>5 DEF presenceStep
  <2>2. step.near \in BOOLEAN /\ step.count = 0 /\ step.seen = lastSeen
        BY <2>1
  <2>a. ~(0 >= NearConfirm)  OBVIOUS
  <2>3. step.near <=> near /\ ~(clock - lastSeen > FarTimeout)
    <3>1. step.near = ((~near /\ 0 >= NearConfirm) \/ (near /\ ~(near /\ clock - lastSeen > FarTimeout)))
          BY <2>1
    <3> QED  BY <2>a, <3>1, Zenon
  <2>4. outcome = "strong"  BY <1>5 DEF Look, Outcome
  <2>5. Records("weak", d)  BY <1>5 DEF Look
  <2> HIDE DEF step
  <2>6. lastSeen' = step.seen /\ consecNear' = step.count /\ near' = step.near
        BY <2>2, <2>4 DEF Look, step
  <2> QED  BY <2>2, <2>3, <2>5, <2>6, <1>2, <1>3, <1>4
<1>6. CASE strong
  <2> DEFINE far == near /\ clock - clock > FarTimeout
             arr == ~near /\ consecNear + 1 >= NearConfirm
  <2>1. step = [near  |-> arr \/ (near /\ ~far),
                count |-> IF arr \/ far THEN 0 ELSE consecNear + 1, seen |-> clock]
        BY <1>6 DEF presenceStep
  <2>2. ~far  BY <1>1
  <2>3. step.near \in BOOLEAN /\ step.seen = clock  BY <2>1
  <2>4. step.near <=> near \/ consecNear + 1 >= NearConfirm
    <3>1. step.near = (arr \/ (near /\ ~far))  BY <2>1
    <3> QED  BY <2>2, <3>1, Zenon
  <2>5. /\ ~step.near => step.count = consecNear + 1
        /\ step.count \in Nat
    <3>1. step.count = IF arr \/ far THEN 0 ELSE consecNear + 1  BY <2>1
    <3>2. ~step.near => ~arr  BY <2>4, Zenon
    <3>3. consecNear + 1 \in Nat  BY <1>4
    <3> HIDE DEF step, arr, far
    <3> QED  BY <2>2, <3>1, <3>2, <3>3
  <2> HIDE DEF step
  <2>6. lastSeen' = clock  BY <2>3 DEF Look, step
  <2>7. CASE outcome = "failed"
    <3>1. Records("failed", d) /\ near' = FALSE /\ consecNear' = 0
          BY <1>6, <2>7 DEF Look
    <3> QED  BY <3>1, <2>6, <1>1, <1>2, <1>3
  <2>8. CASE outcome # "failed"
    <3>1. Records("strong", d) /\ near' = step.near /\ consecNear' = step.count
          BY <1>6, <2>8, <2>3 DEF Look, step
    <3> QED  BY <3>1, <2>3, <2>4, <2>5, <2>6, <1>1, <1>2, <1>3
  <2> QED  BY <2>7, <2>8
<1> QED  BY <1>5, <1>6

LEMMA TypeStep == TypeInv /\ [Next]_vars => TypeInv'
<1> SUFFICES ASSUME TypeInv, [Next]_vars  PROVE TypeInv'  OBVIOUS
<1> USE Config
<1>1. ASSUME NEW d \in Durations, NEW strong \in BOOLEAN, NEW outcome \in Outcome,
             Look(strong, outcome, d)
      PROVE  TypeInv'
  <2>1. d \in Nat  BY DEF Durations
  <2>2. ticks' \in Seq(Tick)  BY <1>1, <2>1, LookSteps, Recorded
  <2> QED  BY <1>1, <2>2, LookSteps DEF TypeInv
<1>2. ASSUME NEW d \in Durations, GattTick(d)  PROVE TypeInv'
  <2>1. d \in Nat  BY DEF Durations
  <2>2. ticks' \in Seq(Tick)  BY <1>2, <2>1, Recorded DEF GattTick
  <2> QED  BY <1>2, <2>1, <2>2 DEF TypeInv, GattTick, Took
<1>3. ASSUME NEW d \in Durations, PeekFails(d)  PROVE TypeInv'
      BY <1>3 DEF TypeInv, PeekFails, Took, Durations
<1>4. CASE CommandMoves  BY <1>4 DEF TypeInv, CommandMoves
<1>5. CASE UNCHANGED vars  BY <1>5 DEF TypeInv, vars
<1> QED  BY <1>1, <1>2, <1>3, <1>4, <1>5 DEF Next

LEMMA SeenStep == TypeInv /\ SeenInv /\ [Next]_vars => SeenInv'
<1> SUFFICES ASSUME TypeInv, SeenInv, [Next]_vars  PROVE SeenInv'  OBVIOUS
<1> USE Config
<1>1. ASSUME NEW d \in Durations, NEW s \in {"weak", "strong", "failed", "gatt"},
             Records(s, d), clock' \in Nat, clock' >= clock,
             lastSeen' \in {lastSeen, clock},
             s \in {"strong", "gatt"} => lastSeen' = clock
      PROVE  SeenInv'
  <2>1. d \in Nat /\ d <= ScanInterval /\ clock \in Nat /\ lastSeen \in Nat
        BY DEF Durations, TypeInv
  <2>2. lastSeen <= lastSeen' /\ lastSeen' <= clock'  BY <1>1, <2>1 DEF SeenInv
  <2>3. ASSUME NEW k \in DOMAIN ticks', Saw(k, {"strong", "gatt"})'
        PROVE  ticks'[k].at <= lastSeen' /\ ticks'[k].until <= ticks'[k].at + ScanInterval
    <3>1. CASE k \in 1 .. Len(ticks)
      <4>1. ticks'[k] = ticks[k] /\ k \in DOMAIN ticks  BY <1>1, <2>1, <3>1, Recorded
      <4>2. ticks[k] \in Tick  BY <4>1 DEF TypeInv
      <4> QED  BY <2>1, <2>2, <2>3, <4>1, <4>2, <1>1 DEF SeenInv, Saw, Tick
    <3>2. CASE k = Len(ticks) + 1
      <4>1. ticks'[k] = [saw |-> s, at |-> clock, until |-> clock + d]
            BY <1>1, <2>1, <3>2, Recorded
      <4> QED  BY <1>1, <2>1, <2>3, <4>1 DEF Saw
    <3>3. k \in 1 .. Len(ticks) + 1  BY <1>1, <2>1, <2>3, Recorded
    <3>4. Len(ticks) \in Nat  BY DEF TypeInv
    <3> QED  BY <3>1, <3>2, <3>3, <3>4
  <2> QED  BY <2>2, <2>3 DEF SeenInv
<1>2. ASSUME NEW d \in Durations, NEW strong \in BOOLEAN, NEW outcome \in Outcome,
             Look(strong, outcome, d)
      PROVE  SeenInv'
  <2>1. clock' \in Nat /\ clock' >= clock
        BY <1>2, LookSteps DEF Durations, TypeInv
  <2>2. lastSeen \in Nat /\ clock \in Nat  BY DEF TypeInv
  <2> QED  BY <1>1, <1>2, <2>1, <2>2, LookSteps
<1>3. ASSUME NEW d \in Durations, GattTick(d)  PROVE SeenInv'
  <2>1. clock' \in Nat /\ clock' >= clock
        BY <1>3 DEF GattTick, Took, Durations, TypeInv
  <2> QED  BY <1>1, <1>3, <2>1 DEF GattTick
<1>4. ASSUME NEW d \in Durations, PeekFails(d)  PROVE SeenInv'
      BY <1>4 DEF SeenInv, Saw, TypeInv, PeekFails, Took, Durations
<1>5. CASE CommandMoves  BY <1>5 DEF SeenInv, Saw, CommandMoves
<1>6. CASE UNCHANGED vars  BY <1>6 DEF SeenInv, Saw, vars
<1> QED  BY <1>2, <1>3, <1>4, <1>5, <1>6 DEF Next

LEMMA Starts == Init => TypeInv /\ SeenInv
<1> SUFFICES ASSUME Init  PROVE TypeInv /\ SeenInv  OBVIOUS
<1>1. ticks \in Seq(Tick) /\ DOMAIN ticks = {}  BY DEF Init
<1>2. clock = 0 /\ lastSeen = 0 /\ consecNear = 0 /\ near \in BOOLEAN /\ gattUp \in BOOLEAN
      BY DEF Init
<1> QED  BY <1>1, <1>2 DEF TypeInv, SeenInv

\* A dropout that is shorter than the far timeout, measured between the moments
\* the vehicle was really seen, ends no visit (presenceStep, runPresenceWatcher).
THEOREM DropoutsAreBridged == Spec => DropoutIsBridged
<1> USE Config
<1>1. ASSUME TypeInv, SeenInv, [Next]_vars, near, ~near', ticks'[Len(ticks')].saw = "weak",
             NEW k \in DOMAIN ticks, Saw(k, {"strong", "gatt"})
      PROVE  clock' - ticks[k].until > FarTimeout - ScanInterval
  <2>1. PICK d \in Durations, strong \in BOOLEAN, outcome \in Outcome :
             Look(strong, outcome, d)
        BY <1>1 DEF Next, GattTick, PeekFails, CommandMoves, vars
  <2>2. d \in Nat /\ d >= 1 /\ clock \in Nat /\ lastSeen \in Nat
        BY <1>1 DEF Durations, TypeInv
  <2>3. ~Records("failed", d) /\ ~Records("strong", d)
    <3>1. ASSUME NEW s \in {"failed", "strong"}, Records(s, d)  PROVE FALSE
      <4>1. s \in {"weak", "strong", "failed", "gatt"} /\ d \in Nat  BY <2>2
      <4>2. ticks'[Len(ticks')] = [saw |-> s, at |-> clock, until |-> clock + d]
            BY <1>1, <3>1, <4>1, Recorded
      <4> QED  BY <1>1, <4>2
    <3> QED  BY <3>1
  <2>4. clock - lastSeen > FarTimeout /\ clock' \in Nat /\ clock' >= clock + d
        BY <1>1, <2>1, <2>3, LookSteps
  <2>5. ticks[k] \in Tick  BY <1>1 DEF TypeInv
  <2>6. ticks[k].until <= lastSeen + ScanInterval
        BY <1>1, <2>2, <2>5 DEF SeenInv, Tick
  <2> QED  BY <2>2, <2>4, <2>5, <2>6 DEF Tick
<1>2. TypeInv /\ SeenInv /\ [Next]_vars =>
        [near /\ ~near' /\ ticks'[Len(ticks')].saw = "weak" =>
           \A k \in DOMAIN ticks :
              Saw(k, {"strong", "gatt"}) => clock' - ticks[k].until > FarTimeout - ScanInterval
        ]_vars
      BY <1>1
<1> QED  BY Starts, TypeStep, SeenStep, <1>2, PTL DEF Spec, DropoutIsBridged

-----------------------------------------------------------------------------
(* The running counter and timestamp against the record of all ticks.      *)

\* While the vehicle is not near, consecNear is the number of strong
\* advertisements that end the record, and too few of them.
CountInv ==
    ~near => /\ consecNear < NearConfirm /\ consecNear <= Len(ticks)
             /\ \A k \in Len(ticks) - consecNear + 1 .. Len(ticks) : Saw(k, {"strong"})
             /\ consecNear = Len(ticks) \/ ~Saw(Len(ticks) - consecNear, {"strong"})

\* While it is near, lastSeen is the time of a tick that saw it.
ClockInv ==
    near => \E k \in DOMAIN ticks : Saw(k, {"strong", "gatt"}) /\ ticks[k].at = lastSeen

IInv == TypeInv /\ SeenInv /\ CountInv /\ ClockInv /\ NearIsAsDefined

\* A new tick changes no verdict about the earlier ones.
LEMMA Persists ==
    ASSUME NEW s \in {"weak", "strong", "failed", "gatt"}, NEW d \in Nat,
           TypeInv, Records(s, d), NEW i \in 1 .. Len(ticks)
    PROVE  /\ \A kinds : Saw(i, kinds)' = Saw(i, kinds)
           /\ Arrival(i)' <=> Arrival(i)
           /\ Departure(i)' <=> Departure(i)
<1> USE Config
<1>0. i \in Nat /\ i >= 1 /\ i <= Len(ticks) /\ Len(ticks) \in Nat  BY DEF TypeInv
<1>a. TypeInv /\ Records(s, d) /\ d \in Nat /\ s \in {"weak", "strong", "failed", "gatt"}  OBVIOUS
<1>b. \A k \in 1 .. Len(ticks) : ticks'[k] = ticks[k]  BY <1>a, Recorded
<1>1. \A k \in 1 .. i : ticks'[k] = ticks[k]  BY <1>0, <1>b
<1>2. \A kinds : Saw(i, kinds)' = Saw(i, kinds)  BY <1>0, <1>1 DEF Saw
<1>3. ASSUME i >= NearConfirm
      PROVE  \A k \in i - NearConfirm + 1 .. i : k \in 1 .. i
      BY <1>0, <1>3
<1>4. Arrival(i)' <=> Arrival(i)
      BY <1>0, <1>1, <1>3 DEF Arrival, Saw
<1>5. \A k \in 1 .. i - 1 : k \in 1 .. i  BY <1>0
<1>6. ticks'[i] = ticks[i]  BY <1>0, <1>1
<1>7. Departure(i)' <=> Departure(i)
      BY <1>0, <1>1, <1>5, <1>6 DEF Departure, Saw
<1> QED  BY <1>2, <1>4, <1>7

\* What the definition makes of one more tick.
Verdict == \E i \in DOMAIN ticks :
              /\ Arrival(i)
              /\ \A j \in i + 1 .. Len(ticks) : ~Saw(j, {"failed"}) /\ ~Departure(j)
LEMMA OneMoreTick ==
    ASSUME NEW s \in {"weak", "strong", "failed", "gatt"}, NEW d \in Nat,
           TypeInv, Records(s, d), NEW n, n = Len(ticks) + 1
    PROVE  Verdict' <=> Arrival(n)' \/ (Verdict /\ s # "failed" /\ ~Departure(n)')
<1>a. /\ TypeInv /\ Records(s, d)
      /\ s \in {"weak", "strong", "failed", "gatt"} /\ d \in Nat /\ n = Len(ticks) + 1
      OBVIOUS
<1>0. Len(ticks) \in Nat /\ n \in Nat /\ Len(ticks) = n - 1  BY <1>a DEF TypeInv
<1>1. Len(ticks') = n /\ DOMAIN ticks' = 1 .. n /\ DOMAIN ticks = 1 .. n - 1
      BY <1>a, <1>0, Recorded
<1>2. Saw(n, {"failed"})' <=> s = "failed"
  <2>0. ticks'[n] = [saw |-> s, at |-> clock, until |-> clock + d]  BY <1>a, Recorded
  <2>1. ticks'[n].saw = s  BY <2>0
  <2> QED  BY <2>1 DEF Saw
<1>3. \A i \in 1 .. n - 1 :
         /\ Saw(i, {"failed"})' = Saw(i, {"failed"})
         /\ Arrival(i)' <=> Arrival(i)
         /\ Departure(i)' <=> Departure(i)
      BY <1>a, <1>0, Persists
<1>4. ASSUME Arrival(n)'  PROVE Verdict'
      BY <1>0, <1>1, <1>4 DEF Verdict
<1>5. ASSUME Verdict, s # "failed", ~Departure(n)'  PROVE Verdict'
  <2>1. PICK i \in 1 .. n - 1 :
             /\ Arrival(i)
             /\ \A j \in i + 1 .. n - 1 : ~Saw(j, {"failed"}) /\ ~Departure(j)
        BY <1>0, <1>1, <1>5 DEF Verdict
  <2>2. Arrival(i)' /\ i \in 1 .. n  BY <1>0, <1>3, <2>1
  <2>3. ASSUME NEW j \in i + 1 .. n
        PROVE  ~Saw(j, {"failed"})' /\ ~Departure(j)'
    <3>1. CASE j = n  BY <3>1, <1>2, <1>5
    <3>2. CASE j # n
      <4>1. j \in i + 1 .. n - 1 /\ j \in 1 .. n - 1  BY <1>0, <2>1, <2>3, <3>2
      <4> QED  BY <4>1, <1>3, <2>1
    <3> QED  BY <3>1, <3>2
  <2> QED  BY <1>1, <2>2, <2>3 DEF Verdict
<1>6. ASSUME Verdict', ~Arrival(n)'
      PROVE  Verdict /\ s # "failed" /\ ~Departure(n)'
  <2>1. PICK i \in 1 .. n :
             /\ Arrival(i)'
             /\ \A j \in i + 1 .. n : ~Saw(j, {"failed"})' /\ ~Departure(j)'
        BY <1>1, <1>6 DEF Verdict
  <2>2. i \in 1 .. n - 1 /\ n \in i + 1 .. n
    <3>1. i # n  BY <1>6, <2>1
    <3> QED  BY <1>0, <2>1, <3>1
  <2>3. s # "failed" /\ ~Departure(n)'  BY <1>2, <2>1, <2>2
  <2>4. Arrival(i)  BY <1>3, <2>1, <2>2
  <2>5. ASSUME NEW j \in i + 1 .. n - 1
        PROVE  ~Saw(j, {"failed"}) /\ ~Departure(j)
    <3>1. j \in i + 1 .. n /\ j \in 1 .. n - 1  BY <1>0, <2>2, <2>5
    <3> QED  BY <3>1, <1>3, <2>1
  <2>6. \A j \in i + 1 .. Len(ticks) : ~Saw(j, {"failed"}) /\ ~Departure(j)
    <3>1. Len(ticks) = n - 1  BY <1>0
    <3> QED  BY <2>5, <3>1
  <2> QED  BY <1>1, <2>2, <2>3, <2>4, <2>6 DEF Verdict
<1> QED  BY <1>4, <1>5, <1>6

\* The verdict about a new tick itself, by what it saw.
LEMMA NewTick ==
    ASSUME NEW s \in {"weak", "strong", "failed", "gatt"}, NEW d \in Nat,
           TypeInv, SeenInv, CountInv, ClockInv,
           Records(s, d), NEW n, n = Len(ticks) + 1
    PROVE  /\ \A kinds : Saw(n, kinds)' <=> s \in kinds
           /\ s \in {"weak", "failed"} => ~Arrival(n)'
           /\ s = "gatt" => Arrival(n)'
           /\ s = "strong" /\ ~near => (Arrival(n)' <=> consecNear + 1 >= NearConfirm)
           /\ s # "weak" => ~Departure(n)'
           /\ s = "weak" /\ near => (Departure(n)' <=> clock - lastSeen > FarTimeout)
<1> USE Config
<1>a. /\ TypeInv /\ Records(s, d)
      /\ s \in {"weak", "strong", "failed", "gatt"} /\ d \in Nat /\ n = Len(ticks) + 1
      OBVIOUS
<1>0. /\ Len(ticks) \in Nat /\ n \in Nat /\ Len(ticks) = n - 1
      /\ clock \in Nat /\ lastSeen \in Nat /\ consecNear \in Nat
      BY <1>a DEF TypeInv
<1>1. ticks'[n] = [saw |-> s, at |-> clock, until |-> clock + d]
      BY <1>a, Recorded
<1>2. ticks'[n].saw = s /\ ticks'[n].at = clock  BY <1>1
<1>3. \A kinds : Saw(n, kinds)' <=> s \in kinds  BY <1>2 DEF Saw
<1>4. \A k \in 1 .. n - 1 : ticks'[k] = ticks[k] /\ ticks[k] \in Tick /\ k \in DOMAIN ticks
  <2>1. \A k \in 1 .. Len(ticks) : ticks'[k] = ticks[k]  BY <1>a, Recorded
  <2>2. \A k \in 1 .. Len(ticks) : ticks[k] \in Tick /\ k \in DOMAIN ticks
        BY <1>a DEF TypeInv
  <2> QED  BY <1>0, <2>1, <2>2
<1>5. s \in {"weak", "failed"} => ~Arrival(n)'
  <2>1. SUFFICES ASSUME s \in {"weak", "failed"}, n >= NearConfirm
                 PROVE  \E k \in n - NearConfirm + 1 .. n : ~Saw(k, {"strong"})'
        BY <1>2 DEF Arrival, Saw
  <2>2. n \in n - NearConfirm + 1 .. n  BY <1>0
  <2> QED  BY <2>1, <2>2, <1>3
<1>6. s = "gatt" => Arrival(n)'  BY <1>2 DEF Arrival, Saw
<1>7. ASSUME s = "strong", ~near
      PROVE  Arrival(n)' <=> consecNear + 1 >= NearConfirm
  <2>1. /\ consecNear < NearConfirm /\ consecNear <= n - 1
        /\ \A k \in n - consecNear .. n - 1 : Saw(k, {"strong"})
        /\ consecNear = n - 1 \/ ~Saw(n - 1 - consecNear, {"strong"})
    <3>1. Len(ticks) - consecNear + 1 = n - consecNear  BY <1>0
    <3> QED  BY <1>0, <1>7, <3>1 DEF CountInv
  <2>2. \A k \in 1 .. n - 1 : Saw(k, {"strong"})' <=> Saw(k, {"strong"})
        BY <1>4 DEF Saw
  <2>a. consecNear < NearConfirm /\ consecNear <= n - 1 /\ NearConfirm \in Nat
        BY <2>1
  <2>3. ASSUME consecNear + 1 >= NearConfirm  PROVE Arrival(n)'
    <3>1. consecNear + 1 = NearConfirm /\ n >= NearConfirm  BY <1>0, <2>a, <2>3
    <3>2. ASSUME NEW k \in n - NearConfirm + 1 .. n  PROVE Saw(k, {"strong"})'
      <4>1. CASE k = n  BY <4>1, <1>3, <1>7
      <4>2. CASE k # n
        <5>1. k \in n - consecNear .. n - 1 /\ k \in 1 .. n - 1
              BY <1>0, <2>a, <3>1, <3>2, <4>2
        <5> QED  BY <5>1, <2>1, <2>2
      <4> QED  BY <4>1, <4>2
    <3> QED  BY <3>1, <3>2 DEF Arrival
  <2>4. ASSUME Arrival(n)', ~(consecNear + 1 >= NearConfirm)  PROVE FALSE
    <3>1. ~Saw(n, {"gatt"})'  BY <1>3, <1>7
    <3>2. n >= NearConfirm /\ \A k \in n - NearConfirm + 1 .. n : Saw(k, {"strong"})'
          BY <2>4, <3>1 DEF Arrival
    <3> DEFINE m == n - 1 - consecNear
    <3>3. m \in n - NearConfirm + 1 .. n /\ m \in 1 .. n - 1 /\ consecNear # n - 1
      <4>1. consecNear + 1 < NearConfirm /\ n >= NearConfirm  BY <1>0, <2>a, <2>4, <3>2
      <4>2. m \in Nat /\ m >= n - NearConfirm + 1 /\ m <= n - 1 /\ m >= 1
          BY <1>0, <2>a, <4>1
      <4>3. consecNear < n - 1  BY <1>0, <2>a, <4>1
      <4>4. ASSUME consecNear = n - 1  PROVE FALSE
        <5>1. n - 1 < n - 1  BY <4>3, <4>4
        <5> QED  BY <1>0, <5>1
      <4>5. m \in n - NearConfirm + 1 .. n /\ m \in 1 .. n - 1
        <5> HIDE DEF m
        <5> QED  BY <1>0, <2>a, <4>2
      <4> QED  BY <4>4, <4>5
    <3>4. ~Saw(m, {"strong"})  BY <2>1, <3>3
    <3> HIDE DEF m
    <3> QED  BY <2>2, <3>2, <3>3, <3>4
  <2> QED  BY <2>3, <2>4
<1>8. s # "weak" => ~Departure(n)'  BY <1>2 DEF Departure, Saw
<1>9. ASSUME s = "weak", near
      PROVE  Departure(n)' <=> clock - lastSeen > FarTimeout
  <2>1. Departure(n)' <=> \A k \in 1 .. n - 1 :
                             Saw(k, {"strong", "gatt"}) => clock - ticks[k].at > FarTimeout
        BY <1>2, <1>4, <1>9 DEF Departure, Saw
  <2>2. PICK k \in 1 .. n - 1 : Saw(k, {"strong", "gatt"}) /\ ticks[k].at = lastSeen
    <3>1. DOMAIN ticks = 1 .. n - 1  BY <1>a, <1>0, Recorded
    <3> QED  BY <1>9, <3>1 DEF ClockInv
  <2>3. ASSUME clock - lastSeen > FarTimeout,
               NEW j \in 1 .. n - 1, Saw(j, {"strong", "gatt"})
        PROVE  clock - ticks[j].at > FarTimeout
    <3>1. ticks[j].at <= lastSeen /\ ticks[j].at \in Nat
          BY <1>4, <2>3 DEF SeenInv, Tick
    <3> QED  BY <1>0, <2>3, <3>1
  <2> QED  BY <2>1, <2>2, <2>3
<1> QED  BY <1>3, <1>5, <1>6, <1>7, <1>8, <1>9

\* One more tick, given what it did to near and to the two locals.
LEMMA TickStep ==
    ASSUME NEW s \in {"weak", "strong", "failed", "gatt"}, NEW d \in Nat,
           IInv, Records(s, d), near' \in BOOLEAN,
           s = "weak"   => /\ lastSeen' = lastSeen /\ consecNear' = 0
                           /\ near' <=> near /\ ~(clock - lastSeen > FarTimeout),
           s = "failed" => consecNear' = 0 /\ ~near',
           s = "strong" => /\ lastSeen' = clock
                           /\ near' <=> near \/ consecNear + 1 >= NearConfirm
                           /\ ~near' => consecNear' = consecNear + 1,
           s = "gatt"   => lastSeen' = clock /\ near'
    PROVE  CountInv' /\ ClockInv' /\ NearIsAsDefined'
<1> USE Config
<1>a. /\ TypeInv /\ SeenInv /\ CountInv /\ ClockInv /\ NearIsAsDefined
      /\ Records(s, d) /\ s \in {"weak", "strong", "failed", "gatt"} /\ d \in Nat
      BY DEF IInv
<1>1. PICK n : n = Len(ticks) + 1  OBVIOUS
<1>0. /\ Len(ticks) \in Nat /\ n \in Nat /\ Len(ticks) = n - 1
      /\ clock \in Nat /\ lastSeen \in Nat /\ consecNear \in Nat
      BY <1>a, <1>1 DEF TypeInv
<1>2. Verdict' <=> Arrival(n)' \/ (Verdict /\ s # "failed" /\ ~Departure(n)')
      BY <1>a, <1>1, OneMoreTick
<1>3. /\ \A kinds : Saw(n, kinds)' <=> s \in kinds
      /\ s \in {"weak", "failed"} => ~Arrival(n)'
      /\ s = "gatt" => Arrival(n)'
      /\ s = "strong" /\ ~near => (Arrival(n)' <=> consecNear + 1 >= NearConfirm)
      /\ s # "weak" => ~Departure(n)'
      /\ s = "weak" /\ near => (Departure(n)' <=> clock - lastSeen > FarTimeout)
      BY <1>a, <1>1, NewTick
<1>4. near <=> Verdict  BY <1>a DEF NearIsAsDefined, Verdict
<1>5. near' <=> Verdict'
  <2>1. CASE s = "weak"    BY <2>1, <1>2, <1>3, <1>4, Zenon
  <2>2. CASE s = "failed"  BY <2>2, <1>2, <1>3, <1>4
  <2>3. CASE s = "strong"
    <3>1. CASE near   BY <2>3, <3>1, <1>2, <1>3, <1>4
    <3>2. CASE ~near  BY <2>3, <3>2, <1>2, <1>3, <1>4
    <3> QED  BY <3>1, <3>2
  <2>4. CASE s = "gatt"    BY <2>4, <1>2, <1>3
  <2> QED  BY <1>a, <2>1, <2>2, <2>3, <2>4
<1>6. NearIsAsDefined'  BY <1>5 DEF NearIsAsDefined, Verdict
<1>7. /\ DOMAIN ticks' = 1 .. n /\ Len(ticks') = n
      /\ \A k \in 1 .. n - 1 : ticks'[k] = ticks[k]
  <2>1. /\ DOMAIN ticks' = 1 .. Len(ticks) + 1 /\ Len(ticks') = Len(ticks) + 1
        /\ \A k \in 1 .. Len(ticks) : ticks'[k] = ticks[k]
        BY <1>a, Recorded
  <2> QED  BY <2>1, <1>0, <1>1
<1>8. ticks'[n] = [saw |-> s, at |-> clock, until |-> clock + d]
      BY <1>a, <1>1, Recorded
<1>9. ASSUME near'  PROVE ClockInv'
  <2>1. CASE s = "weak"
    <3>1. near /\ lastSeen' = lastSeen  BY <1>9, <2>1
    <3>2. PICK k \in DOMAIN ticks : Saw(k, {"strong", "gatt"}) /\ ticks[k].at = lastSeen
          BY <1>a, <3>1 DEF ClockInv
    <3>3. k \in 1 .. n - 1  BY <1>a, <1>0, <3>2 DEF TypeInv
    <3>4. ticks'[k] = ticks[k] /\ k \in 1 .. n  BY <1>0, <1>7, <3>3
    <3> QED  BY <1>7, <3>1, <3>2, <3>4 DEF ClockInv, Saw
  <2>2. CASE s \in {"strong", "gatt"}
    <3>1. lastSeen' = clock  BY <2>2
    <3>2. n \in 1 .. n  BY <1>0
    <3> QED  BY <1>7, <1>8, <2>2, <3>1, <3>2 DEF ClockInv, Saw
  <2>3. CASE s = "failed"  BY <1>9, <2>3
  <2> QED  BY <1>a, <2>1, <2>2, <2>3
<1>10. ASSUME ~near'  PROVE CountInv'
  <2>1. CASE s \in {"weak", "failed"}
    <3>1. consecNear' = 0  BY <2>1
    <3>2. ~(ticks'[n].saw \in {"strong"})  BY <1>8, <2>1
    <3>3. 0 < NearConfirm /\ 0 <= n /\ n - 0 = n /\ n - 0 + 1 .. n = {}  BY <1>0
    <3> QED  BY <1>7, <3>1, <3>2, <3>3 DEF CountInv, Saw
  <2>2. CASE s = "strong"
    <3>1. ~near /\ ~(consecNear + 1 >= NearConfirm) /\ consecNear' = consecNear + 1
          BY <1>10, <2>2
    <3>2. /\ consecNear < NearConfirm /\ consecNear <= n - 1
          /\ \A k \in n - 1 - consecNear + 1 .. n - 1 : Saw(k, {"strong"})
          /\ consecNear = n - 1 \/ ~Saw(n - 1 - consecNear, {"strong"})
          BY <1>a, <1>0, <3>1 DEF CountInv
    <3>3. consecNear' < NearConfirm /\ consecNear' <= n
      <4>1. consecNear <= n - 1  BY <3>2
      <4> QED  BY <1>0, <3>1, <4>1
    <3>4. ASSUME NEW k \in n - consecNear' + 1 .. n  PROVE ticks'[k].saw \in {"strong"}
      <4>1. CASE k = n  BY <4>1, <1>8, <2>2
      <4>2. CASE k # n
        <5>1. consecNear <= n - 1  BY <3>2
        <5>2. k \in n - 1 - consecNear + 1 .. n - 1 /\ k \in 1 .. n - 1
              BY <1>0, <3>1, <3>4, <4>2, <5>1
        <5> QED  BY <5>2, <1>7, <3>2 DEF Saw
      <4> QED  BY <4>1, <4>2
    <3>5. consecNear' = n \/ ~(ticks'[n - consecNear'].saw \in {"strong"})
      <4>1. CASE consecNear = n - 1  BY <1>0, <3>1, <4>1
      <4>2. CASE consecNear # n - 1
        <5>1. consecNear <= n - 1 /\ ~Saw(n - 1 - consecNear, {"strong"})  BY <3>2, <4>2
        <5>2. n - consecNear' = n - 1 - consecNear /\ n - 1 - consecNear \in 1 .. n - 1
              BY <1>0, <3>1, <4>2, <5>1
        <5> QED  BY <5>1, <5>2, <1>7 DEF Saw
      <4> QED  BY <4>1, <4>2
    <3> QED  BY <1>7, <3>3, <3>4, <3>5 DEF CountInv, Saw
  <2>3. CASE s = "gatt"  BY <1>10, <2>3
  <2> QED  BY <1>a, <2>1, <2>2, <2>3
<1> QED  BY <1>6, <1>9, <1>10 DEF CountInv, ClockInv

LEMMA IInvStep == IInv /\ [Next]_vars => IInv'
<1> SUFFICES ASSUME IInv, [Next]_vars  PROVE IInv'  OBVIOUS
<1>a. TypeInv /\ SeenInv /\ IInv  BY DEF IInv
<1>1. TypeInv' /\ SeenInv'  BY <1>a, TypeStep, SeenStep
<1>2. ASSUME NEW d \in Durations, NEW strong \in BOOLEAN, NEW outcome \in Outcome,
             Look(strong, outcome, d)
      PROVE  CountInv' /\ ClockInv' /\ NearIsAsDefined'
  <2>1. d \in Nat /\ near' \in BOOLEAN  BY <1>a, <1>2, LookSteps DEF Durations
  <2>2. \/ /\ Records("weak", d)
           /\ lastSeen' = lastSeen /\ consecNear' = 0
           /\ near' <=> near /\ ~(clock - lastSeen > FarTimeout)
        \/ /\ Records("failed", d)
           /\ lastSeen' = clock /\ consecNear' = 0 /\ ~near'
        \/ /\ Records("strong", d)
           /\ lastSeen' = clock
           /\ near' <=> near \/ consecNear + 1 >= NearConfirm
           /\ ~near' => consecNear' = consecNear + 1
        BY <1>a, <1>2, LookSteps
  <2> QED  BY <1>a, <2>1, <2>2, TickStep
<1>3. ASSUME NEW d \in Durations, GattTick(d)
      PROVE  CountInv' /\ ClockInv' /\ NearIsAsDefined'
  <2>1. d \in Nat /\ near' = TRUE /\ lastSeen' = clock /\ Records("gatt", d)
        BY <1>3 DEF GattTick, Durations
  <2> QED  BY <1>a, <2>1, TickStep
<1>4. ASSUME UNCHANGED <<near, consecNear, lastSeen, ticks>>
      PROVE  CountInv' /\ ClockInv' /\ NearIsAsDefined'
      BY <1>a, <1>4 DEF IInv, CountInv, ClockInv, NearIsAsDefined, Arrival, Departure, Saw
<1>5. CountInv' /\ ClockInv' /\ NearIsAsDefined'
      BY <1>2, <1>3, <1>4 DEF Next, PeekFails, CommandMoves, vars
<1> QED  BY <1>1, <1>5 DEF IInv

\* near is what the definition over the whole record makes of it, however the
\* loop counts (presenceStep, runPresenceWatcher).
THEOREM NearIsJudgedAsDefined == Spec => []NearIsAsDefined
<1> USE Config
<1>1. Init => IInv
  <2> SUFFICES ASSUME Init  PROVE IInv  OBVIOUS
  <2>1. TypeInv /\ SeenInv  BY Starts
  <2>2. Len(ticks) = 0 /\ DOMAIN ticks = {} /\ ~near /\ consecNear = 0  BY DEF Init
  <2>3. CountInv  BY <2>2 DEF CountInv
  <2> QED  BY <2>1, <2>2, <2>3 DEF IInv, ClockInv, NearIsAsDefined
<1>2. IInv => NearIsAsDefined  BY DEF IInv
<1> QED  BY <1>1, <1>2, IInvStep, PTL DEF Spec
=============================================================================
