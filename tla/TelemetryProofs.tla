--------------------------- MODULE TelemetryProofs ---------------------------
(***************************************************************************)
(* Safety of the telemetry path for any number of probers, connections and *)
(* restarts, any sizes of its buffers and any number of metrics.           *)
(***************************************************************************)
EXTENDS Telemetry, SeqTrackProofs, SequenceTheorems, FiniteSetTheorems

(* The numbers the constants are.                                          *)
LEMMA Bounds ==
  /\ Probers \in Nat \ {0} /\ IntakeCap \in Nat \ {0} /\ MaxBatch \in Nat \ {0}
  /\ SpoolCap \in Nat \ {0} /\ MaxSeq \in Nat \ {0} /\ MaxConns \in Nat \ {0}
  /\ MaxRestarts \in Nat /\ SendCap \in Nat /\ SendCap > 1
  /\ SpoolCap <= (SendCap - 1) * MaxBatch
  BY BoundsAssumption, SendCapAssumption

LEMMA MetricsFinite == IsFiniteSet(Metrics)
<1>1. IsFiniteSet(0 .. MaxRestarts) /\ IsFiniteSet(1 .. MaxSeq)
  BY Bounds, FS_Interval
<1> QED
  BY <1>1, FS_Product DEF Metrics

(* What Stamp's bound says about the number it gives out.                  *)
LEMMA StampFits ==
  ASSUME AgentTypes, Cardinality(Stamped) < MaxSeq
  PROVE  seq[inc] + 1 \in 1 .. MaxSeq
<1>1. PICK n \in 0 .. MaxSeq : seq[inc] = n /\ inc \in 0 .. MaxRestarts
  BY DEF AgentTypes
<1>n. n \in Nat
  BY <1>1, Bounds
<1> DEFINE f == [k \in 1 .. n |-> <<inc, k>>]
<1>2. \A k \in 1 .. n : <<inc, k>> \in Stamped
  <2> SUFFICES ASSUME NEW k \in 1 .. n PROVE <<inc, k>> \in Stamped
    OBVIOUS
  <2>1. k \in 1 .. MaxSeq /\ k <= seq[inc]
    BY <1>1, Bounds
  <2> QED
    BY <1>1, <2>1 DEF Stamped, Metrics
<1>3. f \in [1 .. n -> Stamped] /\ IsInjective(f)
  BY <1>2 DEF IsInjective
<1>4. f \in Injection(1 .. n, Stamped)
  BY <1>3 DEF Injection
<1>5. IsFiniteSet(Stamped)
  BY MetricsFinite, FS_Subset DEF Stamped
<1> HIDE DEF f
<1>6. Cardinality(1 .. n) <= Cardinality(Stamped)
  BY <1>4, <1>5, FS_Injection
<1>7. Cardinality(1 .. n) = n
  BY <1>n, FS_Interval
<1>8. Cardinality(Stamped) \in Nat
  BY <1>5, FS_CardinalityType
<1> QED
  BY <1>1, <1>n, <1>6, <1>7, <1>8, Bounds

-----------------------------------------------------------------------------
(* What the steps do to a sequence of metrics.                             *)
LEMMA AppendSeq ==
  ASSUME NEW S, NEW s \in Seq(S), NEW e \in S
  PROVE  /\ Append(s, e) \in Seq(S)
         /\ Len(Append(s, e)) = Len(s) + 1 /\ Len(s) \in Nat
         /\ Append(s, e) # <<>>
         /\ Elems(Append(s, e)) = Elems(s) \cup {e}
         /\ Distinct(s) /\ e \notin Elems(s) => Distinct(Append(s, e))
<1> DEFINE t == Append(s, e)
<1>1. /\ t \in Seq(S) /\ Len(t) = Len(s) + 1 /\ Len(s) \in Nat
      /\ \A i \in 1 .. Len(s) : t[i] = s[i]
      /\ t[Len(s) + 1] = e /\ t # <<>>
  BY AppendProperties, LenProperties
<1>2. DOMAIN s = 1 .. Len(s) /\ DOMAIN t = 1 .. Len(s) + 1
  BY <1>1, LenProperties
<1> HIDE DEF t
<1>3. Elems(t) = Elems(s) \cup {e}
  <2>1. \A x \in Elems(t) : x \in Elems(s) \cup {e}
    BY <1>1, <1>2 DEF Elems
  <2>2. \A i \in DOMAIN s : s[i] \in Elems(t)
    BY <1>1, <1>2 DEF Elems
  <2>3. e \in Elems(t)
    BY <1>1, <1>2 DEF Elems
  <2> QED
    BY <2>1, <2>2, <2>3 DEF Elems
<1>4. ASSUME Distinct(s), e \notin Elems(s) PROVE Distinct(t)
  BY <1>1, <1>2, <1>4 DEF Distinct, Elems
<1> QED
  BY <1>1, <1>3, <1>4 DEF t

LEMMA TailSeq ==
  ASSUME NEW S, NEW s \in Seq(S), s # <<>>
  PROVE  /\ Head(s) \in S /\ Tail(s) \in Seq(S)
         /\ Len(Tail(s)) = Len(s) - 1 /\ Len(s) \in Nat \ {0}
         /\ Elems(s) = {Head(s)} \cup Elems(Tail(s))
         /\ Distinct(s) => Distinct(Tail(s)) /\ Head(s) \notin Elems(Tail(s))
<1> DEFINE t == Tail(s)
<1>1. /\ Head(s) \in S /\ t \in Seq(S) /\ Len(t) = Len(s) - 1
      /\ \A i \in 1 .. Len(t) : t[i] = s[i + 1]
      /\ Len(s) \in Nat \ {0}
  BY HeadTailProperties, EmptySeq
<1>2. DOMAIN s = 1 .. Len(s) /\ DOMAIN t = 1 .. Len(s) - 1 /\ Head(s) = s[1]
  BY <1>1, LenProperties
<1> HIDE DEF t
<1>3. Elems(s) = {Head(s)} \cup Elems(t)
  <2>1. ASSUME NEW i \in DOMAIN s PROVE s[i] \in {Head(s)} \cup Elems(t)
    <3>1. CASE i = 1
      BY <1>2, <3>1
    <3>2. CASE i # 1
      <4>1. i - 1 \in 1 .. Len(t) /\ t[i - 1] = s[i]
        BY <1>1, <1>2, <3>2
      <4> QED
        BY <1>1, <1>2, <4>1 DEF Elems
    <3> QED
      BY <3>1, <3>2
  <2>2. ASSUME NEW i \in DOMAIN t PROVE t[i] \in Elems(s)
    <3>1. i + 1 \in DOMAIN s /\ t[i] = s[i + 1]
      BY <1>1, <1>2
    <3> QED
      BY <3>1 DEF Elems
  <2>3. Head(s) \in Elems(s)
    <3>1. 1 \in DOMAIN s /\ Head(s) = s[1]
      BY <1>1, <1>2
    <3> QED
      BY <3>1 DEF Elems
  <2> QED
    BY <2>1, <2>2, <2>3 DEF Elems
<1>4. ASSUME Distinct(s) PROVE Distinct(t) /\ Head(s) \notin Elems(t)
  <2>1. ASSUME NEW i \in DOMAIN t, NEW j \in DOMAIN t, i # j PROVE t[i] # t[j]
    <3>1. /\ t[i] = s[i + 1] /\ t[j] = s[j + 1] /\ i + 1 # j + 1
          /\ i + 1 \in DOMAIN s /\ j + 1 \in DOMAIN s
      BY <1>1, <1>2, <2>1
    <3> QED
      BY <1>4, <3>1 DEF Distinct
  <2>2. Head(s) \notin Elems(t)
    <3>1. ASSUME NEW i \in DOMAIN t PROVE t[i] # s[1]
      <4>1. i + 1 \in DOMAIN s /\ 1 \in DOMAIN s /\ i + 1 # 1 /\ t[i] = s[i + 1]
        BY <1>1, <1>2
      <4> QED
        BY <1>4, <4>1 DEF Distinct
    <3> QED
      BY <1>2, <3>1 DEF Elems
  <2> QED
    BY <2>1, <2>2 DEF Distinct
<1> QED
  BY <1>1, <1>3, <1>4 DEF t

LEMMA PrefixSeq ==
  ASSUME NEW S, NEW s \in Seq(S), NEW k \in 0 .. Len(s)
  PROVE  /\ SubSeq(s, 1, k) \in Seq(S)
         /\ Len(SubSeq(s, 1, k)) = k
         /\ \A i \in 1 .. k : SubSeq(s, 1, k)[i] = s[i]
<1>1. Len(s) \in Nat /\ k \in Int /\ 1 \in Int
  BY LenProperties
<1>2. \A i \in 1 .. k : s[i] \in S
  BY <1>1, ElementOfSeq
<1> QED
  BY <1>1, <1>2, SubSeqProperties

-----------------------------------------------------------------------------
(* flushSpool's chunks.                                                    *)
LEMMA DivUp ==
  ASSUME NEW n \in Nat, NEW b \in Nat \ {0}
  PROVE  /\ (n + b - 1) \div b \in Nat
         /\ ((n + b - 1) \div b) * b <= n + b - 1
  BY SMT

LEMMA MulMono ==
  ASSUME NEW k \in Nat, NEW l \in Nat, NEW b \in Nat, k <= l
  PROVE  k * b <= l * b /\ k * b \in Nat
  BY SMT

LEMMA MulBefore ==
  ASSUME NEW k \in Nat \ {0}, NEW b \in Nat
  PROVE  k * b = (k - 1) * b + b /\ (k - 1) * b \in Nat
  BY SMT

(* The chunks of a full spool and REGISTER fit in the queue.               *)
LEMMA ChunksFit ==
  ASSUME NEW n \in Nat, n <= SpoolCap
  PROVE  (n + MaxBatch - 1) \div MaxBatch <= SendCap - 1
<1> DEFINE q == (n + MaxBatch - 1) \div MaxBatch
<1>1. q \in Nat /\ q * MaxBatch <= n + MaxBatch - 1
  BY Bounds, DivUp
<1>2. /\ SendCap \in Nat \ {0} /\ MaxBatch \in Nat \ {0} /\ SpoolCap \in Nat
      /\ SpoolCap <= (SendCap - 1) * MaxBatch
  BY Bounds
<1> HIDE DEF q
<1>3. CASE q >= SendCap
  <2>1. SendCap * MaxBatch <= q * MaxBatch /\ SendCap * MaxBatch \in Nat
    BY <1>1, <1>2, <1>3, MulMono
  <2>2. SendCap * MaxBatch = (SendCap - 1) * MaxBatch + MaxBatch
    BY <1>2, MulBefore
  <2>3. (SendCap - 1) * MaxBatch \in Nat /\ q * MaxBatch \in Nat
    BY <1>1, <1>2, MulBefore, MulMono
  <2> QED
    BY <1>1, <1>2, <2>1, <2>2, <2>3
<1>4. CASE ~ (q >= SendCap)
  BY <1>1, <1>2, <1>4 DEF q
<1> QED
  BY <1>3, <1>4

LEMMA MinOfPair ==
  ASSUME NEW a \in Nat, NEW b \in Nat
  PROVE  MinOf({a, b}) \in {a, b} /\ MinOf({a, b}) <= a /\ MinOf({a, b}) <= b
<1>1. {a, b} \in SUBSET Nat /\ {a, b} # {}
  OBVIOUS
<1> QED
  BY <1>1, MinOfSet

LEMMA SeqOfFunction ==
  ASSUME NEW S, NEW n \in Nat, NEW f \in [1 .. n -> S]
  PROVE  f \in Seq(S) /\ Len(f) = n
<1>1. f \in Seq(S)
  BY SeqDef
<1>2. Len(f) \in Nat /\ 1 .. Len(f) = 1 .. n
  BY <1>1, LenProperties
<1>3. Len(f) = n
  <2>1. Len(f) <= n
    BY <1>2
  <2>2. n <= Len(f)
    BY <1>2
  <2> QED
    BY <1>2, <2>1, <2>2
<1> QED
  BY <1>1, <1>3

(* Metric a of chunk k is metric (k - 1) * MaxBatch + a of the spool.      *)
LEMMA ReplayChunks ==
  ASSUME NEW ms \in Seq(Metrics), Len(ms) <= SpoolCap
  PROVE  /\ Replay(ms) \in Seq(Frame)
         /\ Len(Replay(ms)) <= SendCap - 1
         /\ \A k \in 1 .. Len(Replay(ms)) :
              /\ Replay(ms)[k].kind = "TELEMETRY" /\ Replay(ms)[k].replay = TRUE
              /\ \A a \in DOMAIN Replay(ms)[k].metrics :
                   /\ a \in 1 .. MaxBatch
                   /\ (k - 1) * MaxBatch + a \in 1 .. Len(ms)
                   /\ Replay(ms)[k].metrics[a] = ms[(k - 1) * MaxBatch + a]
<1> DEFINE n == Len(ms)
           q == (n + MaxBatch - 1) \div MaxBatch
           lo(k) == (k - 1) * MaxBatch + 1
           hi(k) == MinOf({k * MaxBatch, n})
           chunk(k) == SubSeq(ms, lo(k), hi(k))
<1>1. n \in Nat /\ MaxBatch \in Nat \ {0} /\ SendCap \in Nat /\ q \in Nat
  BY Bounds, LenProperties, DivUp
<1>2. ASSUME NEW k \in 1 .. q
      PROVE  /\ chunk(k) \in Seq(Metrics)
             /\ \A a \in DOMAIN chunk(k) :
                  /\ a \in 1 .. MaxBatch
                  /\ (k - 1) * MaxBatch + a \in 1 .. n
                  /\ chunk(k)[a] = ms[(k - 1) * MaxBatch + a]
  <2> DEFINE b == (k - 1) * MaxBatch
  <2>m. k \in Nat \ {0} /\ b \in Nat /\ k * MaxBatch = b + MaxBatch
    BY <1>1, MulBefore
  <2>1. k \in Nat \ {0} /\ b \in Nat
    BY <2>m
  <2>2. k * MaxBatch \in Nat
    BY <1>1, <2>m
  <2>3. hi(k) \in Nat /\ hi(k) <= b + MaxBatch /\ hi(k) <= n /\ lo(k) = b + 1
    BY <1>1, <2>m, <2>2, MinOfPair
  <2> HIDE DEF b, lo, hi, n
  <2>4. \A i \in lo(k) .. hi(k) : i \in 1 .. n /\ ms[i] \in Metrics
    BY <1>1, <2>1, <2>3, ElementOfSeq DEF n
  <2>5. lo(k) \in Int /\ hi(k) \in Int
    BY <2>1, <2>3
  <2>6. /\ chunk(k) \in Seq(Metrics)
        /\ Len(chunk(k)) = IF lo(k) <= hi(k) THEN hi(k) - lo(k) + 1 ELSE 0
        /\ \A i \in 1 .. hi(k) - lo(k) + 1 : chunk(k)[i] = ms[lo(k) + i - 1]
    BY <2>4, <2>5, SubSeqProperties
  <2>7. DOMAIN chunk(k) = 1 .. Len(chunk(k))
    BY <2>6, LenProperties
  <2> HIDE DEF chunk
  <2>8. ASSUME NEW a \in DOMAIN chunk(k)
        PROVE  a \in 1 .. MaxBatch /\ b + a \in 1 .. n /\ chunk(k)[a] = ms[b + a]
    <3>1. a \in 1 .. Len(chunk(k))
      BY <2>7, <2>8
    <3>2. lo(k) <= hi(k) /\ a \in 1 .. hi(k) - lo(k) + 1
      BY <2>5, <2>6, <3>1
    <3>3. chunk(k)[a] = ms[lo(k) + a - 1]
      BY <2>6, <3>2
    <3> HIDE DEF chunk
    <3>4. lo(k) + a - 1 = b + a /\ b + a <= hi(k) /\ a \in Nat \ {0}
      BY <2>1, <2>3, <3>2
    <3>5. a <= MaxBatch /\ b + a <= n /\ 1 <= b + a
      BY <1>1, <2>1, <2>3, <3>4
    <3>6. a \in 1 .. MaxBatch /\ b + a \in 1 .. n
      BY <1>1, <2>1, <3>4, <3>5
    <3> QED
      BY <3>3, <3>4, <3>6
  <2> QED
    BY <2>6, <2>8 DEF b
<1> HIDE DEF chunk
<1>3. Replay(ms) = [k \in 1 .. q |-> Telemetry(chunk(k), TRUE)]
  BY DEF Replay, chunk
<1>4. \A k \in 1 .. q : Telemetry(chunk(k), TRUE) \in Frame
  BY <1>2 DEF Telemetry, Frame
<1> HIDE DEF q
<1>5. Replay(ms) \in [1 .. q -> Frame]
  BY <1>3, <1>4
<1>6. Replay(ms) \in Seq(Frame) /\ Len(Replay(ms)) = q
  BY <1>1, <1>5, SeqOfFunction
<1>7. q <= SendCap - 1
  BY <1>1, ChunksFit DEF q
<1>8. \A k \in 1 .. q : /\ Replay(ms)[k].kind = "TELEMETRY" /\ Replay(ms)[k].replay = TRUE
                       /\ Replay(ms)[k].metrics = chunk(k)
  BY <1>3 DEF Telemetry
<1> QED
  BY <1>2, <1>6, <1>7, <1>8

(* What Publish queues.                                                    *)
LEMMA PublishedFrames ==
  ASSUME NEW ms \in Seq(Metrics), Len(ms) <= SpoolCap
  PROVE  LET fs == <<Register>> \o Replay(ms)
         IN /\ fs \in Seq(Frame) /\ Len(fs) = 1 + Len(Replay(ms)) /\ Len(fs) <= SendCap
            /\ fs[1] = Register
            /\ \A i \in 2 .. Len(fs) : fs[i] = Replay(ms)[i - 1]
<1> DEFINE r == Replay(ms)
           fs == <<Register>> \o r
<1>1. r \in Seq(Frame) /\ Len(r) <= SendCap - 1 /\ Len(r) \in Nat
  BY ReplayChunks, LenProperties
<1>2. Register \in Frame
  BY DEF Frame
<1>3. <<Register>> \in Seq(Frame) /\ Len(<<Register>>) = 1 /\ <<Register>>[1] = Register
  BY <1>2
<1> HIDE DEF r
<1>4. /\ fs \in Seq(Frame) /\ Len(fs) = 1 + Len(r)
      /\ \A i \in 1 .. 1 + Len(r) : fs[i] = IF i <= 1 THEN <<Register>>[i] ELSE r[i - 1]
  BY <1>1, <1>3, ConcatProperties
<1> HIDE DEF fs
<1>5. fs[1] = Register /\ \A i \in 2 .. Len(fs) : fs[i] = r[i - 1]
  BY <1>1, <1>3, <1>4
<1>6. Len(fs) <= SendCap
  BY <1>1, <1>4, Bounds
<1> QED
  BY <1>4, <1>5, <1>6 DEF fs, r

-----------------------------------------------------------------------------
(* Types, action by action.                                                *)
LEMMA TypesInit == Init => TypeOK
<1> SUFFICES ASSUME Init PROVE TypeOK
  OBVIOUS
<1>1. Cardinality({}) = 0 /\ \A S : <<>> \in Seq(S) /\ Len(<<>>) = 0
  BY FS_EmptySet, EmptySeq
<1>2. AgentTypes
  BY <1>1, Bounds DEF Init, AgentTypes
<1>3. SpoolTypes
  BY <1>1, Bounds DEF Init, SpoolTypes, Spool!Init
<1>4. ConnTypes
  BY Bounds DEF Init, ConnTypes
<1>5. NetTypes
  BY <1>1, Bounds DEF Init, NetTypes
<1>6. HubTypes
  BY Bounds DEF Init, HubTypes
<1> QED
  BY <1>2, <1>3, <1>4, <1>5, <1>6 DEF TypeOK

(* The spool keeps its bound whoever pushes.                               *)
LEMMA PushTypes ==
  ASSUME SpoolTypes, NEW m \in Metrics, Spool!Push(m)
  PROVE  SpoolTypes'
<1>1. /\ spool \in Seq(Metrics) /\ Len(spool) <= SpoolCap /\ Len(spool) \in Nat
      /\ dropped \in Nat /\ SpoolCap \in Nat \ {0}
  BY Bounds, LenProperties DEF SpoolTypes
<1>2. CASE Spool!Full
  <2>1. Len(spool) = SpoolCap /\ spool' = Append(Tail(spool), m) /\ dropped' = dropped + 1
    BY <1>2 DEF Spool!Push, Spool!Full
  <2>2. spool # <<>>
    BY <1>1, <2>1, EmptySeq
  <2>3. Tail(spool) \in Seq(Metrics) /\ Len(Tail(spool)) = Len(spool) - 1
    BY <1>1, <2>2, TailSeq
  <2>4. spool' \in Seq(Metrics) /\ Len(spool') = Len(Tail(spool)) + 1
    BY <2>1, <2>3, AppendSeq
  <2> QED
    BY <1>1, <2>1, <2>3, <2>4 DEF SpoolTypes, Spool!Push
<1>3. CASE ~Spool!Full
  <2>1. Len(spool) # SpoolCap /\ spool' = Append(spool, m) /\ dropped' = dropped
    BY <1>3 DEF Spool!Push, Spool!Full
  <2>2. spool' \in Seq(Metrics) /\ Len(spool') = Len(spool) + 1
    BY <1>1, <2>1, AppendSeq
  <2> QED
    BY <1>1, <2>1, <2>2 DEF SpoolTypes, Spool!Push
<1> QED
  BY <1>2, <1>3

LEMMA TakeOut ==
  ASSUME AgentTypes, NEW m \in held
  PROVE  held \ {m} \subseteq Metrics /\ Cardinality(held \ {m}) <= Probers
<1>1. IsFiniteSet(held) /\ held \subseteq Metrics /\ Cardinality(held) <= Probers
  BY MetricsFinite, FS_Subset DEF AgentTypes
<1>2. Cardinality(held) \in Nat /\ Cardinality(held \ {m}) = Cardinality(held) - 1
  BY <1>1, FS_CardinalityType, FS_RemoveElement
<1> QED
  BY <1>1, <1>2, Bounds

(* A frame put at the end of a queue or a wire, taken from its head, cut.  *)
LEMMA AppendTo ==
  ASSUME NEW q \in [Conns -> Seq(Frame)], NEW c \in Conns, NEW f \in Frame
  PROVE  /\ [q EXCEPT ![c] = Append(@, f)] \in [Conns -> Seq(Frame)]
         /\ Len([q EXCEPT ![c] = Append(@, f)][c]) = Len(q[c]) + 1 /\ Len(q[c]) \in Nat
  BY AppendSeq

LEMMA TailOf ==
  ASSUME NEW q \in [Conns -> Seq(Frame)], NEW c \in Conns, q[c] # <<>>
  PROVE  /\ [q EXCEPT ![c] = Tail(@)] \in [Conns -> Seq(Frame)] /\ Head(q[c]) \in Frame
         /\ Len([q EXCEPT ![c] = Tail(@)][c]) = Len(q[c]) - 1 /\ Len(q[c]) \in Nat
<1>1. /\ Tail(q[c]) \in Seq(Frame) /\ Head(q[c]) \in Frame
      /\ Len(Tail(q[c])) = Len(q[c]) - 1 /\ Len(q[c]) \in Nat
  BY TailSeq
<1> QED
  BY <1>1

(* The Send of flush(): on the peer flush() read before.                   *)
LEMMA SendQueuedTo ==
  ASSUME TypeOK, SendQueued
  PROVE  /\ batch \in Seq(Metrics) /\ sendq \in [Conns -> Seq(Frame)]
         /\ flushPeer \in Conns /\ flushPeer # 0
<1>1. /\ flushPeer \in 0 .. conn /\ conn \in 0 .. MaxConns
      /\ loopPc = "sending" => flushPeer # 0
      /\ batch \in Seq(Metrics) /\ sendq \in [Conns -> Seq(Frame)]
  BY DEF TypeOK, AgentTypes, ConnTypes, NetTypes
<1>2. flushPeer # 0
  BY <1>1 DEF SendQueued
<1> QED
  BY <1>1, <1>2, Bounds DEF Conns

LEMMA BatchFrame ==
  ASSUME NEW ms \in Seq(Metrics), NEW r \in BOOLEAN
  PROVE  Telemetry(ms, r) \in Frame /\ Telemetry(ms, r).metrics = ms
         /\ Telemetry(ms, r).kind = "TELEMETRY" /\ Telemetry(ms, r).replay = r
  BY DEF Telemetry, Frame

LEMMA FrameFields ==
  ASSUME NEW f \in Frame
  PROVE  /\ f.metrics \in Seq(Metrics) /\ f.replay \in BOOLEAN
         /\ f.kind \in {"REGISTER", "TELEMETRY"}
         /\ f.kind = "REGISTER" => f.metrics = <<>>
<1>1. CASE f = Register
  <2>1. <<>> \in Seq(Metrics)
    BY EmptySeq
  <2>2. f.kind = "REGISTER" /\ f.metrics = <<>> /\ f.replay = FALSE
    BY <1>1 DEF Register
  <2> QED
    BY <2>1, <2>2
<1>2. CASE f # Register
  BY <1>2 DEF Frame
<1> QED
  BY <1>1, <1>2

LEMMA FrameNumbers ==
  ASSUME NEW f \in Frame
  PROVE  Elems(f.metrics) \subseteq Metrics /\ Seqs(Elems(f.metrics)) \in SUBSET (1 .. MaxSeq)
<1>1. f.metrics \in Seq(Metrics)
  BY FrameFields
<1>2. Elems(f.metrics) \subseteq Metrics
  BY <1>1, LenProperties DEF Elems
<1> QED
  BY <1>2 DEF Seqs, Metrics

LEMMA TypesStep == TypeOK /\ [Next]_vars => TypeOK'
<1> SUFFICES ASSUME TypeOK, [Next]_vars PROVE TypeOK'
  OBVIOUS
<1>t. AgentTypes /\ SpoolTypes /\ ConnTypes /\ NetTypes /\ HubTypes
  BY DEF TypeOK
<1>e. <<>> \in Seq(Metrics) /\ Len(<<>>) = 0
  BY EmptySeq
<1> USE DEF agentVars, spoolVars, connVars, netVars, hubVars
<1>a. ASSUME UNCHANGED <<agentVars, conn>> PROVE AgentTypes'
  BY <1>t, <1>a DEF AgentTypes, Metrics
<1>s. ASSUME UNCHANGED spoolVars PROVE SpoolTypes'
  BY <1>t, <1>s DEF SpoolTypes
<1>c. ASSUME UNCHANGED connVars PROVE ConnTypes'
  BY <1>t, <1>c DEF ConnTypes
<1>n. ASSUME UNCHANGED netVars PROVE NetTypes'
  BY <1>t, <1>n DEF NetTypes
<1>h. ASSUME UNCHANGED hubVars PROVE HubTypes'
  BY <1>t, <1>h DEF HubTypes
<1>1. CASE Stamp
  <2>1. seq[inc] + 1 \in 1 .. MaxSeq /\ inc \in 0 .. MaxRestarts
    BY <1>1, <1>t, StampFits DEF Stamp, AgentTypes
  <2>a. <<inc, seq[inc] + 1>> \in Metrics
    BY <2>1 DEF Metrics
  <2>b. seq' = [seq EXCEPT ![inc] = seq[inc] + 1] /\ seq[inc] + 1 \in 0 .. MaxSeq
    BY <1>1, <2>1, Bounds DEF Stamp
  <2>2. <<inc, seq[inc] + 1>> \in Metrics /\ seq' \in [0 .. MaxRestarts -> 0 .. MaxSeq]
    BY <1>t, <2>a, <2>b DEF AgentTypes
  <2>3. IsFiniteSet(held) /\ Cardinality(held) \in Nat /\ Cardinality(held) < Probers
    BY <1>1, <1>t, MetricsFinite, FS_Subset, FS_CardinalityType DEF Stamp, AgentTypes
  <2> DEFINE e == <<inc, seq[inc] + 1>>
  <2>4. Cardinality(held') <= Probers
    <3>1. held' = held \cup {e}
      BY <1>1 DEF Stamp
    <3> HIDE DEF e
    <3>2. Cardinality(held \cup {e}) \in {Cardinality(held), Cardinality(held) + 1}
      BY <2>3, FS_AddElement
    <3> QED
      BY <2>3, <3>1, <3>2, Bounds
  <2>5. AgentTypes'
    BY <1>1, <1>t, <2>2, <2>4 DEF Stamp, AgentTypes
  <2> QED
    BY <1>1, <1>s, <1>c, <1>n, <1>h, <2>5 DEF Stamp, TypeOK
<1>2. ASSUME NEW m \in Metrics, Submit(m) PROVE TypeOK'
  <2>1. held' \subseteq Metrics /\ Cardinality(held') <= Probers
    BY <1>2, <1>t, TakeOut DEF Submit
  <2>2. intake' \in Seq(Metrics) /\ Len(intake') <= IntakeCap
    <3>1. CASE Len(intake) < IntakeCap
      <4>1. intake' = Append(intake, m) /\ intake \in Seq(Metrics)
        BY <1>2, <1>t, <3>1 DEF Submit, AgentTypes
      <4>2. intake' \in Seq(Metrics) /\ Len(intake') = Len(intake) + 1 /\ Len(intake) \in Nat
        BY <4>1, AppendSeq
      <4> QED
        BY <3>1, <4>2, Bounds
    <3>2. CASE ~ (Len(intake) < IntakeCap)
      BY <1>2, <1>t, <3>2 DEF Submit, AgentTypes
    <3> QED
      BY <3>1, <3>2
  <2>3. AgentTypes'
    BY <1>2, <1>t, <2>1, <2>2 DEF Submit, AgentTypes
  <2>4. SpoolTypes'
    BY <1>2, <1>t, <1>s, PushTypes DEF Submit
  <2> QED
    BY <1>2, <1>c, <1>n, <1>h, <2>3, <2>4 DEF Submit, TypeOK
<1>3. CASE LoopTake
  <2>1. /\ Head(intake) \in Metrics /\ intake' \in Seq(Metrics) /\ Len(intake') <= IntakeCap
    BY <1>3, <1>t, TailSeq, Bounds DEF LoopTake, AgentTypes
  <2>2. batch' \in Seq(Metrics) /\ Len(batch') <= MaxBatch /\ batch' # <<>>
    <3> DEFINE m == Head(intake)
    <3>1. m \in Metrics /\ batch \in Seq(Metrics) /\ batch' = Append(batch, m)
          /\ Len(batch) < MaxBatch
      BY <1>3, <1>t, <2>1 DEF LoopTake, AgentTypes
    <3> HIDE DEF m
    <3>2. /\ batch' \in Seq(Metrics) /\ batch' # <<>>
          /\ Len(batch') = Len(batch) + 1 /\ Len(batch) \in Nat
      BY <3>1, AppendSeq
    <3> QED
      BY <3>1, <3>2, Bounds
  <2>3. AgentTypes'
    BY <1>3, <1>t, <2>1, <2>2 DEF LoopTake, AgentTypes
  <2> QED
    BY <1>3, <1>s, <1>c, <1>n, <1>h, <2>3 DEF LoopTake, TypeOK
<1>4. CASE FlushBegin
  <2>1. peer \in 0 .. conn
    BY <1>t, Bounds DEF ConnTypes
  <2>2. AgentTypes'
    BY <1>4, <1>t, <2>1 DEF FlushBegin, AgentTypes
  <2> QED
    BY <1>4, <1>s, <1>c, <1>n, <1>h, <2>2 DEF FlushBegin, TypeOK
<1>5. CASE FlushPush
  <2>1. batch \in Seq(Metrics) /\ batch # <<>> /\ Len(batch) <= MaxBatch
    BY <1>5, <1>t DEF FlushPush, AgentTypes
  <2>2. /\ Head(batch) \in Metrics /\ batch' \in Seq(Metrics) /\ Len(batch') = Len(batch) - 1
        /\ Len(batch) \in Nat \ {0}
    BY <1>5, <2>1, TailSeq DEF FlushPush
  <2>3. Len(batch) # 1 => batch' # <<>>
    BY <1>e, <2>2
  <2>f. flushPeer \in 0 .. conn /\ 0 \in 0 .. conn /\ flushPeer' \in {flushPeer, 0}
    BY <1>5, <1>t, Bounds DEF FlushPush, AgentTypes, ConnTypes
  <2>4. flushPeer' \in 0 .. conn /\ loopPc' \in {"select", "spooling"}
    BY <1>5, <1>t, <2>f DEF FlushPush
  <2>5. loopPc' = "spooling" => batch' # <<>>
    BY <1>5, <2>3 DEF FlushPush
  <2>6. Len(batch') <= MaxBatch
    BY <2>1, <2>2, Bounds
  <2>7. AgentTypes'
    BY <1>5, <1>t, <2>2, <2>4, <2>5, <2>6 DEF FlushPush, AgentTypes
  <2>8. SpoolTypes'
    BY <1>5, <1>t, <2>2, PushTypes DEF FlushPush
  <2> QED
    BY <1>5, <1>c, <1>n, <1>h, <2>7, <2>8 DEF FlushPush, TypeOK
<1>6. CASE SendQueued
  <2>1. flushPeer \in Conns
    BY <1>6, <1>t, Bounds DEF SendQueued, AgentTypes, ConnTypes, Conns
  <2>2. Telemetry(batch, FALSE) \in Frame
    BY <1>t, BatchFrame DEF AgentTypes
  <2>3. /\ sendq' \in [Conns -> Seq(Frame)]
        /\ Len(sendq'[flushPeer]) = Len(sendq[flushPeer]) + 1 /\ Len(sendq[flushPeer]) \in Nat
        /\ \A c \in Conns : c # flushPeer => sendq'[c] = sendq[c]
    BY <1>6, <1>t, <2>1, <2>2, AppendTo DEF SendQueued, NetTypes
  <2>4. \A c \in Conns : Len(sendq'[c]) <= SendCap
    BY <1>6, <1>t, <2>1, <2>3, Bounds DEF SendQueued, NetTypes
  <2>5. NetTypes'
    BY <1>6, <1>t, <2>3, <2>4 DEF SendQueued, NetTypes
  <2>6. 0 \in 0 .. conn' /\ conn' = conn
    BY <1>6, <1>t, Bounds DEF SendQueued, ConnTypes
  <2>7. AgentTypes'
    BY <1>6, <1>t, <1>e, <2>6, Bounds DEF SendQueued, AgentTypes
  <2> QED
    BY <1>6, <1>s, <1>c, <1>h, <2>5, <2>7 DEF SendQueued, TypeOK
<1>7. CASE SendFailed
  <2>1. AgentTypes'
    BY <1>7, <1>t DEF SendFailed, AgentTypes
  <2> QED
    BY <1>7, <1>s, <1>c, <1>n, <1>h, <2>1 DEF SendFailed, TypeOK
<1>8. CASE Connect
  <2>1. /\ conn' = conn + 1 /\ conn' \in 0 .. MaxConns /\ conn \in Nat /\ conn' > 0
        /\ peer' = peer /\ peer = 0
    BY <1>8, <1>t, Bounds DEF Connect, ConnTypes
  <2>2. ConnTypes'
    BY <1>8, <2>1 DEF Connect, ConnTypes
  <2>3. flushPeer \in 0 .. conn'
    BY <1>t, <2>1 DEF AgentTypes
  <2>4. AgentTypes'
    BY <1>8, <1>t, <2>3 DEF Connect, AgentTypes
  <2>5. SpoolTypes'
    BY <1>8, <1>t, <1>e, Bounds DEF Connect, SpoolTypes, Spool!Drain
  <2>6. NetTypes'
    BY <1>8, <1>t DEF Connect, NetTypes
  <2> QED
    BY <1>8, <1>h, <2>2, <2>4, <2>5, <2>6 DEF Connect, TypeOK
<1>9. CASE Publish
  <2> DEFINE fs == <<Register>> \o Replay(drained)
  <2>1. fs \in Seq(Frame) /\ Len(fs) <= SendCap
    BY <1>t, PublishedFrames DEF SpoolTypes
  <2>2. sendq' = [sendq EXCEPT ![conn] = fs]
    BY <1>9 DEF Publish
  <2> HIDE DEF fs
  <2>3. /\ sendq' \in [Conns -> Seq(Frame)]
        /\ \A c \in Conns : sendq'[c] \in {sendq[c], fs}
    BY <1>t, <2>1, <2>2 DEF NetTypes
  <2>4. NetTypes'
    BY <1>9, <1>t, <2>1, <2>3 DEF Publish, NetTypes
  <2>5. SpoolTypes'
    BY <1>9, <1>t, <1>e, Bounds DEF Publish, SpoolTypes
  <2>6. ConnTypes'
    BY <1>9, <1>t DEF Publish, ConnTypes
  <2> QED
    BY <1>9, <1>a, <1>h, <2>4, <2>5, <2>6 DEF Publish, TypeOK
<1>10. CASE WriteFrame
  <2>1. conn \in Conns
    BY <1>10, <1>t, Bounds DEF WriteFrame, ConnTypes, Conns
  <2>2. /\ sendq' \in [Conns -> Seq(Frame)] /\ Head(sendq[conn]) \in Frame
        /\ Len(sendq'[conn]) = Len(sendq[conn]) - 1 /\ Len(sendq[conn]) \in Nat
        /\ \A c \in Conns : c # conn => sendq'[c] = sendq[c]
    BY <1>10, <1>t, <2>1, TailOf DEF WriteFrame, NetTypes
  <2>3. wire' \in [Conns -> Seq(Frame)]
    BY <1>10, <1>t, <2>1, <2>2, AppendTo DEF WriteFrame, NetTypes
  <2>4. ASSUME NEW c \in Conns PROVE Len(sendq'[c]) <= SendCap
    <3>1. Len(sendq[c]) <= SendCap
      BY <1>t DEF NetTypes
    <3>2. CASE c = conn
      BY <2>2, <3>1, <3>2, Bounds
    <3>3. CASE c # conn
      BY <2>2, <3>1, <3>3
    <3> QED
      BY <3>2, <3>3
  <2>5. NetTypes'
    BY <1>10, <1>t, <2>2, <2>3, <2>4 DEF WriteFrame, NetTypes
  <2> QED
    BY <1>10, <1>a, <1>s, <1>c, <1>h, <2>5 DEF WriteFrame, TypeOK
<1>11. CASE Shutdown
  <2>1. NetTypes'
    BY <1>11, <1>t DEF Shutdown, NetTypes
  <2> QED
    BY <1>11, <1>a, <1>s, <1>c, <1>h, <2>1 DEF Shutdown, TypeOK
<1>12. CASE EndServe
  <2>1. NetTypes'
    BY <1>12, <1>t DEF EndServe, NetTypes
  <2>2. ConnTypes'
    BY <1>12, <1>t DEF EndServe, ConnTypes
  <2> QED
    BY <1>12, <1>a, <1>s, <1>h, <2>1, <2>2 DEF EndServe, TypeOK
<1>13. ASSUME NEW c \in Conns, Cut(c) PROVE TypeOK'
  <2>1. PICK k \in 0 .. Len(wire[c]) : wire' = [wire EXCEPT ![c] = SubSeq(@, 1, k)]
    BY <1>13 DEF Cut
  <2>2. SubSeq(wire[c], 1, k) \in Seq(Frame)
    BY <1>t, PrefixSeq DEF NetTypes
  <2>3. wire' \in [Conns -> Seq(Frame)]
    BY <1>t, <2>1, <2>2 DEF NetTypes
  <2>4. NetTypes'
    BY <1>13, <1>t, <2>3 DEF Cut, NetTypes
  <2> QED
    BY <1>13, <1>a, <1>s, <1>c, <1>h, <2>4 DEF Cut, TypeOK
<1>14. ASSUME NEW c \in Conns, HubRegister(c) PROVE TypeOK'
  <2>1. wire' \in [Conns -> Seq(Frame)]
    BY <1>14, <1>t, TailOf DEF HubRegister, NetTypes
  <2>2. NetTypes'
    BY <1>14, <1>t, <2>1 DEF HubRegister, NetTypes
  <2>3. HubTypes'
    BY <1>14, <1>t DEF HubRegister, HubTypes
  <2> QED
    BY <1>14, <1>a, <1>s, <1>c, <2>2, <2>3 DEF HubRegister, TypeOK
<1>15. ASSUME NEW c \in Conns, HubTelemetry(c) PROVE TypeOK'
  <2>1. wire' \in [Conns -> Seq(Frame)] /\ Head(wire[c]) \in Frame
    BY <1>15, <1>t, TailOf DEF HubTelemetry, NetTypes
  <2>2. NetTypes'
    BY <1>15, <1>t, <2>1 DEF HubTelemetry, NetTypes
  <2> DEFINE f == Head(wire[c])
             ns == Seqs(Elems(f.metrics))
  <2>3. Elems(f.metrics) \subseteq Metrics /\ ns \in SUBSET (1 .. MaxSeq)
    BY <2>1, FrameNumbers
  <2>4. lastSeq \in 0 .. MaxSeq /\ MaxSeq \in Nat /\ f.replay \in BOOLEAN
    BY <1>t, <2>1, FrameFields, Bounds DEF HubTypes
  <2>5. NewMark(lastSeq, ns) \in 0 .. MaxSeq
    BY <2>3, <2>4, MarkRises
  <2>6. Missed(lastSeq, ns, f.replay) \subseteq 1 .. MaxSeq
    BY <2>3, <2>4, MissedIsBetween
  <2>7. \/ UNCHANGED <<received, reported, lastSeq>>
        \/ /\ received' = received \cup Elems(f.metrics)
           /\ reported' = reported \cup Missed(lastSeq, ns, f.replay)
           /\ lastSeq' = NewMark(lastSeq, ns)
    BY <1>15 DEF HubTelemetry
  <2> HIDE DEF f, ns
  <2>8. HubTypes'
    BY <1>15, <1>t, <2>3, <2>5, <2>6, <2>7 DEF HubTelemetry, HubTypes, Metrics
  <2> QED
    BY <1>15, <1>a, <1>s, <1>c, <2>2, <2>8 DEF HubTelemetry, TypeOK
<1>16. CASE Restart
  <2>1. inc' \in 0 .. MaxRestarts /\ seq' = seq /\ conn' = conn /\ conn \in Nat
    BY <1>16, <1>t, Bounds DEF Restart, AgentTypes, ConnTypes
  <2>2. Cardinality(held') <= Probers /\ held' = {}
    BY <1>16, FS_EmptySet, Bounds DEF Restart
  <2>3. AgentTypes'
    BY <1>16, <1>t, <1>e, <2>1, <2>2, Bounds DEF Restart, AgentTypes
  <2>4. SpoolTypes'
    BY <1>16, <1>e, Bounds DEF Restart, SpoolTypes
  <2>5. ConnTypes'
    BY <1>16, <1>t DEF Restart, ConnTypes
  <2>6. NetTypes'
    BY <1>16, <1>t DEF Restart, NetTypes
  <2> QED
    BY <1>16, <1>h, <2>3, <2>4, <2>5, <2>6 DEF Restart, TypeOK
<1>17. CASE UNCHANGED vars
  BY <1>17, <1>a, <1>s, <1>c, <1>n, <1>h DEF vars, TypeOK
<1> QED
  BY <1>1, <1>2, <1>3, <1>4, <1>5, <1>6, <1>7, <1>8, <1>9, <1>10, <1>11, <1>12, <1>13,
     <1>14, <1>15, <1>16, <1>17 DEF Next

LEMMA TypesInvariant == Spec => []TypeOK
  BY TypesInit, TypesStep, PTL DEF Spec

-----------------------------------------------------------------------------
(* The hub's watermark.  What a step may do to it.                         *)
Account(f) ==
  LET ms == Elems(f.metrics)
  IN /\ received' = received \cup ms
     /\ reported' = reported \cup Missed(lastSeq, Seqs(ms), f.replay)
     /\ lastSeq' = NewMark(lastSeq, Seqs(ms))

LEMMA HubMoves ==
  TypeOK /\ [Next]_vars =>
    UNCHANGED <<lastSeq, received, reported>> \/ \E f \in Frame : Account(f)
<1> SUFFICES ASSUME TypeOK, [Next]_vars
             PROVE  UNCHANGED <<lastSeq, received, reported>> \/ \E f \in Frame : Account(f)
  OBVIOUS
<1>1. ASSUME NEW c \in Conns, HubTelemetry(c)
      PROVE  UNCHANGED <<lastSeq, received, reported>> \/ \E f \in Frame : Account(f)
  <2>1. Head(wire[c]) \in Frame
    BY <1>1, TailOf DEF HubTelemetry, TypeOK, NetTypes
  <2>2. UNCHANGED <<lastSeq, received, reported>> \/ Account(Head(wire[c]))
    BY <1>1 DEF HubTelemetry, Account
  <2> QED
    BY <2>1, <2>2
<1>2. CASE ~ \E c \in Conns : HubTelemetry(c)
  BY <1>2 DEF Next, Stamp, Submit, LoopTake, FlushBegin, FlushPush, SendQueued, SendFailed,
              Connect, Publish, WriteFrame, Shutdown, EndServe, Cut, HubRegister, Restart,
              hubVars, vars
<1> QED
  BY <1>1, <1>2

(* The mark is the largest number received, or 0 before the first.         *)
Mark ==
  /\ lastSeq \in Seqs(received) \cup {0}
  /\ \A x \in Seqs(received) : x <= lastSeq
  /\ \A n \in reported : n < lastSeq

LEMMA AccountedFor ==
  ASSUME TypeOK, Mark, NEW f \in Frame, Account(f)
  PROVE  /\ Mark'
         /\ \A n \in reported' \ reported : n > lastSeq /\ n \notin Seqs(received')
<1> DEFINE ns == Seqs(Elems(f.metrics))
<1>1. /\ ns \in SUBSET (1 .. MaxSeq) /\ MaxSeq \in Nat /\ lastSeq \in 0 .. MaxSeq
      /\ f.replay \in BOOLEAN
  BY FrameNumbers, FrameFields, Bounds DEF TypeOK, HubTypes
<1>2. /\ NewMark(lastSeq, ns) \in 0 .. MaxSeq /\ lastSeq <= NewMark(lastSeq, ns)
      /\ NewMark(lastSeq, ns) \in ns \cup {lastSeq}
      /\ \A x \in ns : x <= NewMark(lastSeq, ns)
  BY <1>1, MarkRises
<1>3. \A n \in Missed(lastSeq, ns, f.replay) :
        n \in 1 .. MaxSeq /\ lastSeq < n /\ n < NewMark(lastSeq, ns) /\ n \notin ns
  <2> DEFINE r == f.replay
  <2> HIDE DEF ns, r
  <2>1. r \in BOOLEAN
    BY <1>1 DEF r
  <2>2. \A n \in Missed(lastSeq, ns, r) :
          n \in 1 .. MaxSeq /\ lastSeq < n /\ n < NewMark(lastSeq, ns) /\ n \notin ns
    BY <1>1, <2>1, MissedIsBetween
  <2> QED
    BY <2>2 DEF r
<1>4. Seqs(received') = Seqs(received) \cup ns
  BY DEF Account, Seqs
<1>5. /\ lastSeq' = NewMark(lastSeq, ns)
      /\ reported' = reported \cup Missed(lastSeq, ns, f.replay)
  BY DEF Account
<1>6. reported \subseteq 1 .. MaxSeq /\ Seqs(received) \subseteq 1 .. MaxSeq
  BY DEF TypeOK, HubTypes, Seqs, Metrics
<1> HIDE DEF ns
<1>7. Mark'
  BY <1>1, <1>2, <1>3, <1>4, <1>5, <1>6 DEF Mark
<1>8. \A n \in reported' \ reported : n > lastSeq /\ n \notin Seqs(received')
  BY <1>1, <1>3, <1>4, <1>5, <1>6 DEF Mark
<1> QED
  BY <1>7, <1>8

LEMMA MarkStep == TypeOK /\ Mark /\ [Next]_vars => Mark'
<1>1. ASSUME Mark, UNCHANGED <<lastSeq, received, reported>> PROVE Mark'
  BY <1>1 DEF Mark, Seqs
<1> QED
  BY <1>1, HubMoves, AccountedFor

LEMMA MarkIsMax ==
  ASSUME TypeOK, Mark
  PROVE  WatermarkIsHighest
<1>1. Seqs(received) \subseteq 1 .. MaxSeq /\ MaxSeq \in Nat
  BY Bounds DEF TypeOK, HubTypes, Seqs, Metrics
<1>2. CASE received = {}
  BY <1>2 DEF Mark, Seqs, WatermarkIsHighest
<1>3. CASE received # {}
  <2>1. PICK x \in Seqs(received) : TRUE
    BY <1>3 DEF Seqs
  <2>2. lastSeq \in Seqs(received)
    BY <1>1, <2>1 DEF Mark
  <2>3. Seqs(received) \in SUBSET (0 .. MaxSeq) /\ Seqs(received) # {}
    BY <1>1, <2>1
  <2>4. /\ MaxOf(Seqs(received)) \in Seqs(received)
        /\ \A y \in Seqs(received) : y <= MaxOf(Seqs(received))
    BY <1>1, <2>3, MaxOfSet
  <2>5. MaxOf(Seqs(received)) = lastSeq
    BY <1>1, <2>2, <2>4 DEF Mark
  <2> QED
    BY <1>3, <2>5 DEF Mark, WatermarkIsHighest
<1> QED
  BY <1>2, <1>3

LEMMA MarkInvariant == Spec => [](TypeOK /\ Mark)
<1>1. Init => Mark
  BY DEF Init, Mark, Seqs
<1> QED
  BY <1>1, TypesInit, TypesStep, MarkStep, PTL DEF Spec

(* The telemetry path's variables keep their types and no buffer outgrows  *)
(* its capacity; in particular REGISTER and the whole spool fit into the   *)
(* queue connectOnce fills before anybody empties it.                      *)
THEOREM TelemetryTypes == Spec => []TypeOK
  BY TypesInvariant

(* hub.go handleTelemetry: the watermark is the highest number received,   *)
(* whatever order batches arrive in, and every gap reported lies below it. *)
THEOREM HighestNumberWins == Spec => []WatermarkIsHighest
  BY MarkInvariant, MarkIsMax, PTL

(* A gap report names numbers above everything received so far.            *)
THEOREM GapReportsAreNews == Spec => ReportsAreNews
<1>1. TypeOK /\ Mark /\ [Next]_vars =>
        [\A n \in reported' \ reported :
           /\ n > lastSeq
           /\ n \notin Seqs(received')]_vars
  <2> SUFFICES ASSUME TypeOK, Mark, [Next]_vars,
                      NEW n \in reported' \ reported
               PROVE  n > lastSeq /\ n \notin Seqs(received')
    OBVIOUS
  <2> QED
    BY HubMoves, AccountedFor
<1> QED
  BY <1>1, MarkInvariant, PTL DEF Spec, ReportsAreNews

-----------------------------------------------------------------------------
(* Where the metrics are.                                                  *)
Loc(name) == <<name, 0>>
Wire(c) == <<"wire", c>>

LEMMA Places ==
  /\ \A n \in {"held", "intake", "batch", "spool", "drained", "queue", "received"} :
       Loc(n) \in Place
  /\ \A c \in Conns : Wire(c) \in Place
  /\ \A p \in Place :
       \/ p \in {Loc("held"), Loc("intake"), Loc("batch"), Loc("spool"), Loc("drained"),
                 Loc("queue"), Loc("received")}
       \/ \E c \in Conns : p = Wire(c)
  BY DEF Place, Loc, Wire

LEMMA AtPlaces ==
  /\ At(Loc("held")) = held
  /\ At(Loc("intake")) = Elems(intake)
  /\ At(Loc("batch")) = Elems(batch)
  /\ At(Loc("spool")) = Elems(spool)
  /\ At(Loc("drained")) = Elems(drained)
  /\ At(Loc("queue")) = MetricsIn(Queued)
  /\ At(Loc("received")) = received
  /\ \A c \in Conns : At(Wire(c)) = MetricsIn(wire[c])
  BY DEF At, Loc, Wire

LEMMA AtPlacesNext ==
  /\ At(Loc("held"))' = held'
  /\ At(Loc("intake"))' = Elems(intake')
  /\ At(Loc("batch"))' = Elems(batch')
  /\ At(Loc("spool"))' = Elems(spool')
  /\ At(Loc("drained"))' = Elems(drained')
  /\ At(Loc("queue"))' = MetricsIn(Queued')
  /\ At(Loc("received"))' = received'
  /\ \A c \in Conns : At(Wire(c))' = MetricsIn(wire'[c])
  BY DEF At, Loc, Wire, Elems, MetricsIn

LEMMA PresentIsUnion == Present = UNION {At(p) : p \in Place}
  BY Places, AtPlaces DEF Present, InLoop, InSpool, InFlight

LEMMA PresentIsUnionNext == Present' = UNION {At(p)' : p \in Place}
  BY Places, AtPlacesNext DEF Present, InLoop, InSpool, InFlight, Elems, MetricsIn

(* What a step takes out of one place and may put into another stays       *)
(* apart from the rest.                                                    *)
LEMMA MoveKeepsApart ==
  ASSUME Apart, Present \subseteq Stamped, UNCHANGED seq,
         NEW src \in Place, NEW dst \in Place, NEW M, M \subseteq At(src),
         \A p \in Place : At(p)' \subseteq
                            IF p = src THEN At(p) \ M
                            ELSE IF p = dst THEN At(p) \cup M ELSE At(p)
  PROVE  Apart' /\ Present' \subseteq Stamped'
<1>1. \A p, q \in Place : p # q => At(p)' \cap At(q)' = {}
  BY DEF Apart
<1>2. Present' \subseteq Present
  BY PresentIsUnion, PresentIsUnionNext
<1>3. Stamped' = Stamped
  BY DEF Stamped
<1> QED
  BY <1>1, <1>2, <1>3 DEF Apart

(* What the steps do to a sequence of frames.                              *)
LEMMA AppendFrame ==
  ASSUME NEW fs \in Seq(Frame), NEW f \in Frame
  PROVE  /\ MetricsIn(Append(fs, f)) = MetricsIn(fs) \cup Elems(f.metrics)
         /\ DistinctIn(fs) /\ Distinct(f.metrics) /\ Elems(f.metrics) \cap MetricsIn(fs) = {}
              => DistinctIn(Append(fs, f))
<1> DEFINE t == Append(fs, f)
           n == Len(fs) + 1
<1>1. /\ t \in Seq(Frame) /\ Len(t) = n /\ Len(fs) \in Nat
      /\ \A i \in 1 .. Len(fs) : t[i] = fs[i]
      /\ t[n] = f
  BY AppendProperties, LenProperties
<1>2. /\ DOMAIN fs = 1 .. Len(fs) /\ DOMAIN t = DOMAIN fs \cup {n} /\ n \notin DOMAIN fs
      /\ n \in DOMAIN t
  BY <1>1, LenProperties
<1>3. \A i \in DOMAIN fs : t[i] = fs[i]
  BY <1>1, <1>2
<1>t. t[n] = f
  BY <1>1
<1> HIDE DEF t, n
<1>4. MetricsIn(t) = MetricsIn(fs) \cup Elems(f.metrics)
  BY <1>2, <1>3, <1>t DEF MetricsIn
<1>5. ASSUME DistinctIn(fs), Distinct(f.metrics), Elems(f.metrics) \cap MetricsIn(fs) = {}
      PROVE  DistinctIn(t)
  <2>1. \A i \in DOMAIN t : Distinct(t[i].metrics)
    BY <1>2, <1>3, <1>t, <1>5 DEF DistinctIn
  <2>2. \A i \in DOMAIN fs : Elems(fs[i].metrics) \subseteq MetricsIn(fs)
    BY DEF MetricsIn
  <2>3. ASSUME NEW i \in DOMAIN t, NEW j \in DOMAIN t, i # j
        PROVE  Elems(t[i].metrics) \cap Elems(t[j].metrics) = {}
    <3>1. CASE i = n
      BY <1>2, <1>3, <1>t, <1>5, <2>2, <2>3, <3>1
    <3>2. CASE j = n
      BY <1>2, <1>3, <1>t, <1>5, <2>2, <2>3, <3>2
    <3>3. CASE i # n /\ j # n
      BY <1>2, <1>3, <1>5, <2>3, <3>3 DEF DistinctIn
    <3> QED
      BY <3>1, <3>2, <3>3
  <2> QED
    BY <2>1, <2>3 DEF DistinctIn
<1> QED
  BY <1>4, <1>5 DEF t

LEMMA TailFrame ==
  ASSUME NEW fs \in Seq(Frame), fs # <<>>
  PROVE  /\ MetricsIn(fs) = Elems(Head(fs).metrics) \cup MetricsIn(Tail(fs))
         /\ DistinctIn(fs) => /\ DistinctIn(Tail(fs)) /\ Distinct(Head(fs).metrics)
                              /\ Elems(Head(fs).metrics) \cap MetricsIn(Tail(fs)) = {}
<1> DEFINE t == Tail(fs)
<1>1. /\ t \in Seq(Frame) /\ Len(t) = Len(fs) - 1 /\ Len(fs) \in Nat \ {0}
      /\ \A i \in 1 .. Len(t) : t[i] = fs[i + 1]
  BY HeadTailProperties, EmptySeq
<1>2. DOMAIN fs = 1 .. Len(fs) /\ DOMAIN t = 1 .. Len(fs) - 1 /\ Head(fs) = fs[1]
  BY <1>1, LenProperties
<1> HIDE DEF t
<1>3. \A i \in DOMAIN t : t[i] = fs[i + 1] /\ i + 1 \in DOMAIN fs /\ i + 1 # 1
  BY <1>1, <1>2
<1>4. \A i \in DOMAIN fs : i = 1 \/ (i - 1 \in DOMAIN t /\ t[i - 1] = fs[i])
  BY <1>1, <1>2
<1>5. 1 \in DOMAIN fs
  BY <1>1, <1>2
<1>6. MetricsIn(fs) = Elems(Head(fs).metrics) \cup MetricsIn(t)
  <2>1. \A i \in DOMAIN fs : Elems(fs[i].metrics) \subseteq Elems(Head(fs).metrics) \cup MetricsIn(t)
    BY <1>2, <1>4 DEF MetricsIn
  <2>2. \A i \in DOMAIN t : Elems(t[i].metrics) \subseteq MetricsIn(fs)
    BY <1>3 DEF MetricsIn
  <2>3. Elems(Head(fs).metrics) \subseteq MetricsIn(fs)
    BY <1>2, <1>5 DEF MetricsIn
  <2> QED
    BY <2>1, <2>2, <2>3 DEF MetricsIn
<1>7. ASSUME DistinctIn(fs)
      PROVE  /\ DistinctIn(t) /\ Distinct(Head(fs).metrics)
             /\ Elems(Head(fs).metrics) \cap MetricsIn(t) = {}
  <2>1. \A i \in DOMAIN t : Distinct(t[i].metrics)
    BY <1>3, <1>7 DEF DistinctIn
  <2>2. ASSUME NEW i \in DOMAIN t, NEW j \in DOMAIN t, i # j
        PROVE  Elems(t[i].metrics) \cap Elems(t[j].metrics) = {}
    <3>1. i + 1 # j + 1
      BY <1>1, <1>2, <2>2
    <3> QED
      BY <1>3, <1>7, <3>1 DEF DistinctIn
  <2>3. Distinct(Head(fs).metrics)
    BY <1>2, <1>5, <1>7 DEF DistinctIn
  <2>4. \A i \in DOMAIN t : Elems(Head(fs).metrics) \cap Elems(t[i].metrics) = {}
    BY <1>2, <1>3, <1>5, <1>7 DEF DistinctIn
  <2>5. Elems(Head(fs).metrics) \cap MetricsIn(t) = {}
    BY <2>4 DEF MetricsIn
  <2> QED
    BY <2>1, <2>2, <2>3, <2>5 DEF DistinctIn
<1> QED
  BY <1>6, <1>7 DEF t

LEMMA PrefixFrame ==
  ASSUME NEW fs \in Seq(Frame), NEW k \in 0 .. Len(fs)
  PROVE  /\ MetricsIn(SubSeq(fs, 1, k)) \subseteq MetricsIn(fs)
         /\ DistinctIn(fs) => DistinctIn(SubSeq(fs, 1, k))
<1> DEFINE t == SubSeq(fs, 1, k)
<1>1. t \in Seq(Frame) /\ Len(t) = k /\ \A i \in 1 .. k : t[i] = fs[i]
  BY PrefixSeq
<1>2. \A i \in DOMAIN t : i \in DOMAIN fs /\ t[i] = fs[i]
  BY <1>1, LenProperties
<1> HIDE DEF t
<1>3. MetricsIn(t) \subseteq MetricsIn(fs)
  BY <1>2 DEF MetricsIn
<1>4. DistinctIn(fs) => DistinctIn(t)
  BY <1>2 DEF DistinctIn
<1> QED
  BY <1>3, <1>4 DEF t

(* Position a of chunk k and position b of chunk l are different positions *)
(* of the spool.                                                           *)
LEMMA ChunkPositions ==
  ASSUME NEW k \in Nat \ {0}, NEW l \in Nat \ {0}, k < l,
         NEW a \in 1 .. MaxBatch, NEW b \in 1 .. MaxBatch
  PROVE  (k - 1) * MaxBatch + a < (l - 1) * MaxBatch + b
<1>1. MaxBatch \in Nat
  BY Bounds
<1>2. k * MaxBatch = (k - 1) * MaxBatch + MaxBatch /\ (k - 1) * MaxBatch \in Nat
  BY <1>1, MulBefore
<1>3. k * MaxBatch <= (l - 1) * MaxBatch /\ (l - 1) * MaxBatch \in Nat
  BY <1>1, MulMono
<1> QED
  BY <1>1, <1>2, <1>3

LEMMA PublishedMetrics ==
  ASSUME NEW ms \in Seq(Metrics), Len(ms) <= SpoolCap
  PROVE  /\ MetricsIn(<<Register>> \o Replay(ms)) \subseteq Elems(ms)
         /\ Distinct(ms) => DistinctIn(<<Register>> \o Replay(ms))
<1> DEFINE r == Replay(ms)
           fs == <<Register>> \o r
<1>1. /\ fs \in Seq(Frame) /\ Len(fs) = 1 + Len(r) /\ fs[1] = Register
      /\ \A i \in 2 .. Len(fs) : fs[i] = r[i - 1]
  BY PublishedFrames
<1>2. /\ r \in Seq(Frame)
      /\ \A k \in 1 .. Len(r) : \A a \in DOMAIN r[k].metrics :
           /\ a \in 1 .. MaxBatch
           /\ (k - 1) * MaxBatch + a \in 1 .. Len(ms)
           /\ r[k].metrics[a] = ms[(k - 1) * MaxBatch + a]
  BY ReplayChunks
<1>3. Len(r) \in Nat /\ DOMAIN fs = 1 .. 1 + Len(r) /\ DOMAIN ms = 1 .. Len(ms)
  BY <1>1, <1>2, LenProperties
<1> HIDE DEF r, fs
<1>4. Elems(fs[1].metrics) = {} /\ Distinct(fs[1].metrics)
  BY <1>1 DEF Register, Elems, Distinct
<1>5. \A i \in DOMAIN fs : i = 1 \/ (i - 1 \in 1 .. Len(r) /\ fs[i] = r[i - 1])
  BY <1>1, <1>3
<1>6. \A k \in 1 .. Len(r) : Elems(r[k].metrics) \subseteq Elems(ms)
  BY <1>2, <1>3 DEF Elems
<1>7. MetricsIn(fs) \subseteq Elems(ms)
  BY <1>4, <1>5, <1>6 DEF MetricsIn
<1>8. ASSUME Distinct(ms) PROVE DistinctIn(fs)
  <2>1. ASSUME NEW k \in 1 .. Len(r) PROVE Distinct(r[k].metrics)
    <3> SUFFICES ASSUME NEW a \in DOMAIN r[k].metrics, NEW b \in DOMAIN r[k].metrics, a # b
                 PROVE  r[k].metrics[a] # r[k].metrics[b]
      BY DEF Distinct
    <3>1. a \in 1 .. MaxBatch /\ b \in 1 .. MaxBatch /\ k \in Nat \ {0}
      BY <1>2, <1>3
    <3>m. a \in Nat /\ b \in Nat
      BY <3>1
    <3>n. (k - 1) * MaxBatch \in Nat
      BY <3>1, Bounds, MulBefore
    <3>2. (k - 1) * MaxBatch + a # (k - 1) * MaxBatch + b
      BY <3>m, <3>n
    <3> QED
      BY <1>2, <1>3, <1>8, <3>2 DEF Distinct
  <2>2. ASSUME NEW k \in 1 .. Len(r), NEW l \in 1 .. Len(r), k < l
        PROVE  Elems(r[k].metrics) \cap Elems(r[l].metrics) = {}
    <3> SUFFICES ASSUME NEW a \in DOMAIN r[k].metrics, NEW b \in DOMAIN r[l].metrics
                 PROVE  r[k].metrics[a] # r[l].metrics[b]
      BY DEF Elems
    <3>a. a \in 1 .. MaxBatch /\ b \in 1 .. MaxBatch
      BY <1>2
    <3>b. k \in Nat \ {0} /\ l \in Nat \ {0}
      BY <1>3
    <3>1. a \in 1 .. MaxBatch /\ b \in 1 .. MaxBatch /\ k \in Nat \ {0} /\ l \in Nat \ {0}
      BY <3>a, <3>b
    <3>2. (k - 1) * MaxBatch + a < (l - 1) * MaxBatch + b
      BY <2>2, <3>1, ChunkPositions
    <3>3. /\ (k - 1) * MaxBatch + a \in 1 .. Len(ms) /\ (l - 1) * MaxBatch + b \in 1 .. Len(ms)
          /\ r[k].metrics[a] = ms[(k - 1) * MaxBatch + a]
          /\ r[l].metrics[b] = ms[(l - 1) * MaxBatch + b]
      BY <1>2
    <3>4. (k - 1) * MaxBatch + a # (l - 1) * MaxBatch + b
      BY <3>2, <3>3
    <3> QED
      BY <1>3, <1>8, <3>3, <3>4 DEF Distinct
  <2>3. ASSUME NEW i \in DOMAIN fs, NEW j \in DOMAIN fs, i < j
        PROVE  Elems(fs[i].metrics) \cap Elems(fs[j].metrics) = {}
    <3>1. CASE i = 1
      BY <1>4, <3>1
    <3>2. CASE i # 1
      <4>1. i - 1 \in 1 .. Len(r) /\ j - 1 \in 1 .. Len(r) /\ i - 1 < j - 1
        BY <1>3, <2>3, <3>2
      <4>2. fs[i] = r[i - 1] /\ fs[j] = r[j - 1]
        BY <1>1, <1>3, <2>3, <3>2
      <4>3. Elems(r[i - 1].metrics) \cap Elems(r[j - 1].metrics) = {}
        BY <2>2, <4>1
      <4> QED
        BY <4>2, <4>3
    <3> QED
      BY <3>1, <3>2
  <2>4. ASSUME NEW i \in DOMAIN fs, NEW j \in DOMAIN fs, i # j
        PROVE  Elems(fs[i].metrics) \cap Elems(fs[j].metrics) = {}
    <3>1. i < j \/ j < i
      BY <1>3, <2>4
    <3>2. CASE i < j
      BY <2>3, <3>2
    <3>3. CASE j < i
      <4>1. Elems(fs[j].metrics) \cap Elems(fs[i].metrics) = {}
        BY <2>3, <3>3
      <4> QED
        BY <4>1
    <3> QED
      BY <3>1, <3>2, <3>3
  <2>5. \A i \in DOMAIN fs : Distinct(fs[i].metrics)
    BY <1>4, <1>5, <2>1
  <2> QED
    BY <2>4, <2>5 DEF DistinctIn
<1> QED
  BY <1>7, <1>8 DEF fs, r

-----------------------------------------------------------------------------
(* No metric is in two places, or twice in one.  What a step that takes M  *)
(* from src and may put it into dst leaves at p, at most.                  *)
Left(p, src, dst, M) ==
  IF p = src THEN At(p) \ M ELSE IF p = dst THEN At(p) \cup M ELSE At(p)

LEMMA MoveKeeps ==
  ASSUME NeverTwice, UNCHANGED seq,
         NEW src \in Place, NEW dst \in Place, NEW M, M \subseteq At(src),
         \A p \in Place : At(p)' \subseteq Left(p, src, dst, M),
         NoRepeats'
  PROVE  NeverTwice'
<1>1. Apart' /\ Present' \subseteq Stamped'
  BY MoveKeepsApart DEF NeverTwice, Left
<1> QED
  BY <1>1 DEF NeverTwice

(* A move between two places that are not wires: what the other places and *)
(* the wires hold does not grow.                                           *)
Locals == {"held", "intake", "batch", "spool", "drained", "queue", "received"}

LEMMA MoveLocal ==
  ASSUME NEW s \in Locals, NEW d \in Locals, NEW M, s # d,
         \A n \in Locals : n # s /\ n # d => At(Loc(n))' \subseteq At(Loc(n)),
         \A c \in Conns : At(Wire(c))' \subseteq At(Wire(c)),
         At(Loc(s))' \subseteq At(Loc(s)) \ M,
         At(Loc(d))' \subseteq At(Loc(d)) \cup M
  PROVE  \A p \in Place : At(p)' \subseteq Left(p, Loc(s), Loc(d), M)
<1>1. \A n, o \in Locals : n # o => Loc(n) # Loc(o)
  BY DEF Loc
<1>2. \A c \in Conns, n \in Locals : Wire(c) # Loc(n)
  BY DEF Loc, Wire, Locals
<1>3. \A c \in Conns : Left(Wire(c), Loc(s), Loc(d), M) = At(Wire(c))
  BY <1>2 DEF Left
<1>4. \A n \in Locals : n # s /\ n # d => Left(Loc(n), Loc(s), Loc(d), M) = At(Loc(n))
  BY <1>1 DEF Left
<1>5. /\ Left(Loc(s), Loc(s), Loc(d), M) = At(Loc(s)) \ M
      /\ Left(Loc(d), Loc(s), Loc(d), M) = At(Loc(d)) \cup M
  BY <1>1 DEF Left
<1>6. \A c \in Conns : At(Wire(c))' \subseteq Left(Wire(c), Loc(s), Loc(d), M)
  BY <1>3
<1>7. \A n \in Locals : At(Loc(n))' \subseteq Left(Loc(n), Loc(s), Loc(d), M)
  <2> SUFFICES ASSUME NEW n \in Locals
               PROVE  At(Loc(n))' \subseteq Left(Loc(n), Loc(s), Loc(d), M)
    OBVIOUS
  <2>1. CASE n = s
    BY <1>5, <2>1
  <2>2. CASE n = d
    BY <1>5, <2>2
  <2>3. CASE n # s /\ n # d
    BY <1>4, <2>3
  <2> QED
    BY <2>1, <2>2, <2>3
<1> HIDE DEF Left
<1>8. \A p \in Place : (\E n \in Locals : p = Loc(n)) \/ (\E c \in Conns : p = Wire(c))
  BY Places DEF Locals
<1> QED
  BY <1>6, <1>7, <1>8

LEMMA PushMoves ==
  ASSUME SpoolTypes, NEW m \in Metrics, Spool!Push(m)
  PROVE  /\ Elems(spool') \subseteq Elems(spool) \cup {m} /\ drained' = drained
         /\ Distinct(spool) /\ m \notin Elems(spool) => Distinct(spool')
<1>1. spool \in Seq(Metrics) /\ Len(spool) \in Nat /\ SpoolCap \in Nat \ {0}
  BY Bounds, LenProperties DEF SpoolTypes
<1>2. CASE Spool!Full
  <2>1. spool' = Append(Tail(spool), m) /\ drained' = drained
    BY <1>2 DEF Spool!Push
  <2>2. spool # <<>>
    BY <1>1, <1>2, EmptySeq DEF Spool!Full
  <2> DEFINE t == Tail(spool)
  <2>3. /\ t \in Seq(Metrics) /\ Elems(t) \subseteq Elems(spool)
        /\ Distinct(spool) => Distinct(t)
    BY <1>1, <2>2, TailSeq
  <2>4. spool' = Append(t, m)
    BY <2>1
  <2> HIDE DEF t
  <2>5. /\ Elems(spool') = Elems(t) \cup {m}
        /\ Distinct(t) /\ m \notin Elems(t) => Distinct(spool')
    BY <2>3, <2>4, AppendSeq
  <2>6. Elems(spool') \subseteq Elems(spool) \cup {m}
    BY <2>3, <2>5
  <2>7. Distinct(spool) /\ m \notin Elems(spool) => Distinct(spool')
    BY <2>3, <2>5
  <2> QED
    BY <2>1, <2>6, <2>7
<1>3. CASE ~Spool!Full
  <2>1. spool' = Append(spool, m) /\ drained' = drained
    BY <1>3 DEF Spool!Push
  <2> QED
    BY <1>1, <2>1, AppendSeq
<1> QED
  BY <1>2, <1>3

LEMMA EmptyPlaces ==
  /\ Elems(<<>>) = {} /\ Distinct(<<>>) /\ MetricsIn(<<>>) = {} /\ DistinctIn(<<>>)
  BY DEF Elems, Distinct, MetricsIn, DistinctIn

(* A step that changes no queue and no wire.                               *)
LEMMA SameFrames ==
  ASSUME UNCHANGED <<runPc, conn, sendq, wire>>, NoRepeats
  PROVE  /\ MetricsIn(Queued') = MetricsIn(Queued)
         /\ \A c \in Conns : MetricsIn(wire'[c]) = MetricsIn(wire[c])
         /\ DistinctIn(Queued') /\ \A c \in Conns : DistinctIn(wire'[c])
<1>1. Queued' = Queued
  BY DEF Queued
<1> QED
  BY <1>1 DEF NoRepeats

LEMMA SubmitKeeps ==
  ASSUME TypeOK, NeverTwice, NEW m \in Metrics, Submit(m)
  PROVE  NeverTwice'
<1>t. intake \in Seq(Metrics) /\ SpoolTypes /\ UNCHANGED seq /\ m \in held
  BY DEF TypeOK, AgentTypes, Submit
<1>n. NoRepeats /\ Apart
  BY DEF NeverTwice
<1>u. UNCHANGED <<batch, runPc, conn, sendq, wire, received>> /\ held' = held \ {m}
  BY DEF Submit, connVars, netVars, hubVars
<1>p. /\ Loc("held") \in Place /\ Loc("intake") \in Place /\ Loc("spool") \in Place
      /\ {m} \subseteq At(Loc("held"))
  BY <1>t, Places, AtPlaces
<1>f. /\ MetricsIn(Queued') = MetricsIn(Queued)
      /\ \A c \in Conns : MetricsIn(wire'[c]) = MetricsIn(wire[c])
  BY <1>n, <1>u, SameFrames
<1>a. m \notin Elems(intake) /\ m \notin Elems(spool)
  BY <1>n, <1>p, AtPlaces DEF Apart, Loc
<1>1. CASE Len(intake) < IntakeCap
  <2>1. intake' = Append(intake, m) /\ UNCHANGED <<spool, drained>>
    BY <1>1 DEF Submit, spoolVars
  <2>2. Elems(intake') = Elems(intake) \cup {m} /\ Distinct(intake')
    BY <1>t, <1>n, <1>a, <2>1, AppendSeq DEF NoRepeats
  <2>3. NoRepeats'
    BY <1>n, <1>u, <2>1, <2>2, SameFrames DEF NoRepeats
  <2>4. \A p \in Place : At(p)' \subseteq Left(p, Loc("held"), Loc("intake"), {m})
    <3>1. At(Loc("held"))' \subseteq At(Loc("held")) \ {m}
      BY <1>u, <2>1, <2>2, AtPlaces, AtPlacesNext
    <3>2. At(Loc("intake"))' \subseteq At(Loc("intake")) \cup {m}
      BY <1>u, <2>1, <2>2, AtPlaces, AtPlacesNext
    <3>3. \A n \in Locals : n # "held" /\ n # "intake" => At(Loc(n))' \subseteq At(Loc(n))
      BY <1>u, <2>1, <2>2, <1>f, AtPlaces, AtPlacesNext DEF Locals
    <3>4. \A c \in Conns : At(Wire(c))' \subseteq At(Wire(c))
      BY <1>u, <2>1, <2>2, <1>f, AtPlaces, AtPlacesNext
    <3> QED
      BY <3>1, <3>2, <3>3, <3>4, MoveLocal DEF Locals
  <2> QED
    BY <1>t, <1>p, <2>3, <2>4, MoveKeeps
<1>2. CASE ~ (Len(intake) < IntakeCap)
  <2>1. Spool!Push(m) /\ UNCHANGED intake
    BY <1>2 DEF Submit
  <2>2. Elems(spool') \subseteq Elems(spool) \cup {m} /\ Distinct(spool') /\ drained' = drained
    BY <1>t, <1>n, <1>a, <2>1, PushMoves DEF NoRepeats
  <2>3. NoRepeats'
    BY <1>n, <1>u, <2>1, <2>2, SameFrames DEF NoRepeats
  <2>4. \A p \in Place : At(p)' \subseteq Left(p, Loc("held"), Loc("spool"), {m})
    <3>1. At(Loc("held"))' \subseteq At(Loc("held")) \ {m}
      BY <1>u, <2>1, <2>2, AtPlaces, AtPlacesNext
    <3>2. At(Loc("spool"))' \subseteq At(Loc("spool")) \cup {m}
      BY <1>u, <2>1, <2>2, AtPlaces, AtPlacesNext
    <3>3. \A n \in Locals : n # "held" /\ n # "spool" => At(Loc(n))' \subseteq At(Loc(n))
      BY <1>u, <2>1, <2>2, <1>f, AtPlaces, AtPlacesNext DEF Locals
    <3>4. \A c \in Conns : At(Wire(c))' \subseteq At(Wire(c))
      BY <1>u, <2>1, <2>2, <1>f, AtPlaces, AtPlacesNext
    <3> QED
      BY <3>1, <3>2, <3>3, <3>4, MoveLocal DEF Locals
  <2> QED
    BY <1>t, <1>p, <2>3, <2>4, MoveKeeps
<1> QED
  BY <1>1, <1>2

LEMMA StampKeeps ==
  ASSUME TypeOK, NeverTwice, Stamp
  PROVE  NeverTwice'
<1> DEFINE e == <<inc, seq[inc] + 1>>
<1>1. /\ inc \in 0 .. MaxRestarts /\ seq \in [0 .. MaxRestarts -> 0 .. MaxSeq]
      /\ seq[inc] + 1 \in 1 .. MaxSeq /\ MaxSeq \in Nat
  BY StampFits, Bounds DEF TypeOK, AgentTypes, Stamp
<1>2. e \in Metrics /\ e \notin Stamped /\ e \in Stamped' /\ Stamped \subseteq Stamped'
  <2>1. seq' = [seq EXCEPT ![inc] = seq[inc] + 1]
    BY DEF Stamp
  <2>2. \A i \in 0 .. MaxRestarts : seq[i] \in Nat /\ seq[i] <= seq'[i]
    BY <1>1, <2>1
  <2>3. e \in Metrics /\ e[1] = inc /\ e[2] = seq[inc] + 1 /\ seq'[inc] = seq[inc] + 1
    BY <1>1, <2>1 DEF Metrics
  <2>4. \A m \in Metrics : m[1] \in 0 .. MaxRestarts /\ m[2] \in Nat
    BY Bounds DEF Metrics
  <2>5. ASSUME NEW m \in Stamped PROVE m \in Stamped'
    <3>1. m[1] \in 0 .. MaxRestarts /\ m[2] \in Nat /\ m[2] <= seq[m[1]]
      BY <2>4, <2>5 DEF Stamped
    <3>2. m[2] <= seq'[m[1]]
      BY <1>1, <2>1, <2>2, <3>1
    <3> QED
      BY <2>5, <3>2 DEF Stamped
  <2>6. e \notin Stamped
    BY <1>1, <2>3 DEF Stamped
  <2>7. e \in Stamped'
    BY <1>1, <2>3 DEF Stamped
  <2> QED
    BY <2>3, <2>5, <2>6, <2>7
<1>3. held' = held \cup {e}
  BY DEF Stamp
<1> HIDE DEF e
<1>n. NoRepeats /\ Apart /\ Present \subseteq Stamped
  BY DEF NeverTwice
<1>u. UNCHANGED <<intake, batch, spool, drained, runPc, conn, sendq, wire, received>>
  BY DEF Stamp, spoolVars, connVars, netVars, hubVars
<1>4. NoRepeats'
  BY <1>n, <1>u, SameFrames DEF NoRepeats
<1>5. \A p \in Place : At(p)' = IF p = Loc("held") THEN At(p) \cup {e} ELSE At(p)
  BY <1>n, <1>u, <1>3, SameFrames, Places, AtPlaces, AtPlacesNext DEF Loc, Wire
<1>6. \A p \in Place : e \notin At(p)
  BY <1>2, <1>n, PresentIsUnion
<1>7. Apart'
  <2>1. \A p, q \in Place : p # q => At(p)' \cap At(q)' = {}
    BY <1>n, <1>5, <1>6 DEF Apart
  <2> QED
    BY <2>1 DEF Apart
<1>8. Present' \subseteq Present \cup {e}
  BY <1>5, PresentIsUnion, PresentIsUnionNext
<1> QED
  BY <1>2, <1>n, <1>4, <1>7, <1>8 DEF NeverTwice

LEMMA LoopTakeKeeps ==
  ASSUME TypeOK, NeverTwice, LoopTake
  PROVE  NeverTwice'
<1>1. /\ intake \in Seq(Metrics) /\ intake # <<>> /\ batch \in Seq(Metrics) /\ UNCHANGED seq
      /\ batch' = Append(batch, Head(intake)) /\ intake' = Tail(intake)
      /\ UNCHANGED <<held, spool, drained, runPc, conn, sendq, wire, received>>
  BY DEF TypeOK, AgentTypes, LoopTake, spoolVars, connVars, netVars, hubVars
<1>n. NoRepeats /\ Apart
  BY DEF NeverTwice
<1> DEFINE m == Head(intake)
<1>2. /\ m \in Metrics /\ Elems(intake) = {m} \cup Elems(intake')
      /\ Distinct(intake') /\ m \notin Elems(intake')
  BY <1>1, <1>n, TailSeq DEF NoRepeats
<1> HIDE DEF m
<1>3. m \notin Elems(batch)
  BY <1>n, <1>2, Places, AtPlaces DEF Apart, Loc
<1>4. Elems(batch') = Elems(batch) \cup {m} /\ Distinct(batch')
  BY <1>1, <1>n, <1>2, <1>3, AppendSeq DEF NoRepeats, m
<1>5. NoRepeats'
  BY <1>n, <1>1, <1>2, <1>4, SameFrames DEF NoRepeats
<1>f. /\ MetricsIn(Queued') = MetricsIn(Queued)
      /\ \A c \in Conns : MetricsIn(wire'[c]) = MetricsIn(wire[c])
  BY <1>n, <1>1, SameFrames
<1>6. \A p \in Place : At(p)' \subseteq Left(p, Loc("intake"), Loc("batch"), {m})
  <2>1. At(Loc("intake"))' \subseteq At(Loc("intake")) \ {m}
    BY <1>1, <1>2, <1>4, AtPlaces, AtPlacesNext
  <2>2. At(Loc("batch"))' \subseteq At(Loc("batch")) \cup {m}
    BY <1>1, <1>2, <1>4, AtPlaces, AtPlacesNext
  <2>3. \A n \in Locals : n # "intake" /\ n # "batch" => At(Loc(n))' \subseteq At(Loc(n))
    BY <1>1, <1>2, <1>4, <1>f, AtPlaces, AtPlacesNext DEF Locals
  <2>4. \A c \in Conns : At(Wire(c))' \subseteq At(Wire(c))
    BY <1>1, <1>2, <1>4, <1>f, AtPlaces, AtPlacesNext
  <2> QED
    BY <2>1, <2>2, <2>3, <2>4, MoveLocal DEF Locals
<1> QED
  BY <1>1, <1>2, <1>5, <1>6, MoveKeeps, Places, AtPlaces

LEMMA FlushPushKeeps ==
  ASSUME TypeOK, NeverTwice, FlushPush
  PROVE  NeverTwice'
<1>1. /\ batch \in Seq(Metrics) /\ batch # <<>> /\ SpoolTypes /\ UNCHANGED seq
      /\ Spool!Push(Head(batch)) /\ batch' = Tail(batch)
      /\ UNCHANGED <<held, intake, runPc, conn, sendq, wire, received>>
  BY DEF TypeOK, AgentTypes, FlushPush, connVars, netVars, hubVars
<1>n. NoRepeats /\ Apart
  BY DEF NeverTwice
<1> DEFINE m == Head(batch)
<1>2. /\ m \in Metrics /\ Elems(batch) = {m} \cup Elems(batch')
      /\ Distinct(batch') /\ m \notin Elems(batch')
  BY <1>1, <1>n, TailSeq DEF NoRepeats
<1>p. Spool!Push(m)
  BY <1>1
<1> HIDE DEF m
<1>3. m \notin Elems(spool)
  BY <1>n, <1>2, Places, AtPlaces DEF Apart, Loc
<1>4. Elems(spool') \subseteq Elems(spool) \cup {m} /\ Distinct(spool') /\ drained' = drained
  BY <1>1, <1>n, <1>p, <1>2, <1>3, PushMoves DEF NoRepeats
<1>5. NoRepeats'
  BY <1>n, <1>1, <1>2, <1>4, SameFrames DEF NoRepeats
<1>f. /\ MetricsIn(Queued') = MetricsIn(Queued)
      /\ \A c \in Conns : MetricsIn(wire'[c]) = MetricsIn(wire[c])
  BY <1>n, <1>1, SameFrames
<1>6. \A p \in Place : At(p)' \subseteq Left(p, Loc("batch"), Loc("spool"), {m})
  <2>1. At(Loc("batch"))' \subseteq At(Loc("batch")) \ {m}
    BY <1>1, <1>2, <1>4, AtPlaces, AtPlacesNext
  <2>2. At(Loc("spool"))' \subseteq At(Loc("spool")) \cup {m}
    BY <1>1, <1>2, <1>4, AtPlaces, AtPlacesNext
  <2>3. \A n \in Locals : n # "batch" /\ n # "spool" => At(Loc(n))' \subseteq At(Loc(n))
    BY <1>1, <1>2, <1>4, <1>f, AtPlaces, AtPlacesNext DEF Locals
  <2>4. \A c \in Conns : At(Wire(c))' \subseteq At(Wire(c))
    BY <1>1, <1>2, <1>4, <1>f, AtPlaces, AtPlacesNext
  <2> QED
    BY <2>1, <2>2, <2>3, <2>4, MoveLocal DEF Locals
<1> QED
  BY <1>1, <1>2, <1>5, <1>6, MoveKeeps, Places, AtPlaces

LEMMA SendQueuedKeeps ==
  ASSUME TypeOK, NeverTwice, SendQueued
  PROVE  NeverTwice'
<1> DEFINE f == Telemetry(batch, FALSE)
<1>1. /\ batch \in Seq(Metrics) /\ UNCHANGED seq /\ batch' = <<>>
      /\ sendq \in [Conns -> Seq(Frame)] /\ flushPeer \in Conns
      /\ sendq' = [sendq EXCEPT ![flushPeer] = Append(@, f)]
      /\ UNCHANGED <<held, intake, spool, drained, runPc, conn, wire, received>>
  BY SendQueuedTo DEF SendQueued, spoolVars, connVars, hubVars
<1>n. NoRepeats /\ Apart
  BY DEF NeverTwice
<1>2. f \in Frame /\ f.metrics = batch
  BY <1>1, BatchFrame
<1> HIDE DEF f
<1>3. Elems(batch) \cap MetricsIn(Queued) = {}
  BY <1>n, Places, AtPlaces DEF Apart, Loc
<1>4. MetricsIn(Queued') \subseteq MetricsIn(Queued) \cup Elems(batch) /\ DistinctIn(Queued')
  <2>1. CASE runPc = "serving" /\ flushPeer = conn
    <3>1. Queued' = Append(Queued, f) /\ Queued \in Seq(Frame)
      BY <1>1, <2>1 DEF Queued
    <3> QED
      BY <1>n, <1>2, <1>3, <3>1, AppendFrame DEF NoRepeats
  <2>2. CASE ~ (runPc = "serving" /\ flushPeer = conn)
    <3>1. Queued' = Queued
      <4>1. CASE runPc = "serving"
        <5>1. conn \in Conns
          BY <4>1, Bounds DEF TypeOK, ConnTypes, Conns
        <5> QED
          BY <1>1, <2>2, <4>1, <5>1 DEF Queued
      <4>2. CASE runPc # "serving"
        BY <1>1, <4>2 DEF Queued
      <4> QED
        BY <4>1, <4>2
    <3> QED
      BY <1>n, <3>1 DEF NoRepeats
  <2> QED
    BY <2>1, <2>2
<1>5. NoRepeats'
  BY <1>n, <1>1, <1>4, EmptyPlaces DEF NoRepeats
<1>6. \A p \in Place : At(p)' \subseteq Left(p, Loc("batch"), Loc("queue"), Elems(batch))
  <2>1. At(Loc("batch"))' \subseteq At(Loc("batch")) \ Elems(batch)
    BY <1>1, <1>4, EmptyPlaces, AtPlaces, AtPlacesNext
  <2>2. At(Loc("queue"))' \subseteq At(Loc("queue")) \cup Elems(batch)
    BY <1>1, <1>4, EmptyPlaces, AtPlaces, AtPlacesNext
  <2>3. \A n \in Locals : n # "batch" /\ n # "queue" => At(Loc(n))' \subseteq At(Loc(n))
    BY <1>1, <1>4, EmptyPlaces, AtPlaces, AtPlacesNext DEF Locals
  <2>4. \A c \in Conns : At(Wire(c))' \subseteq At(Wire(c))
    BY <1>1, <1>4, EmptyPlaces, AtPlaces, AtPlacesNext
  <2> QED
    BY <2>1, <2>2, <2>3, <2>4, MoveLocal DEF Locals
<1> QED
  BY <1>1, <1>5, <1>6, MoveKeeps, Places, AtPlaces

LEMMA ConnectKeeps ==
  ASSUME TypeOK, NeverTwice, Connect
  PROVE  NeverTwice'
<1>1. /\ UNCHANGED <<seq, held, intake, batch, sendq, wire, received>>
      /\ drained' = spool /\ spool' = <<>>
  BY DEF Connect, agentVars, hubVars, Spool!Drain
<1>n. NoRepeats
  BY DEF NeverTwice
<1>2. Queued' = <<>>
  BY DEF Connect, Queued
<1>3. NoRepeats'
  BY <1>n, <1>1, <1>2, EmptyPlaces DEF NoRepeats
<1>4. \A p \in Place : At(p)' \subseteq Left(p, Loc("spool"), Loc("drained"), Elems(spool))
  <2>1. At(Loc("spool"))' \subseteq At(Loc("spool")) \ Elems(spool)
    BY <1>1, <1>2, EmptyPlaces, AtPlaces, AtPlacesNext
  <2>2. At(Loc("drained"))' \subseteq At(Loc("drained")) \cup Elems(spool)
    BY <1>1, <1>2, EmptyPlaces, AtPlaces, AtPlacesNext
  <2>3. \A n \in Locals : n # "spool" /\ n # "drained" => At(Loc(n))' \subseteq At(Loc(n))
    BY <1>1, <1>2, EmptyPlaces, AtPlaces, AtPlacesNext DEF Locals
  <2>4. \A c \in Conns : At(Wire(c))' \subseteq At(Wire(c))
    BY <1>1, <1>2, EmptyPlaces, AtPlaces, AtPlacesNext
  <2> QED
    BY <2>1, <2>2, <2>3, <2>4, MoveLocal DEF Locals
<1> QED
  BY <1>1, <1>3, <1>4, MoveKeeps, Places, AtPlaces

LEMMA PublishKeeps ==
  ASSUME TypeOK, NeverTwice, Publish
  PROVE  NeverTwice'
<1> DEFINE fs == <<Register>> \o Replay(drained)
<1>1. /\ UNCHANGED <<seq, held, intake, batch, spool, wire, received>>
      /\ drained \in Seq(Metrics) /\ Len(drained) <= SpoolCap /\ drained' = <<>>
  BY DEF Publish, agentVars, hubVars, TypeOK, SpoolTypes
<1>n. NoRepeats
  BY DEF NeverTwice
<1>2. Queued' = fs
  BY Bounds DEF Publish, Queued, TypeOK, NetTypes, ConnTypes, Conns
<1>3. MetricsIn(fs) \subseteq Elems(drained) /\ DistinctIn(fs)
  BY <1>n, <1>1, PublishedMetrics DEF NoRepeats
<1> HIDE DEF fs
<1>4. NoRepeats'
  BY <1>n, <1>1, <1>2, <1>3, EmptyPlaces DEF NoRepeats
<1>5. \A p \in Place : At(p)' \subseteq Left(p, Loc("drained"), Loc("queue"), Elems(drained))
  <2>1. At(Loc("drained"))' \subseteq At(Loc("drained")) \ Elems(drained)
    BY <1>1, <1>2, <1>3, EmptyPlaces, AtPlaces, AtPlacesNext
  <2>2. At(Loc("queue"))' \subseteq At(Loc("queue")) \cup Elems(drained)
    BY <1>1, <1>2, <1>3, EmptyPlaces, AtPlaces, AtPlacesNext
  <2>3. \A n \in Locals : n # "drained" /\ n # "queue" => At(Loc(n))' \subseteq At(Loc(n))
    BY <1>1, <1>2, <1>3, EmptyPlaces, AtPlaces, AtPlacesNext DEF Locals
  <2>4. \A c \in Conns : At(Wire(c))' \subseteq At(Wire(c))
    BY <1>1, <1>2, <1>3, EmptyPlaces, AtPlaces, AtPlacesNext
  <2> QED
    BY <2>1, <2>2, <2>3, <2>4, MoveLocal DEF Locals
<1> QED
  BY <1>1, <1>4, <1>5, MoveKeeps, Places, AtPlaces

LEMMA WriteFrameKeeps ==
  ASSUME TypeOK, NeverTwice, WriteFrame
  PROVE  NeverTwice'
<1>1. /\ UNCHANGED <<seq, held, intake, batch, spool, drained, received, runPc, conn>>
      /\ sendq \in [Conns -> Seq(Frame)] /\ wire \in [Conns -> Seq(Frame)] /\ conn \in Conns
      /\ runPc = "serving" /\ sendq[conn] # <<>>
      /\ wire' = [wire EXCEPT ![conn] = Append(@, Head(sendq[conn]))]
      /\ sendq' = [sendq EXCEPT ![conn] = Tail(@)]
  BY Bounds DEF WriteFrame, agentVars, spoolVars, connVars, hubVars, TypeOK, ConnTypes,
                NetTypes, Conns
<1>n. NoRepeats /\ Apart
  BY DEF NeverTwice
<1> DEFINE f == Head(Queued)
<1>2. Queued = sendq[conn] /\ Queued' = Tail(Queued) /\ Queued \in Seq(Frame) /\ Queued # <<>>
  BY <1>1 DEF Queued
<1>3. wire'[conn] = Append(wire[conn], f) /\ \A c \in Conns : c # conn => wire'[c] = wire[c]
  BY <1>1, <1>2
<1>4. /\ f \in Frame /\ MetricsIn(Queued) = Elems(f.metrics) \cup MetricsIn(Queued')
      /\ DistinctIn(Queued') /\ Distinct(f.metrics)
      /\ Elems(f.metrics) \cap MetricsIn(Queued') = {}
  BY <1>n, <1>2, TailFrame, TailSeq DEF NoRepeats
<1> HIDE DEF f
<1>5. Elems(f.metrics) \cap MetricsIn(wire[conn]) = {}
  <2>1. Loc("queue") # Wire(conn) /\ Loc("queue") \in Place /\ Wire(conn) \in Place
    BY <1>1, Places DEF Loc, Wire
  <2>2. At(Loc("queue")) \cap At(Wire(conn)) = {}
    BY <1>n, <2>1 DEF Apart
  <2>3. At(Loc("queue")) = MetricsIn(Queued) /\ At(Wire(conn)) = MetricsIn(wire[conn])
    BY <1>1, AtPlaces
  <2> QED
    BY <1>4, <2>2, <2>3
<1>6. /\ MetricsIn(wire'[conn]) = MetricsIn(wire[conn]) \cup Elems(f.metrics)
      /\ DistinctIn(wire'[conn])
  BY <1>n, <1>1, <1>3, <1>4, <1>5, AppendFrame DEF NoRepeats
<1>7. \A c \in Conns : DistinctIn(wire'[c])
  BY <1>n, <1>3, <1>6 DEF NoRepeats
<1>8. NoRepeats'
  BY <1>n, <1>1, <1>4, <1>7 DEF NoRepeats
<1>9. \A p \in Place : At(p)' \subseteq Left(p, Loc("queue"), Wire(conn), Elems(f.metrics))
  <2>1. \A c \in Conns : c # conn => At(Wire(c))' = At(Wire(c))
    BY <1>3, AtPlaces, AtPlacesNext
  <2>2. \A c \in Conns : c = conn => At(Wire(c))' = At(Wire(c)) \cup Elems(f.metrics)
    BY <1>1, <1>6, AtPlaces, AtPlacesNext
  <2>3. \A c \in Conns : Wire(c) # Loc("queue")
    BY DEF Loc, Wire
  <2>4. \A c \in Conns : At(Wire(c))' \subseteq
                           Left(Wire(c), Loc("queue"), Wire(conn), Elems(f.metrics))
    <3> SUFFICES ASSUME NEW c \in Conns
                 PROVE  At(Wire(c))' \subseteq
                          Left(Wire(c), Loc("queue"), Wire(conn), Elems(f.metrics))
      OBVIOUS
    <3>1. CASE c = conn
      BY <2>2, <2>3, <3>1 DEF Left
    <3>2. CASE c # conn
      BY <2>1, <2>3, <3>2 DEF Left
    <3> QED
      BY <3>1, <3>2
  <2>5. \A n \in {"held", "intake", "batch", "spool", "drained", "received"} :
          At(Loc(n))' = At(Loc(n)) /\ Loc(n) # Loc("queue") /\ Loc(n) # Wire(conn)
    BY <1>1, AtPlaces, AtPlacesNext DEF Loc, Wire
  <2>6. At(Loc("queue"))' \subseteq At(Loc("queue")) \ Elems(f.metrics)
    BY <1>4, AtPlaces, AtPlacesNext
  <2> QED
    BY <2>4, <2>5, <2>6, Places DEF Left
<1>10. Elems(f.metrics) \subseteq At(Loc("queue"))
  BY <1>4, AtPlaces
<1> QED
  BY <1>1, <1>8, <1>9, <1>10, MoveKeeps, Places

(* A step after which there is only less in every place.                   *)
LEMMA LessKeeps ==
  ASSUME NeverTwice, UNCHANGED seq, NoRepeats', \A p \in Place : At(p)' \subseteq At(p)
  PROVE  NeverTwice'
<1>1. \A p \in Place : At(p)' \subseteq Left(p, Loc("held"), Loc("held"), {})
  BY DEF Left
<1> QED
  BY <1>1, MoveKeeps, Places

LEMMA EndServeKeeps ==
  ASSUME NeverTwice, EndServe \/ Restart
  PROVE  NeverTwice'
<1>1. /\ UNCHANGED <<seq, wire, received>>
      /\ \/ UNCHANGED <<held, intake, batch, spool, drained>>
         \/ held' = {} /\ intake' = <<>> /\ batch' = <<>> /\ spool' = <<>> /\ drained' = <<>>
  BY DEF EndServe, Restart, agentVars, spoolVars, hubVars
<1>n. NoRepeats
  BY DEF NeverTwice
<1>2. Queued' = <<>>
  BY DEF EndServe, Restart, Queued
<1>3. NoRepeats'
  BY <1>n, <1>1, <1>2, EmptyPlaces DEF NoRepeats
<1>4. \A p \in Place : At(p)' \subseteq At(p)
  BY <1>1, <1>2, EmptyPlaces, Places, AtPlaces, AtPlacesNext
<1> QED
  BY <1>1, <1>3, <1>4, LessKeeps

LEMMA CutKeeps ==
  ASSUME TypeOK, NeverTwice, NEW c \in Conns, Cut(c)
  PROVE  NeverTwice'
<1>1. UNCHANGED <<seq, held, intake, batch, spool, drained, runPc, conn, sendq, received>>
  BY DEF Cut, agentVars, spoolVars, connVars, hubVars
<1>2. PICK k \in 0 .. Len(wire[c]) : wire' = [wire EXCEPT ![c] = SubSeq(@, 1, k)]
  BY DEF Cut
<1>n. NoRepeats
  BY DEF NeverTwice
<1>3. wire \in [Conns -> Seq(Frame)]
  BY DEF TypeOK, NetTypes
<1>4. MetricsIn(wire'[c]) \subseteq MetricsIn(wire[c]) /\ DistinctIn(wire'[c])
  BY <1>n, <1>2, <1>3, PrefixFrame DEF NoRepeats
<1>5. \A d \in Conns : MetricsIn(wire'[d]) \subseteq MetricsIn(wire[d]) /\ DistinctIn(wire'[d])
  BY <1>n, <1>2, <1>3, <1>4 DEF NoRepeats
<1>6. Queued' = Queued
  BY <1>1 DEF Queued
<1>7. NoRepeats'
  BY <1>n, <1>1, <1>5, <1>6 DEF NoRepeats
<1>8. \A p \in Place : At(p)' \subseteq At(p)
  BY <1>1, <1>5, <1>6, Places, AtPlaces, AtPlacesNext
<1> QED
  BY <1>1, <1>7, <1>8, LessKeeps

LEMMA HubKeeps ==
  ASSUME TypeOK, NeverTwice, NEW c \in Conns, HubRegister(c) \/ HubTelemetry(c)
  PROVE  NeverTwice'
<1> DEFINE ms == Elems(Head(wire[c]).metrics)
<1>1. /\ UNCHANGED <<seq, held, intake, batch, spool, drained, runPc, conn, sendq>>
      /\ wire[c] # <<>> /\ wire' = [wire EXCEPT ![c] = Tail(@)]
      /\ received' = received \/ received' = received \cup ms
  BY DEF HubRegister, HubTelemetry, agentVars, spoolVars, connVars
<1>n. NoRepeats
  BY DEF NeverTwice
<1>2. wire \in [Conns -> Seq(Frame)]
  BY DEF TypeOK, NetTypes
<1>3. /\ MetricsIn(wire[c]) = ms \cup MetricsIn(wire'[c])
      /\ DistinctIn(wire'[c]) /\ ms \cap MetricsIn(wire'[c]) = {}
  BY <1>n, <1>1, <1>2, TailFrame DEF NoRepeats
<1> HIDE DEF ms
<1>4. \A d \in Conns : d # c => wire'[d] = wire[d]
  BY <1>1, <1>2
<1>5. Queued' = Queued
  BY <1>1 DEF Queued
<1>6. \A d \in Conns : DistinctIn(wire'[d])
  BY <1>n, <1>3, <1>4 DEF NoRepeats
<1>7. NoRepeats'
  BY <1>n, <1>1, <1>5, <1>6 DEF NoRepeats
<1>8. \A p \in Place : At(p)' \subseteq Left(p, Wire(c), Loc("received"), ms)
  <2>1. \A d \in Conns : d # c => At(Wire(d))' = At(Wire(d))
    BY <1>4, AtPlaces, AtPlacesNext
  <2>2. At(Wire(c))' = At(Wire(c)) \ ms
    BY <1>3, AtPlaces, AtPlacesNext
  <2> QED
    BY <1>1, <1>5, <2>1, <2>2, Places, AtPlaces, AtPlacesNext DEF Left, Loc, Wire
<1>9. ms \subseteq At(Wire(c))
  BY <1>3, AtPlaces
<1> QED
  BY <1>1, <1>7, <1>8, <1>9, MoveKeeps, Places

LEMMA StillKeeps ==
  ASSUME NeverTwice,
         UNCHANGED <<seq, held, intake, batch, spool, drained, runPc, conn, sendq, wire, received>>
  PROVE  NeverTwice'
<1>n. NoRepeats
  BY DEF NeverTwice
<1>1. NoRepeats'
  BY <1>n, SameFrames DEF NoRepeats
<1>2. \A p \in Place : At(p)' \subseteq At(p)
  BY <1>n, SameFrames, Places, AtPlaces, AtPlacesNext
<1> QED
  BY <1>1, <1>2, LessKeeps

LEMMA NeverTwiceStep == TypeOK /\ NeverTwice /\ [Next]_vars => NeverTwice'
<1> SUFFICES ASSUME TypeOK, NeverTwice, [Next]_vars PROVE NeverTwice'
  OBVIOUS
<1>1. CASE FlushBegin \/ SendFailed \/ Shutdown \/ UNCHANGED vars
  BY <1>1, StillKeeps
  DEF FlushBegin, SendFailed, Shutdown, vars, agentVars, spoolVars, connVars, netVars, hubVars
<1> QED
  BY <1>1, StampKeeps, SubmitKeeps, LoopTakeKeeps, FlushPushKeeps, SendQueuedKeeps,
     ConnectKeeps, PublishKeeps, WriteFrameKeeps, EndServeKeeps, CutKeeps, HubKeeps DEF Next

(* Whatever fails between SubmitMetric and handleTelemetry, no metric is   *)
(* in two places: a batch that was queued is not spooled as well, and no   *)
(* metric reaches the controller twice.                                    *)
THEOREM MetricsMove == Spec => []NeverTwice
<1>1. Init => NeverTwice
  <2> SUFFICES ASSUME Init PROVE NeverTwice
    OBVIOUS
  <2>1. Queued = <<>> /\ \A c \in Conns : wire[c] = <<>>
    BY DEF Init, Queued
  <2>2. NoRepeats
    BY <2>1, EmptyPlaces DEF Init, Spool!Init, NoRepeats
  <2>3. \A p \in Place : At(p) = {}
    BY <2>1, EmptyPlaces, Places, AtPlaces DEF Init, Spool!Init
  <2> QED
    BY <2>2, <2>3, PresentIsUnion DEF NeverTwice, Apart
<1> QED
  BY <1>1, TypesInvariant, NeverTwiceStep, PTL DEF Spec

-----------------------------------------------------------------------------
(* What the hub reads on a connection, and in what order.                  *)
LEMMA SameOrder ==
  ASSUME NEW s \in Seq(Frame), NEW t \in Seq(Frame), NEW known \in BOOLEAN,
         InOrder(s, known), Len(t) <= Len(s), \A i \in 1 .. Len(t) : t[i] = s[i]
  PROVE  InOrder(t, known)
<1>1. \A i \in DOMAIN t : i \in DOMAIN s /\ t[i] = s[i]
  BY LenProperties
<1> QED
  BY <1>1 DEF InOrder

LEMMA LiveAtTheEnd ==
  ASSUME NEW s \in Seq(Frame), NEW f \in Frame, NEW known \in BOOLEAN,
         InOrder(s, known), s # <<>> \/ known,
         f.kind = "TELEMETRY", f.replay = FALSE
  PROVE  InOrder(Append(s, f), known)
<1> DEFINE t == Append(s, f)
           n == Len(s) + 1
<1>1. /\ Len(s) \in Nat /\ t[n] = f /\ \A i \in 1 .. Len(s) : t[i] = s[i]
      /\ t \in Seq(Frame) /\ Len(t) = n
  BY AppendProperties, LenProperties
<1>2. DOMAIN t = 1 .. n /\ DOMAIN s = 1 .. Len(s)
  BY <1>1, LenProperties
<1>3. n # 1 \/ known
  BY <1>1, EmptySeq
<1>4. \A i \in DOMAIN t : i = n \/ (i \in DOMAIN s /\ t[i] = s[i] /\ i < n)
  BY <1>1, <1>2
<1>5. n \in Nat /\ n \notin DOMAIN s
  BY <1>1, <1>2
<1>t. t[n] = f
  BY <1>1
<1> HIDE DEF t, n
<1>6. Rank(f) = 2 /\ \A g \in Frame : Rank(g) <= 2
  BY DEF Rank
<1>7. ASSUME NEW i \in DOMAIN t, NEW j \in DOMAIN t, i < j
      PROVE  Rank(t[i]) <= Rank(t[j])
  <2>1. i \in DOMAIN s /\ t[i] = s[i] /\ s[i] \in Frame
    BY <1>1, <1>2, <1>4, <1>5, <1>7, ElementOfSeq
  <2>2. CASE j = n
    BY <1>t, <1>6, <2>1, <2>2
  <2>3. CASE j # n
    BY <1>4, <1>7, <2>1, <2>3 DEF InOrder
  <2> QED
    BY <2>2, <2>3
<1>8. ASSUME NEW i \in DOMAIN t
      PROVE  (t[i].kind = "REGISTER") <=> (i = 1 /\ ~ known)
  <2>1. CASE i = n
    BY <1>3, <1>t, <2>1
  <2>2. CASE i # n
    BY <1>4, <2>2 DEF InOrder
  <2> QED
    BY <2>1, <2>2
<1>9. InOrder(t, known)
  BY <1>7, <1>8 DEF InOrder
<1> QED
  BY <1>9 DEF t

LEMMA HeadRead ==
  ASSUME NEW s \in Seq(Frame), NEW known \in BOOLEAN, InOrder(s, known), s # <<>>
  PROVE  /\ InOrder(Tail(s), TRUE)
         /\ (Head(s).kind = "REGISTER") <=> ~ known
<1> DEFINE t == Tail(s)
<1>1. /\ t \in Seq(Frame) /\ Len(t) = Len(s) - 1 /\ Len(s) \in Nat \ {0}
      /\ \A i \in 1 .. Len(t) : t[i] = s[i + 1]
  BY HeadTailProperties, EmptySeq
<1>2. DOMAIN s = 1 .. Len(s) /\ DOMAIN t = 1 .. Len(s) - 1 /\ Head(s) = s[1]
  BY <1>1, LenProperties
<1> HIDE DEF t
<1>3. \A i \in DOMAIN t : t[i] = s[i + 1] /\ i + 1 \in DOMAIN s /\ i + 1 # 1 /\ i \in Nat
  BY <1>1, <1>2
<1>4. (Head(s).kind = "REGISTER") <=> ~ known
  <2>1. 1 \in DOMAIN s
    BY <1>1, <1>2
  <2> QED
    BY <1>2, <2>1 DEF InOrder
<1>5. ASSUME NEW i \in DOMAIN t, NEW j \in DOMAIN t, i < j
      PROVE  Rank(t[i]) <= Rank(t[j])
  <2>1. i + 1 < j + 1
    BY <1>3, <1>5
  <2> QED
    BY <1>3, <2>1 DEF InOrder
<1>6. \A i \in DOMAIN t : ~ (t[i].kind = "REGISTER")
  BY <1>3 DEF InOrder
<1>7. InOrder(t, TRUE)
  BY <1>5, <1>6 DEF InOrder
<1> QED
  BY <1>4, <1>7 DEF t

LEMMA PublishedOrder ==
  ASSUME NEW ms \in Seq(Metrics), Len(ms) <= SpoolCap
  PROVE  InOrder(<<Register>> \o Replay(ms), FALSE)
<1> DEFINE r == Replay(ms)
           fs == <<Register>> \o r
<1>1. /\ fs \in Seq(Frame) /\ Len(fs) = 1 + Len(r) /\ fs[1] = Register
      /\ \A i \in 2 .. Len(fs) : fs[i] = r[i - 1]
  BY PublishedFrames
<1>2. /\ r \in Seq(Frame) /\ Len(r) \in Nat
      /\ \A k \in 1 .. Len(r) : r[k].kind = "TELEMETRY" /\ r[k].replay = TRUE
  BY ReplayChunks, LenProperties
<1>3. DOMAIN fs = 1 .. 1 + Len(r)
  BY <1>1, LenProperties
<1> HIDE DEF r, fs
<1>4. Register.kind = "REGISTER" /\ Rank(Register) = 0
  BY DEF Register, Rank
<1>5. \A i \in DOMAIN fs : i # 1 => fs[i].kind = "TELEMETRY" /\ Rank(fs[i]) = 1
  BY <1>1, <1>2, <1>3 DEF Rank
<1>6. ASSUME NEW i \in DOMAIN fs, NEW j \in DOMAIN fs, i < j
      PROVE  Rank(fs[i]) <= Rank(fs[j])
  <2>1. j # 1
    BY <1>3, <1>6
  <2> QED
    BY <1>1, <1>4, <1>5, <2>1
<1>7. \A i \in DOMAIN fs : (fs[i].kind = "REGISTER") <=> (i = 1 /\ ~ FALSE)
  BY <1>1, <1>4, <1>5
<1>8. InOrder(fs, FALSE)
  BY <1>6, <1>7 DEF InOrder
<1> QED
  BY <1>8 DEF fs, r

Rest(c) == IF c = conn /\ up[c] THEN Queued ELSE <<>>

(* What RegisterReplayLive needs to be inductive: a connection that is not *)
(* served yet has carried nothing, and a served one that has not named     *)
(* itself still has its REGISTER in the stream.                            *)
OrderInv ==
  /\ RegisterReplayLive
  /\ \A c \in Conns : c > conn \/ (c = conn /\ runPc = "drained")
                        => wire[c] = <<>> /\ ~ named[c]
  /\ runPc = "serving" /\ up[conn] /\ ~ named[conn] => Stream(conn) # <<>>

LEMMA StreamTypes ==
  ASSUME TypeOK, NEW c \in Conns
  PROVE  /\ Queued \in Seq(Frame) /\ wire[c] \in Seq(Frame) /\ Rest(c) \in Seq(Frame)
         /\ Stream(c) = wire[c] \o Rest(c) /\ Stream(c) \in Seq(Frame)
         /\ named[c] \in BOOLEAN
         /\ conn \in Nat /\ (runPc # "idle" => conn \in Conns)
<1>1. /\ sendq \in [Conns -> Seq(Frame)] /\ wire \in [Conns -> Seq(Frame)]
      /\ conn \in 0 .. MaxConns /\ (runPc # "idle" => conn > 0) /\ named[c] \in BOOLEAN
  BY DEF TypeOK, NetTypes, ConnTypes, HubTypes
<1>2. conn \in Nat /\ (runPc # "idle" => conn \in Conns)
  BY <1>1, Bounds DEF Conns
<1>3. Queued \in Seq(Frame)
  BY <1>1, <1>2, EmptySeq DEF Queued
<1>4. Rest(c) \in Seq(Frame) /\ Stream(c) = wire[c] \o Rest(c)
  BY <1>3, EmptySeq DEF Rest, Stream
<1>5. wire[c] \o Rest(c) \in Seq(Frame)
  BY <1>1, <1>4, ConcatProperties
<1> QED
  BY <1>1, <1>2, <1>3, <1>4, <1>5

(* Sequences end to end.                                                   *)
LEMMA EndToEnd ==
  ASSUME NEW w \in Seq(Frame), NEW q \in Seq(Frame)
  PROVE  /\ w \o <<>> = w
         /\ \A k \in 0 .. Len(w) : /\ Len(SubSeq(w, 1, k)) <= Len(w \o q)
                                   /\ \A i \in 1 .. Len(SubSeq(w, 1, k)) :
                                        SubSeq(w, 1, k)[i] = (w \o q)[i]
         /\ Len(w) <= Len(w \o q) /\ \A i \in 1 .. Len(w) : w[i] = (w \o q)[i]
         /\ \A f \in Frame : w \o Append(q, f) = Append(w \o q, f)
         /\ w # <<>> => /\ Tail(w) \o q = Tail(w \o q) /\ Head(w) = Head(w \o q)
                        /\ w \o q # <<>>
         /\ q # <<>> => Append(w, Head(q)) \o Tail(q) = w \o q
<1>1. /\ w \o q \in Seq(Frame) /\ Len(w \o q) = Len(w) + Len(q)
      /\ Len(w) \in Nat /\ Len(q) \in Nat
      /\ \A i \in 1 .. Len(w) + Len(q) :
           (w \o q)[i] = IF i <= Len(w) THEN w[i] ELSE q[i - Len(w)]
  BY ConcatProperties, LenProperties
<1>2. w \o <<>> = w
  BY ConcatEmptySeq
<1>3. ASSUME NEW k \in 0 .. Len(w)
      PROVE  /\ Len(SubSeq(w, 1, k)) <= Len(w \o q)
             /\ \A i \in 1 .. Len(SubSeq(w, 1, k)) : SubSeq(w, 1, k)[i] = (w \o q)[i]
  <2>1. Len(SubSeq(w, 1, k)) = k /\ \A i \in 1 .. k : SubSeq(w, 1, k)[i] = w[i]
    BY PrefixSeq
  <2>2. \A i \in 1 .. k : (w \o q)[i] = w[i]
    BY <1>1
  <2>3. k <= Len(w \o q)
    BY <1>1
  <2> QED
    BY <2>1, <2>2, <2>3
<1>4. Len(w) <= Len(w \o q) /\ \A i \in 1 .. Len(w) : w[i] = (w \o q)[i]
  BY <1>1
<1>5. ASSUME NEW f \in Frame PROVE w \o Append(q, f) = Append(w \o q, f)
  <2>1. <<f>> \in Seq(Frame) /\ Append(q, f) = q \o <<f>> /\ Append(w \o q, f) = (w \o q) \o <<f>>
    BY <1>1, AppendIsConcat
  <2> QED
    BY <2>1, ConcatAssociative
<1>6. ASSUME w # <<>>
      PROVE  Tail(w) \o q = Tail(w \o q) /\ Head(w) = Head(w \o q) /\ w \o q # <<>>
  <2> DEFINE t == Tail(w)
             z == Tail(w \o q)
  <2>1. /\ t \in Seq(Frame) /\ Len(t) = Len(w) - 1 /\ \A i \in 1 .. Len(t) : t[i] = w[i + 1]
        /\ Len(w) \in Nat \ {0} /\ Head(w) = w[1]
    BY <1>6, HeadTailProperties, EmptySeq
  <2>2. w \o q # <<>>
    BY <1>1, <2>1, EmptySeq
  <2>3. /\ z \in Seq(Frame) /\ Len(z) = Len(w \o q) - 1
        /\ \A i \in 1 .. Len(z) : z[i] = (w \o q)[i + 1]
        /\ Head(w \o q) = (w \o q)[1]
    BY <1>1, <2>2, HeadTailProperties
  <2> HIDE DEF t, z
  <2>4. /\ t \o q \in Seq(Frame) /\ Len(t \o q) = Len(t) + Len(q)
        /\ \A i \in 1 .. Len(t) + Len(q) :
             (t \o q)[i] = IF i <= Len(t) THEN t[i] ELSE q[i - Len(t)]
    BY <2>1, ConcatProperties
  <2>5. Len(t \o q) = Len(z)
    BY <1>1, <2>1, <2>3, <2>4
  <2>6. ASSUME NEW i \in 1 .. Len(t \o q) PROVE (t \o q)[i] = z[i]
    <3>1. /\ i \in 1 .. Len(t) + Len(q) /\ i \in 1 .. Len(z)
          /\ i + 1 \in 1 .. Len(w) + Len(q) /\ (i <= Len(t) <=> i + 1 <= Len(w))
          /\ i - Len(t) = (i + 1) - Len(w)
      BY <1>1, <2>1, <2>4, <2>5
    <3>2. z[i] = IF i <= Len(t) THEN w[i + 1] ELSE q[i - Len(t)]
      BY <1>1, <2>3, <3>1
    <3>3. i <= Len(t) => t[i] = w[i + 1]
      BY <1>1, <2>1, <3>1
    <3> QED
      BY <2>4, <3>1, <3>2, <3>3
  <2>7. t \o q = z
    BY <2>3, <2>4, <2>5, <2>6, SeqEqual
  <2>8. (w \o q)[1] = w[1]
    BY <1>1, <2>1
  <2> QED
    BY <2>1, <2>2, <2>3, <2>7, <2>8 DEF t, z
<1>7. ASSUME q # <<>> PROVE Append(w, Head(q)) \o Tail(q) = w \o q
  <2>0. Len(q) \in Nat \ {0} /\ Tail(q) = SubSeq(q, 2, Len(q)) /\ Head(q) = q[1]
    BY <1>7, EmptySeq, TailIsSubSeq
  <2>f. SubSeq(q, 1, Len(q)) = q
    BY SubSeqFull
  <2>1. /\ Head(q) \in Frame /\ Tail(q) \in Seq(Frame) /\ q = <<Head(q)>> \o Tail(q)
        /\ <<Head(q)>> \in Seq(Frame)
    <3>1. SubSeq(q, 1, Len(q)) = <<q[1]>> \o SubSeq(q, 1 + 1, Len(q))
      BY <2>0, SubSeqRecursiveFirst
    <3> QED
      BY <1>7, <2>0, <2>f, <3>1, HeadTailProperties
  <2>2. Append(w, Head(q)) = w \o <<Head(q)>>
    BY <2>1, AppendIsConcat
  <2>3. (w \o <<Head(q)>>) \o Tail(q) = w \o (<<Head(q)>> \o Tail(q))
    BY <2>1, ConcatAssociative
  <2> QED
    BY <2>1, <2>2, <2>3
<1> QED
  BY <1>2, <1>3, <1>4, <1>5, <1>6, <1>7

-----------------------------------------------------------------------------
(* Each step leaves a stream as it is, cuts it, adds to its end or reads   *)
(* its head.                                                               *)
LEMMA SendQueuedStreams ==
  ASSUME TypeOK, SendQueued, NEW c \in Conns
  PROVE  \/ Stream(c)' = Stream(c)
         \/ /\ c = conn /\ runPc = "serving" /\ up[conn]
            /\ Stream(c)' = Append(Stream(c), Telemetry(batch, FALSE))
<1> DEFINE f == Telemetry(batch, FALSE)
<1>1. /\ UNCHANGED <<runPc, conn, wire, up>>
      /\ sendq \in [Conns -> Seq(Frame)]
      /\ sendq' = [sendq EXCEPT ![flushPeer] = Append(@, f)] /\ f \in Frame
  BY BatchFrame DEF SendQueued, connVars, TypeOK, AgentTypes, NetTypes
<1> HIDE DEF f
<1>2. CASE c = conn /\ runPc = "serving" /\ up[conn] /\ flushPeer = conn
  <2>1. Queued' = Append(Queued, f) /\ Queued \in Seq(Frame)
    BY <1>1, <1>2 DEF Queued
  <2>2. Stream(c) = wire[c] \o Queued /\ Stream(c)' = wire[c] \o Queued'
    BY <1>1, <1>2 DEF Stream
  <2>3. wire[c] \in Seq(Frame)
    BY StreamTypes
  <2>f. f \in Frame /\ Queued \in Seq(Frame)
    BY <1>1, <2>1
  <2>4. wire[c] \o Append(Queued, f) = Append(wire[c] \o Queued, f)
    BY <2>f, <2>3, EndToEnd
  <2> QED
    BY <1>2, <2>1, <2>2, <2>4 DEF f
<1>3. CASE ~ (c = conn /\ runPc = "serving" /\ up[conn] /\ flushPeer = conn)
  <2>1. c = conn /\ up[conn] => Queued' = Queued
    BY <1>1, <1>3 DEF Queued
  <2> QED
    BY <1>1, <2>1 DEF Stream
<1> QED
  BY <1>2, <1>3

LEMMA PublishStreams ==
  ASSUME TypeOK, OrderInv, Publish, NEW c \in Conns
  PROVE  \/ Stream(c)' = Stream(c) /\ (c = conn => ~ up[conn])
         \/ c = conn /\ up[conn] /\ Stream(c)' = <<Register>> \o Replay(drained)
<1> DEFINE fs == <<Register>> \o Replay(drained)
<1>1. /\ UNCHANGED <<conn, wire, up>> /\ runPc = "drained" /\ runPc' = "serving"
      /\ sendq \in [Conns -> Seq(Frame)] /\ conn \in Conns
      /\ sendq' = [sendq EXCEPT ![conn] = fs]
      /\ drained \in Seq(Metrics) /\ Len(drained) <= SpoolCap
  BY StreamTypes DEF Publish, agentVars, TypeOK, NetTypes, SpoolTypes
<1>2. fs \in Seq(Frame)
  BY <1>1, PublishedFrames
<1> HIDE DEF fs
<1>3. Queued' = fs /\ <<>> \o fs = fs
  BY <1>1, <1>2, ConcatEmptySeq DEF Queued
<1>4. wire[conn] = <<>>
  BY <1>1 DEF OrderInv
<1> QED
  BY <1>1, <1>3, <1>4 DEF Stream, fs

LEMMA WriteFrameStreams ==
  ASSUME TypeOK, WriteFrame, NEW c \in Conns
  PROVE  Stream(c)' = Stream(c)
<1>1. /\ UNCHANGED <<conn, runPc, up>> /\ runPc = "serving"
      /\ sendq \in [Conns -> Seq(Frame)] /\ wire \in [Conns -> Seq(Frame)] /\ conn \in Conns
      /\ sendq[conn] # <<>> /\ up[conn]
      /\ wire' = [wire EXCEPT ![conn] = Append(@, Head(sendq[conn]))]
      /\ sendq' = [sendq EXCEPT ![conn] = Tail(@)]
  BY StreamTypes DEF WriteFrame, connVars, TypeOK, NetTypes
<1>2. Queued = sendq[conn] /\ Queued' = Tail(sendq[conn])
  BY <1>1 DEF Queued
<1>3. Append(wire[conn], Head(sendq[conn])) \o Tail(sendq[conn]) = wire[conn] \o sendq[conn]
  <2>1. wire[conn] \in Seq(Frame) /\ sendq[conn] \in Seq(Frame)
    BY <1>1
  <2> QED
    BY <1>1, <2>1, EndToEnd
<1>4. c # conn => Stream(c)' = Stream(c)
  BY <1>1 DEF Stream
<1>5. c = conn => Stream(c)' = Stream(c)
  BY <1>1, <1>2, <1>3 DEF Stream
<1> QED
  BY <1>4, <1>5

(* A stream t that is what is left of s when its end is lost.              *)
Starts(t, s) == Len(t) <= Len(s) /\ \A i \in 1 .. Len(t) : t[i] = s[i]

LEMMA EndStreams ==
  ASSUME TypeOK, EndServe \/ Restart, NEW c \in Conns
  PROVE  Starts(Stream(c)', Stream(c))
<1>1. UNCHANGED wire /\ runPc' = "idle"
  BY DEF EndServe, Restart, agentVars, spoolVars, hubVars
<1>2. Queued' = <<>>
  BY <1>1 DEF Queued
<1>3. wire[c] \in Seq(Frame) /\ Rest(c) \in Seq(Frame) /\ Stream(c) = wire[c] \o Rest(c)
  BY StreamTypes
<1>4. Stream(c)' = wire[c]
  BY <1>1, <1>2, <1>3, EndToEnd DEF Stream
<1> QED
  BY <1>3, <1>4, EndToEnd DEF Starts

LEMMA CutStreams ==
  ASSUME TypeOK, NEW d \in Conns, Cut(d), NEW c \in Conns
  PROVE  Starts(Stream(c)', Stream(c)) /\ (c # d => Stream(c)' = Stream(c))
<1>1. /\ UNCHANGED <<conn, runPc, sendq>>
      /\ wire \in [Conns -> Seq(Frame)] /\ up \in [Conns -> BOOLEAN]
      /\ up' = [up EXCEPT ![d] = FALSE]
  BY DEF Cut, connVars, TypeOK, NetTypes
<1>2. PICK k \in 0 .. Len(wire[d]) : wire' = [wire EXCEPT ![d] = SubSeq(@, 1, k)]
  BY DEF Cut
<1>3. Queued' = Queued
  BY <1>1 DEF Queued
<1>4. c # d => Stream(c)' = Stream(c)
  BY <1>1, <1>2, <1>3 DEF Stream
<1>5. wire'[d] = SubSeq(wire[d], 1, k) /\ ~ up'[d] /\ wire[d] \in Seq(Frame)
  BY <1>1, <1>2
<1>6. Stream(d)' = SubSeq(wire[d], 1, k)
  <2>1. SubSeq(wire[d], 1, k) \in Seq(Frame)
    BY <1>5, PrefixSeq
  <2> QED
    BY <1>5, <2>1, ConcatEmptySeq DEF Stream
<1>7. CASE c = d
  <2>1. Rest(d) \in Seq(Frame) /\ Stream(d) = wire[d] \o Rest(d)
    BY StreamTypes
  <2> QED
    BY <1>5, <1>6, <1>7, <2>1, EndToEnd DEF Starts
<1>8. CASE c # d
  <2>1. Stream(c) \in Seq(Frame) /\ Len(Stream(c)) \in Nat
    BY StreamTypes, LenProperties
  <2> QED
    BY <1>4, <1>8, <2>1 DEF Starts
<1> QED
  BY <1>4, <1>7, <1>8

LEMMA HubStreams ==
  ASSUME TypeOK, NEW d \in Conns, HubRegister(d) \/ HubTelemetry(d), NEW c \in Conns
  PROVE  /\ c # d => Stream(c)' = Stream(c)
         /\ c = d => /\ Stream(c) # <<>> /\ Head(Stream(c)) = Head(wire[c])
                     /\ Stream(c)' = Tail(Stream(c))
<1>1. /\ UNCHANGED <<conn, runPc, sendq, up>>
      /\ wire \in [Conns -> Seq(Frame)]
      /\ wire[d] # <<>> /\ wire' = [wire EXCEPT ![d] = Tail(@)]
  BY DEF HubRegister, HubTelemetry, connVars, TypeOK, NetTypes
<1>2. Queued' = Queued
  BY <1>1 DEF Queued
<1>3. c # d => Stream(c)' = Stream(c)
  BY <1>1, <1>2 DEF Stream
<1>4. CASE c = d
  <2>1. wire[d] \in Seq(Frame) /\ Rest(d) \in Seq(Frame) /\ Stream(d) = wire[d] \o Rest(d)
    BY StreamTypes
  <2>2. /\ Tail(wire[d]) \o Rest(d) = Tail(wire[d] \o Rest(d))
        /\ Head(wire[d]) = Head(wire[d] \o Rest(d)) /\ wire[d] \o Rest(d) # <<>>
    BY <1>1, <2>1, EndToEnd
  <2>3. Stream(d)' = Tail(wire[d]) \o Rest(d)
    BY <1>1, <1>2 DEF Stream, Rest
  <2> QED
    BY <1>4, <2>1, <2>2, <2>3
<1> QED
  BY <1>3, <1>4

-----------------------------------------------------------------------------
(* RegisterReplayLive, action by action.                                   *)
LEMMA OrderStill ==
  ASSUME TypeOK, TypeOK', OrderInv, UNCHANGED <<runPc, conn, sendq, wire, up, named>>
  PROVE  OrderInv'
<1>1. \A c \in Conns : Stream(c)' = Stream(c)
  BY DEF Stream, Queued
<1>2. RegisterReplayLive'
  BY <1>1 DEF OrderInv, RegisterReplayLive
<1>3. Stream(conn)' = Stream(conn)
  BY DEF Stream, Queued
<1> QED
  BY <1>2, <1>3 DEF OrderInv

LEMMA OrderSendQueued ==
  ASSUME TypeOK, TypeOK', OrderInv, SendQueued
  PROVE  OrderInv'
<1> DEFINE f == Telemetry(batch, FALSE)
<1>1. /\ UNCHANGED <<runPc, conn, wire, up, named>>
      /\ sendq \in [Conns -> Seq(Frame)]
      /\ sendq' = [sendq EXCEPT ![flushPeer] = Append(@, f)]
      /\ f \in Frame /\ f.kind = "TELEMETRY" /\ f.replay = FALSE
  BY BatchFrame DEF SendQueued, connVars, hubVars, TypeOK, AgentTypes, NetTypes
<1> HIDE DEF f
<1>2. ASSUME NEW c \in Conns
      PROVE  Stream(c)' = Stream(c) \/ (/\ c = conn /\ runPc = "serving" /\ up[conn]
                                        /\ Stream(c)' = Append(Stream(c), f))
  BY SendQueuedStreams DEF f
<1>3. ASSUME NEW c \in Conns PROVE InOrder(Stream(c)', named'[c])
  <2>1. InOrder(Stream(c), named[c]) /\ Stream(c) \in Seq(Frame) /\ named[c] \in BOOLEAN
    BY StreamTypes DEF OrderInv, RegisterReplayLive
  <2>2. CASE Stream(c)' = Stream(c)
    BY <1>1, <2>1, <2>2
  <2>3. CASE /\ c = conn /\ runPc = "serving" /\ up[conn]
             /\ Stream(c)' = Append(Stream(c), f)
    <3>1. Stream(c) # <<>> \/ named[c]
      BY <2>3 DEF OrderInv
    <3>2. InOrder(Append(Stream(c), f), named[c])
      BY <1>1, <2>1, <3>1, LiveAtTheEnd
    <3> QED
      BY <1>1, <2>3, <3>2
  <2> QED
    BY <1>2, <2>2, <2>3
<1>4. RegisterReplayLive'
  BY <1>3 DEF RegisterReplayLive
<1>5. ASSUME NEW c \in Conns, Stream(c) # <<>> PROVE Stream(c)' # <<>>
  <2>1. Stream(c) \in Seq(Frame)
    BY StreamTypes
  <2>2. Append(Stream(c), f) # <<>>
    BY <1>1, <2>1, AppendProperties
  <2> QED
    BY <1>2, <1>5, <2>2
<1>6. \A c \in Conns : c = conn => Stream(c) = Stream(conn) /\ Stream(conn)' = Stream(c)'
  BY <1>1 DEF Stream
<1>7. runPc = "serving" => conn \in Conns
  BY Bounds DEF TypeOK, ConnTypes, Conns
<1>8. runPc = "serving" /\ Stream(conn) # <<>> => Stream(conn)' # <<>>
  BY <1>5, <1>6, <1>7
<1> QED
  BY <1>1, <1>4, <1>8 DEF OrderInv

StreamsAreSeqs == \A c \in Conns : Stream(c) \in Seq(Frame)

LEMMA StreamsTyped == TypeOK => StreamsAreSeqs
  BY StreamTypes DEF StreamsAreSeqs

LEMMA ShorterStreams ==
  ASSUME TypeOK, TypeOK', RegisterReplayLive, UNCHANGED named,
         \A c \in Conns : Starts(Stream(c)', Stream(c))
  PROVE  RegisterReplayLive'
<1> SUFFICES ASSUME NEW c \in Conns PROVE InOrder(Stream(c)', named'[c])
  BY DEF RegisterReplayLive
<1>t. StreamsAreSeqs'
  BY StreamsTyped, PTL
<1>1. Stream(c) \in Seq(Frame) /\ named[c] \in BOOLEAN /\ Stream(c)' \in Seq(Frame)
  BY <1>t, StreamTypes DEF StreamsAreSeqs
<1>2. InOrder(Stream(c), named[c]) /\ named'[c] = named[c]
  BY DEF RegisterReplayLive
<1> DEFINE s == Stream(c)
           t == Stream(c)'
<1>3. s \in Seq(Frame) /\ t \in Seq(Frame) /\ Len(t) <= Len(s) /\ \A i \in 1 .. Len(t) : t[i] = s[i]
  BY <1>1 DEF Starts
<1>4. InOrder(s, named[c])
  BY <1>2
<1> HIDE DEF s, t
<1>5. InOrder(t, named[c])
  BY <1>1, <1>3, <1>4, SameOrder
<1> QED
  BY <1>2, <1>5 DEF t

LEMMA SameStreams ==
  ASSUME RegisterReplayLive, UNCHANGED named, \A c \in Conns : Stream(c)' = Stream(c)
  PROVE  RegisterReplayLive'
  BY DEF RegisterReplayLive

LEMMA OrderConnect ==
  ASSUME TypeOK, TypeOK', OrderInv, Connect
  PROVE  OrderInv'
<1>1. /\ UNCHANGED <<sendq, wire, named>> /\ runPc = "idle" /\ runPc' = "drained"
      /\ conn' = conn + 1 /\ conn \in Nat
  BY Bounds DEF Connect, hubVars, TypeOK, ConnTypes
<1>2. Queued = <<>> /\ Queued' = <<>>
  BY <1>1 DEF Queued
<1>3. \A c \in Conns : Stream(c)' = Stream(c)
  BY <1>1, <1>2 DEF Stream
<1>4. \A c \in Conns : c > conn' \/ c = conn' => c > conn
  BY <1>1, Bounds DEF Conns
<1> QED
  BY <1>1, <1>3, <1>4, SameStreams DEF OrderInv

LEMMA OrderPublish ==
  ASSUME TypeOK, TypeOK', OrderInv, Publish
  PROVE  OrderInv'
<1> DEFINE fs == <<Register>> \o Replay(drained)
<1>1. /\ UNCHANGED <<conn, wire, up, named>> /\ runPc = "drained" /\ runPc' = "serving"
      /\ sendq \in [Conns -> Seq(Frame)] /\ conn \in Conns
      /\ sendq' = [sendq EXCEPT ![conn] = fs]
      /\ drained \in Seq(Metrics) /\ Len(drained) <= SpoolCap
  BY StreamTypes, Bounds DEF Publish, agentVars, hubVars, TypeOK, NetTypes, SpoolTypes, ConnTypes, Conns
<1>a. Replay(drained) \in Seq(Frame)
  BY <1>1, ReplayChunks
<1>b. Len(Replay(drained)) \in Nat
  BY <1>a, LenProperties
<1>c. fs \in Seq(Frame) /\ Len(fs) = 1 + Len(Replay(drained))
  BY <1>1, PublishedFrames
<1>d. InOrder(fs, FALSE)
  BY <1>1, PublishedOrder
<1> HIDE DEF fs
<1>e. Len(fs) >= 1
  BY <1>b, <1>c
<1>2. fs \in Seq(Frame) /\ InOrder(fs, FALSE) /\ Len(fs) >= 1
  BY <1>c, <1>d, <1>e
<1>3. ~ named[conn]
  BY <1>1 DEF OrderInv
<1>4. ASSUME NEW c \in Conns
      PROVE  \/ Stream(c)' = Stream(c) /\ (c = conn => ~ up[conn])
             \/ c = conn /\ up[conn] /\ Stream(c)' = fs
  BY PublishStreams DEF fs
<1>5. ASSUME NEW c \in Conns PROVE InOrder(Stream(c)', named'[c])
  <2>1. InOrder(Stream(c), named[c]) /\ named[c] \in BOOLEAN
    BY StreamTypes DEF OrderInv, RegisterReplayLive
  <2>2. c = conn => named[c] = FALSE
    BY <1>3, <2>1
  <2> QED
    BY <1>1, <1>2, <1>4, <2>1, <2>2
<1>6. \A c \in Conns : c = conn => Stream(conn)' = Stream(c)'
  BY <1>1 DEF Stream
<1>7. up[conn] => Stream(conn)' = fs
  BY <1>1, <1>4, <1>6
<1>8. fs # <<>>
  BY <1>2, EmptySeq
<1> QED
  BY <1>1, <1>5, <1>7, <1>8 DEF OrderInv, RegisterReplayLive

LEMMA OrderWriteFrame ==
  ASSUME TypeOK, TypeOK', OrderInv, WriteFrame
  PROVE  OrderInv'
<1>1. /\ UNCHANGED <<conn, runPc, up, named>> /\ runPc = "serving"
      /\ wire \in [Conns -> Seq(Frame)] /\ conn \in Conns
      /\ wire' = [wire EXCEPT ![conn] = Append(@, Head(sendq[conn]))]
  BY Bounds DEF WriteFrame, connVars, hubVars, TypeOK, NetTypes, ConnTypes, Conns
<1>2. \A c \in Conns : c # conn => wire'[c] = wire[c]
  BY <1>1
<1>3. \A c \in Conns : Stream(c)' = Stream(c)
  BY WriteFrameStreams
<1>4. \A c \in Conns : c = conn => Stream(conn)' = Stream(c)' /\ Stream(c) = Stream(conn)
  BY <1>1 DEF Stream
<1>5. Stream(conn)' = Stream(conn)
  BY <1>1, <1>3, <1>4
<1>6. RegisterReplayLive'
  BY <1>1, <1>3, SameStreams DEF OrderInv
<1>7. \A c \in Conns : c > conn => c # conn
  BY <1>1, Bounds DEF Conns
<1> QED
  BY <1>1, <1>2, <1>5, <1>6, <1>7 DEF OrderInv

LEMMA OrderEnd ==
  ASSUME TypeOK, TypeOK', OrderInv, EndServe \/ Restart
  PROVE  OrderInv'
<1>1. UNCHANGED <<conn, wire, named>> /\ runPc' = "idle"
  BY DEF EndServe, Restart, agentVars, spoolVars, hubVars
<1>2. RegisterReplayLive'
  BY <1>1, EndStreams, ShorterStreams DEF OrderInv
<1> QED
  BY <1>1, <1>2 DEF OrderInv

LEMMA OrderCut ==
  ASSUME TypeOK, TypeOK', OrderInv, NEW d \in Conns, Cut(d)
  PROVE  OrderInv'
<1>1. /\ UNCHANGED <<conn, runPc, sendq, named>>
      /\ wire \in [Conns -> Seq(Frame)] /\ up \in [Conns -> BOOLEAN]
      /\ up' = [up EXCEPT ![d] = FALSE]
  BY DEF Cut, connVars, hubVars, TypeOK, NetTypes
<1>2. PICK k \in 0 .. Len(wire[d]) : wire' = [wire EXCEPT ![d] = SubSeq(@, 1, k)]
  BY DEF Cut
<1>4. \A c \in Conns : c # d => wire'[c] = wire[c] /\ up'[c] = up[c]
  BY <1>1, <1>2
<1>5. wire'[d] = SubSeq(wire[d], 1, k) /\ ~ up'[d] /\ wire[d] \in Seq(Frame)
  BY <1>1, <1>2
<1>8. RegisterReplayLive'
  BY <1>1, CutStreams, ShorterStreams DEF OrderInv
<1>9. wire[d] = <<>> => wire'[d] = <<>>
  <2>1. SubSeq(wire[d], 1, k) \in Seq(Frame) /\ Len(SubSeq(wire[d], 1, k)) = k
    BY <1>5, PrefixSeq
  <2>2. wire[d] = <<>> => k = 0
    BY EmptySeq
  <2> QED
    BY <1>5, <2>1, <2>2, EmptySeq
<1>10. runPc = "serving" /\ up'[conn] => conn # d /\ conn \in Conns
  BY <1>5, Bounds DEF TypeOK, ConnTypes, Conns
<1>s. \A c \in Conns : c = conn => Stream(conn)' = Stream(c)' /\ Stream(c) = Stream(conn)
  BY <1>1 DEF Stream
<1>11. conn # d /\ conn \in Conns => Stream(conn)' = Stream(conn) /\ up'[conn] = up[conn]
  BY <1>4, <1>s, CutStreams
<1> QED
  BY <1>1, <1>4, <1>8, <1>9, <1>10, <1>11 DEF OrderInv

(* The hub meets REGISTER exactly when it does not know the name, so a     *)
(* connection that has read anything has a name.                           *)
LEMMA OrderHub ==
  ASSUME TypeOK, TypeOK', OrderInv, NEW d \in Conns, HubRegister(d) \/ HubTelemetry(d)
  PROVE  OrderInv'
<1> DEFINE f == Head(wire[d])
<1>1. /\ UNCHANGED <<conn, runPc, sendq, up>>
      /\ wire \in [Conns -> Seq(Frame)] /\ named \in [Conns -> BOOLEAN]
      /\ wire[d] # <<>> /\ wire' = [wire EXCEPT ![d] = Tail(@)]
      /\ \/ f.kind = "REGISTER" /\ named' = [named EXCEPT ![d] = TRUE]
         \/ f.kind = "TELEMETRY" /\ named' = named
  BY DEF HubRegister, HubTelemetry, connVars, TypeOK, NetTypes, HubTypes
<1> HIDE DEF f
<1>3. \A c \in Conns : c # d => wire'[c] = wire[c] /\ named'[c] = named[c]
  BY <1>1
<1>4. Stream(d) \in Seq(Frame) /\ named[d] \in BOOLEAN
  BY StreamTypes
<1>5. /\ Stream(d) # <<>> /\ Head(Stream(d)) = f /\ Stream(d)' = Tail(Stream(d))
      /\ \A c \in Conns : c # d => Stream(c)' = Stream(c)
  BY HubStreams DEF f
<1>6. InOrder(Stream(d), named[d])
  BY DEF OrderInv, RegisterReplayLive
<1>7. InOrder(Tail(Stream(d)), TRUE) /\ ((f.kind = "REGISTER") <=> ~ named[d])
  BY <1>4, <1>5, <1>6, HeadRead
<1>8. named'[d] = TRUE
  BY <1>1, <1>4, <1>7
<1>9. RegisterReplayLive'
  <2> SUFFICES ASSUME NEW c \in Conns PROVE InOrder(Stream(c)', named'[c])
    BY DEF RegisterReplayLive
  <2>1. CASE c = d
    BY <1>5, <1>7, <1>8, <2>1
  <2>2. CASE c # d
    BY <1>3, <1>5, <2>2 DEF OrderInv, RegisterReplayLive
  <2> QED
    BY <2>1, <2>2
<1>10. ~ (d > conn \/ (d = conn /\ runPc = "drained"))
  BY <1>1 DEF OrderInv
<1>11. runPc = "serving" /\ ~ named'[conn] => conn # d /\ conn \in Conns
  BY <1>8, Bounds DEF TypeOK, ConnTypes, Conns
<1>s. \A c \in Conns : c = conn => Stream(conn)' = Stream(c)' /\ Stream(c) = Stream(conn)
  BY <1>1 DEF Stream
<1>12. conn # d /\ conn \in Conns => Stream(conn)' = Stream(conn) /\ named'[conn] = named[conn]
  BY <1>3, <1>5, <1>s
<1> QED
  BY <1>1, <1>3, <1>9, <1>10, <1>11, <1>12 DEF OrderInv

LEMMA OrderStep == TypeOK /\ TypeOK' /\ OrderInv /\ [Next]_vars => OrderInv'
<1> SUFFICES ASSUME TypeOK, TypeOK', OrderInv, [Next]_vars PROVE OrderInv'
  OBVIOUS
<1>1. CASE \/ Stamp \/ (\E m \in Metrics : Submit(m)) \/ LoopTake \/ FlushBegin \/ FlushPush
           \/ SendFailed \/ Shutdown \/ UNCHANGED vars
  BY <1>1, OrderStill
  DEF Stamp, Submit, LoopTake, FlushBegin, FlushPush, SendFailed, Shutdown,
      vars, agentVars, connVars, netVars, hubVars
<1> QED
  BY <1>1, OrderSendQueued, OrderConnect, OrderPublish, OrderWriteFrame, OrderEnd, OrderCut,
     OrderHub DEF Next

LEMMA OrderInvariant == Spec => []OrderInv
<1>1. Init => OrderInv
  <2> SUFFICES ASSUME Init PROVE OrderInv
    OBVIOUS
  <2>1. /\ \A c \in Conns : wire[c] = <<>> /\ named[c] = FALSE
        /\ Queued = <<>> /\ runPc = "idle"
    BY DEF Init, Queued
  <2>2. <<>> \o <<>> = <<>> /\ <<>> \in Seq(Frame)
    BY EmptySeq, ConcatEmptySeq
  <2>3. \A c \in Conns : Stream(c) = <<>>
    BY <2>1, <2>2 DEF Stream
  <2>4. DOMAIN <<>> = {}
    BY <2>2, EmptySeq, LenProperties
  <2>5. \A c \in Conns : InOrder(Stream(c), named[c])
    BY <2>3, <2>4 DEF InOrder
  <2> QED
    BY <2>1, <2>5 DEF OrderInv, RegisterReplayLive
<1> QED
  BY <1>1, TypesInvariant, OrderStep, PTL DEF Spec

(* The order connectOnce sets up in the queue holds all the way to the     *)
(* hub: REGISTER, then the replayed batches, then the live ones.           *)
THEOREM OrderedStreams == Spec => []RegisterReplayLive
<1>1. OrderInv => RegisterReplayLive
  BY DEF OrderInv
<1> QED
  BY <1>1, OrderInvariant, PTL

-----------------------------------------------------------------------------
(* How a metric gets lost.  First: a replay carries the whole spool.       *)
LEMMA DivDown ==
  ASSUME NEW n \in Nat, NEW b \in Nat \ {0}
  PROVE  n \div b \in Nat /\ (n \div b) * b <= n /\ n < (n \div b) * b + b
  BY SMT

LEMMA ReplayCovers ==
  ASSUME NEW ms \in Seq(Metrics), NEW i \in 1 .. Len(ms)
  PROVE  \E k \in DOMAIN Replay(ms) : ms[i] \in Elems(Replay(ms)[k].metrics)
<1> DEFINE n == Len(ms)
           q == (n + MaxBatch - 1) \div MaxBatch
           d == (i - 1) \div MaxBatch
           k == d + 1
           lo == (k - 1) * MaxBatch + 1
           hi == MinOf({k * MaxBatch, n})
           chunk == SubSeq(ms, lo, hi)
<1>1. n \in Nat /\ MaxBatch \in Nat \ {0} /\ i \in 1 .. n
  BY Bounds, LenProperties
<1> HIDE DEF n
<1>2. /\ q \in Nat /\ q * MaxBatch <= n + MaxBatch - 1
      /\ n + MaxBatch - 1 < q * MaxBatch + MaxBatch
  <2>1. n + MaxBatch - 1 \in Nat
    BY <1>1
  <2> QED
    BY <1>1, <2>1, DivDown
<1>3. d \in Nat /\ d * MaxBatch <= i - 1 /\ i - 1 < d * MaxBatch + MaxBatch
  <2>1. i - 1 \in Nat
    BY <1>1
  <2> QED
    BY <1>1, <2>1, DivDown
<1> HIDE DEF q, d
<1>m. q * MaxBatch \in Nat /\ d * MaxBatch \in Nat
  BY <1>1, <1>2, <1>3, MulMono
<1>4. d < q
  <2>1. q * MaxBatch <= d * MaxBatch \/ d < q
    BY <1>1, <1>2, <1>3, MulMono
  <2> QED
    BY <1>1, <1>2, <1>3, <1>m, <2>1
<1>5. k \in 1 .. q /\ k - 1 = d /\ k \in Nat \ {0}
  BY <1>2, <1>3, <1>4
<1>6. k * MaxBatch = d * MaxBatch + MaxBatch
  BY <1>1, <1>5, MulBefore
<1>7. lo = d * MaxBatch + 1 /\ hi \in {k * MaxBatch, n} /\ hi \in Nat
  <2>1. k * MaxBatch \in Nat
    BY <1>1, <1>6, <1>m
  <2>2. hi \in {k * MaxBatch, n}
    BY <1>1, <2>1, MinOfPair
  <2> QED
    BY <1>1, <1>5, <2>1, <2>2
<1>8. /\ lo \in Int /\ hi \in Int /\ lo >= 1 /\ lo <= i /\ i <= hi /\ hi <= n
  <2>1. hi <= n
    BY <1>1, <1>6, <1>m, MinOfPair
  <2> QED
    BY <1>1, <1>3, <1>6, <1>7, <1>m, <2>1
<1>9. Replay(ms)[k].metrics = chunk /\ k \in DOMAIN Replay(ms)
  BY <1>5 DEF Replay, Telemetry, q, n
<1> HIDE DEF lo, hi, k
<1>10. \A j \in lo .. hi : ms[j] \in Metrics
  BY <1>1, <1>8, ElementOfSeq DEF n
<1>11. /\ chunk \in Seq(Metrics) /\ Len(chunk) = IF lo <= hi THEN hi - lo + 1 ELSE 0
       /\ \A j \in 1 .. hi - lo + 1 : chunk[j] = ms[lo + j - 1]
  BY <1>8, <1>10, SubSeqProperties
<1>12. DOMAIN chunk = 1 .. Len(chunk)
  BY <1>11, LenProperties
<1> HIDE DEF chunk
<1>13. /\ i - lo + 1 \in 1 .. hi - lo + 1 /\ i - lo + 1 \in DOMAIN chunk
       /\ lo + (i - lo + 1) - 1 = i
  BY <1>1, <1>8, <1>11, <1>12
<1>14. chunk[i - lo + 1] = ms[i]
  BY <1>11, <1>13
<1> QED
  BY <1>9, <1>13, <1>14 DEF Elems

LEMMA PublishedCovers ==
  ASSUME NEW ms \in Seq(Metrics), Len(ms) <= SpoolCap
  PROVE  Elems(ms) \subseteq MetricsIn(<<Register>> \o Replay(ms))
<1> DEFINE r == Replay(ms)
           fs == <<Register>> \o r
<1>1. /\ fs \in Seq(Frame) /\ Len(fs) = 1 + Len(r)
      /\ \A i \in 2 .. Len(fs) : fs[i] = r[i - 1]
  BY PublishedFrames
<1>2. r \in Seq(Frame)
  BY ReplayChunks
<1>3. DOMAIN fs = 1 .. 1 + Len(r) /\ DOMAIN r = 1 .. Len(r) /\ Len(r) \in Nat
  BY <1>1, <1>2, LenProperties
<1>4. \A i \in 1 .. Len(ms) : \E k \in DOMAIN r : ms[i] \in Elems(r[k].metrics)
  BY ReplayCovers
<1>5. DOMAIN ms = 1 .. Len(ms)
  BY LenProperties
<1> HIDE DEF r, fs
<1>6. \A k \in DOMAIN r : k + 1 \in DOMAIN fs /\ fs[k + 1] = r[k]
  BY <1>1, <1>3
<1>7. \A k \in DOMAIN r : Elems(r[k].metrics) \subseteq MetricsIn(fs)
  BY <1>6 DEF MetricsIn
<1>8. Elems(ms) \subseteq MetricsIn(fs)
  BY <1>4, <1>5, <1>7 DEF Elems
<1> QED
  BY <1>8 DEF fs, r

(* A push forgets at most the oldest metric, and counts it.                *)
LEMMA PushForgets ==
  ASSUME SpoolTypes, NEW x \in Metrics, Spool!Push(x)
  PROVE  /\ x \in Elems(spool') /\ drained' = drained
         /\ \A m \in Elems(spool) \ Elems(spool') : m = Head(spool) /\ dropped' = dropped + 1
<1>1. spool \in Seq(Metrics) /\ Len(spool) \in Nat /\ SpoolCap \in Nat \ {0}
  BY Bounds, LenProperties DEF SpoolTypes
<1>2. CASE Spool!Full
  <2>1. spool' = Append(Tail(spool), x) /\ drained' = drained /\ dropped' = dropped + 1
    BY <1>2 DEF Spool!Push
  <2>2. spool # <<>>
    BY <1>1, <1>2, EmptySeq DEF Spool!Full
  <2>3. Tail(spool) \in Seq(Metrics) /\ Elems(spool) = {Head(spool)} \cup Elems(Tail(spool))
    BY <1>1, <2>2, TailSeq
  <2>4. Elems(Append(Tail(spool), x)) = Elems(Tail(spool)) \cup {x}
    <3> DEFINE t == Tail(spool)
    <3>1. t \in Seq(Metrics) /\ x \in Metrics
      BY <2>3
    <3> HIDE DEF t
    <3>2. Elems(Append(t, x)) = Elems(t) \cup {x}
      BY <3>1, AppendSeq
    <3> QED
      BY <3>2 DEF t
  <2> QED
    BY <2>1, <2>3, <2>4
<1>3. CASE ~Spool!Full
  <2>1. spool' = Append(spool, x) /\ drained' = drained
    BY <1>3 DEF Spool!Push
  <2>2. Elems(spool') = Elems(spool) \cup {x}
    BY <1>1, <2>1, AppendSeq
  <2> QED
    BY <2>1, <2>2
<1> QED
  BY <1>2, <1>3

(* The peer flush() holds on to is the one being served, or it is done:    *)
(* a batch queued on a peer of the past was accepted by a dead peer.       *)
FlushInv ==
  flushPeer # 0 => (runPc = "serving" /\ flushPeer = conn) \/ done[flushPeer]

LEMMA FlushStep == TypeOK /\ FlushInv /\ [Next]_vars => FlushInv'
<1> SUFFICES ASSUME TypeOK, FlushInv, [Next]_vars PROVE FlushInv'
  OBVIOUS
<1>a. /\ flushPeer \in 0 .. conn /\ conn \in 0 .. MaxConns /\ done \in [Conns -> BOOLEAN]
      /\ peer = (IF runPc = "serving" THEN conn ELSE 0)
  BY DEF TypeOK, AgentTypes, ConnTypes, NetTypes
<1>t. /\ flushPeer \in 0 .. conn /\ conn \in 0 .. MaxConns /\ done \in [Conns -> BOOLEAN]
      /\ peer = (IF runPc = "serving" THEN conn ELSE 0)
      /\ (flushPeer # 0 => flushPeer \in Conns)
  BY <1>a, Bounds DEF Conns
<1>1. CASE \/ Stamp \/ (\E m \in Metrics : Submit(m)) \/ LoopTake \/ SendFailed \/ WriteFrame
           \/ (\E c \in Conns : Cut(c) \/ HubRegister(c) \/ HubTelemetry(c)) \/ UNCHANGED vars
  <2>1. UNCHANGED <<flushPeer, runPc, conn, done>>
    BY <1>1 DEF Stamp, Submit, LoopTake, SendFailed, WriteFrame, Cut, HubRegister, HubTelemetry,
                vars, agentVars, connVars, netVars
  <2> QED
    BY <2>1 DEF FlushInv
<1>2. CASE FlushBegin
  BY <1>t, <1>2 DEF FlushBegin, FlushInv, connVars, netVars
<1>3. CASE FlushPush \/ SendQueued
  <2>1. UNCHANGED <<runPc, conn, done>> /\ (flushPeer' = 0 \/ flushPeer' = flushPeer)
    BY <1>3 DEF FlushPush, SendQueued, connVars, netVars
  <2> QED
    BY <2>1 DEF FlushInv
<1>4. CASE Connect \/ Publish
  <2>1. UNCHANGED <<flushPeer, done>> /\ runPc # "serving"
    BY <1>4 DEF Connect, Publish, agentVars
  <2> QED
    BY <2>1 DEF FlushInv
<1>5. CASE Shutdown
  <2>1. UNCHANGED <<flushPeer, runPc, conn>> /\ done' = [done EXCEPT ![conn] = TRUE]
    BY <1>5 DEF Shutdown, agentVars, connVars
  <2> QED
    BY <1>t, <2>1 DEF FlushInv
<1>6. CASE EndServe
  <2>1. UNCHANGED <<flushPeer, conn, done>> /\ done[conn]
    BY <1>6 DEF EndServe, agentVars
  <2> QED
    BY <2>1 DEF FlushInv
<1>7. CASE Restart
  BY <1>7 DEF Restart, FlushInv
<1> QED
  BY <1>1, <1>2, <1>3, <1>4, <1>5, <1>6, <1>7 DEF Next

(* What flushSpool took out of the spool is queued before anything else.   *)
DrainedInv == runPc # "drained" => drained = <<>>

LEMMA DrainedStep == DrainedInv /\ [Next]_vars => DrainedInv'
<1> SUFFICES ASSUME DrainedInv, [Next]_vars PROVE DrainedInv'
  OBVIOUS
<1>1. CASE \/ Stamp \/ (\E m \in Metrics : Submit(m)) \/ LoopTake \/ FlushBegin \/ FlushPush
           \/ SendQueued \/ SendFailed \/ WriteFrame \/ Shutdown
           \/ (\E c \in Conns : Cut(c) \/ HubRegister(c) \/ HubTelemetry(c)) \/ UNCHANGED vars
  <2>1. UNCHANGED <<runPc, drained>>
    BY <1>1 DEF Stamp, Submit, LoopTake, FlushBegin, FlushPush, SendQueued, SendFailed,
                WriteFrame, Shutdown, Cut, HubRegister, HubTelemetry, Spool!Push,
                vars, spoolVars, connVars
  <2> QED
    BY <2>1 DEF DrainedInv
<1>2. CASE Connect \/ Publish \/ EndServe \/ Restart
  BY <1>2 DEF Connect, Publish, EndServe, Restart, DrainedInv, spoolVars
<1> QED
  BY <1>1, <1>2 DEF Next

LEMMA PresentParts ==
  /\ \A m : m \in Present <=>
              \/ m \in held \/ m \in Elems(intake) \/ m \in Elems(batch) \/ m \in Elems(spool)
              \/ m \in Elems(drained) \/ m \in MetricsIn(Queued) \/ m \in received
              \/ \E c \in Conns : m \in MetricsIn(wire[c])
  BY DEF Present, InLoop, InSpool, InFlight

LEMMA PresentPartsNext ==
  /\ \A m : m \in Present' <=>
              \/ m \in held' \/ m \in Elems(intake') \/ m \in Elems(batch') \/ m \in Elems(spool')
              \/ m \in Elems(drained') \/ m \in MetricsIn(Queued') \/ m \in received'
              \/ \E c \in Conns : m \in MetricsIn(wire'[c])
  BY DEF Present, InLoop, InSpool, InFlight, Elems, MetricsIn

(* What LossNeedsCause asks of a metric that was present before a step and *)
(* is not after it.                                                        *)
Cause(m) ==
  \/ m \in Elems(spool) /\ m = Head(spool) /\ dropped' = dropped + 1
  \/ m \in MetricsIn(Queued) /\ runPc' = "idle"
  \/ m \in Elems(batch) /\ loopPc = "sending" /\ done[flushPeer] /\ sendq' # sendq
  \/ \E c \in Conns : m \in MetricsIn(wire[c]) /\ ~ up'[c]
  \/ inc' # inc

LEMMA SubmitLoses ==
  ASSUME TypeOK, NEW x \in Metrics, Submit(x), NEW m \in Present, m \notin Present'
  PROVE  Cause(m)
<1>t. intake \in Seq(Metrics) /\ SpoolTypes
  BY DEF TypeOK, AgentTypes
<1>1. UNCHANGED <<batch, runPc, conn, sendq, wire, received>> /\ held' = held \ {x}
  BY DEF Submit, connVars, netVars, hubVars
<1>2. Queued' = Queued
  BY <1>1 DEF Queued
<1>3. CASE Len(intake) < IntakeCap
  <2>1. intake' = Append(intake, x) /\ UNCHANGED <<spool, drained>>
    BY <1>3 DEF Submit, spoolVars
  <2>2. Elems(intake') = Elems(intake) \cup {x}
    BY <1>t, <2>1, AppendSeq
  <2> QED
    BY <1>1, <1>2, <2>1, <2>2, PresentParts, PresentPartsNext
<1>4. CASE ~ (Len(intake) < IntakeCap)
  <2>1. Spool!Push(x) /\ UNCHANGED intake
    BY <1>4 DEF Submit
  <2>2. /\ x \in Elems(spool') /\ drained' = drained
        /\ \A e \in Elems(spool) \ Elems(spool') : e = Head(spool) /\ dropped' = dropped + 1
    BY <1>t, <2>1, PushForgets
  <2>3. m \in Elems(spool) \ Elems(spool')
    BY <1>1, <1>2, <2>1, <2>2, PresentParts, PresentPartsNext
  <2> QED
    BY <2>2, <2>3 DEF Cause
<1> QED
  BY <1>3, <1>4

LEMMA LoopTakeLoses ==
  ASSUME TypeOK, LoopTake, NEW m \in Present
  PROVE  m \in Present'
<1>1. /\ intake \in Seq(Metrics) /\ intake # <<>> /\ batch \in Seq(Metrics)
      /\ batch' = Append(batch, Head(intake)) /\ intake' = Tail(intake)
      /\ UNCHANGED <<held, spool, drained, runPc, conn, sendq, wire, received>>
  BY DEF TypeOK, AgentTypes, LoopTake, spoolVars, connVars, netVars, hubVars
<1>2. Queued' = Queued
  BY <1>1 DEF Queued
<1> DEFINE h == Head(intake)
<1>3. h \in Metrics /\ Elems(intake) = {h} \cup Elems(intake')
  BY <1>1, TailSeq
<1>b. batch' = Append(batch, h)
  BY <1>1
<1> HIDE DEF h
<1>4. Elems(batch') = Elems(batch) \cup {h}
  BY <1>1, <1>3, <1>b, AppendSeq
<1> QED
  BY <1>1, <1>2, <1>3, <1>4, PresentParts, PresentPartsNext

LEMMA FlushPushLoses ==
  ASSUME TypeOK, FlushPush, NEW m \in Present, m \notin Present'
  PROVE  Cause(m)
<1>1. /\ batch \in Seq(Metrics) /\ batch # <<>> /\ SpoolTypes
      /\ Spool!Push(Head(batch)) /\ batch' = Tail(batch)
      /\ UNCHANGED <<held, intake, runPc, conn, sendq, wire, received>>
  BY DEF TypeOK, AgentTypes, FlushPush, connVars, netVars, hubVars
<1>2. Queued' = Queued
  BY <1>1 DEF Queued
<1> DEFINE h == Head(batch)
<1>3. h \in Metrics /\ Elems(batch) = {h} \cup Elems(batch') /\ Spool!Push(h)
  BY <1>1, TailSeq
<1> HIDE DEF h
<1>4. /\ h \in Elems(spool') /\ drained' = drained
      /\ \A e \in Elems(spool) \ Elems(spool') : e = Head(spool) /\ dropped' = dropped + 1
  BY <1>1, <1>3, PushForgets
<1>5. m \in Elems(spool) \ Elems(spool')
  BY <1>1, <1>2, <1>3, <1>4, PresentParts, PresentPartsNext
<1> QED
  BY <1>4, <1>5 DEF Cause

LEMMA SendQueuedLoses ==
  ASSUME TypeOK, FlushInv, SendQueued, NEW m \in Present, m \notin Present'
  PROVE  Cause(m)
<1> DEFINE f == Telemetry(batch, FALSE)
<1>1. /\ batch \in Seq(Metrics) /\ batch' = <<>> /\ loopPc = "sending"
      /\ sendq \in [Conns -> Seq(Frame)] /\ flushPeer \in Conns /\ flushPeer # 0
      /\ sendq' = [sendq EXCEPT ![flushPeer] = Append(@, f)]
      /\ UNCHANGED <<held, intake, spool, drained, runPc, conn, wire, received>>
  BY SendQueuedTo DEF SendQueued, spoolVars, connVars, hubVars
<1>2. f \in Frame /\ f.metrics = batch
  BY <1>1, BatchFrame
<1> HIDE DEF f
<1>3. CASE runPc = "serving" /\ flushPeer = conn
  <2>1. Queued' = Append(Queued, f) /\ Queued \in Seq(Frame)
    BY <1>1, <1>3 DEF Queued
  <2>2. MetricsIn(Queued') = MetricsIn(Queued) \cup Elems(batch)
    BY <1>2, <2>1, AppendFrame
  <2> QED
    BY <1>1, <2>2, PresentParts, PresentPartsNext
<1>4. CASE ~ (runPc = "serving" /\ flushPeer = conn)
  <2>1. done[flushPeer]
    BY <1>1, <1>4 DEF FlushInv
  <2>2. Queued' = Queued
    <3>1. runPc = "serving" => conn \in Conns /\ conn # flushPeer
      BY <1>4, Bounds DEF TypeOK, ConnTypes, Conns
    <3> QED
      BY <1>1, <3>1 DEF Queued
  <2>3. sendq' # sendq
    <3>1. Len(sendq'[flushPeer]) = Len(sendq[flushPeer]) + 1 /\ Len(sendq[flushPeer]) \in Nat
      BY <1>1, <1>2, AppendTo
    <3> QED
      BY <3>1
  <2>4. m \in Elems(batch)
    BY <1>1, <2>2, PresentParts, PresentPartsNext
  <2> QED
    BY <1>1, <2>1, <2>3, <2>4 DEF Cause
<1> QED
  BY <1>3, <1>4

LEMMA ConnectLoses ==
  ASSUME TypeOK, DrainedInv, Connect, NEW m \in Present
  PROVE  m \in Present'
<1>1. /\ UNCHANGED <<held, intake, batch, sendq, wire, received>>
      /\ drained' = spool /\ spool' = <<>> /\ runPc = "idle" /\ runPc' = "drained"
  BY DEF Connect, agentVars, hubVars, Spool!Drain
<1>d. drained = <<>>
  BY <1>1 DEF DrainedInv
<1>2. Queued = <<>>
  BY <1>1 DEF Queued
<1> QED
  BY <1>1, <1>d, <1>2, EmptyPlaces, PresentParts, PresentPartsNext

LEMMA PublishLoses ==
  ASSUME TypeOK, Publish, NEW m \in Present
  PROVE  m \in Present'
<1> DEFINE fs == <<Register>> \o Replay(drained)
<1>1. /\ UNCHANGED <<held, intake, batch, spool, wire, received>>
      /\ drained \in Seq(Metrics) /\ Len(drained) <= SpoolCap /\ drained' = <<>>
  BY DEF Publish, agentVars, hubVars, TypeOK, SpoolTypes
<1>2. Queued = <<>> /\ Queued' = fs
  BY Bounds DEF Publish, Queued, TypeOK, NetTypes, ConnTypes, Conns
<1>3. Elems(drained) \subseteq MetricsIn(fs)
  BY <1>1, PublishedCovers
<1> HIDE DEF fs
<1> QED
  BY <1>1, <1>2, <1>3, EmptyPlaces, PresentParts, PresentPartsNext

LEMMA WriteFrameLoses ==
  ASSUME TypeOK, WriteFrame, NEW m \in Present
  PROVE  m \in Present'
<1>1. /\ UNCHANGED <<held, intake, batch, spool, drained, received, runPc, conn>>
      /\ sendq \in [Conns -> Seq(Frame)] /\ wire \in [Conns -> Seq(Frame)] /\ conn \in Conns
      /\ runPc = "serving" /\ sendq[conn] # <<>>
      /\ wire' = [wire EXCEPT ![conn] = Append(@, Head(sendq[conn]))]
      /\ sendq' = [sendq EXCEPT ![conn] = Tail(@)]
  BY Bounds DEF WriteFrame, agentVars, spoolVars, connVars, hubVars, TypeOK, ConnTypes,
                NetTypes, Conns
<1> DEFINE f == Head(Queued)
<1>2. Queued = sendq[conn] /\ Queued' = Tail(Queued) /\ Queued \in Seq(Frame) /\ Queued # <<>>
  BY <1>1 DEF Queued
<1>3. /\ wire'[conn] = Append(wire[conn], f) /\ wire[conn] \in Seq(Frame)
      /\ \A c \in Conns : c # conn => wire'[c] = wire[c]
  BY <1>1, <1>2
<1>4. f \in Frame /\ MetricsIn(Queued) = Elems(f.metrics) \cup MetricsIn(Queued')
  BY <1>2, TailFrame, TailSeq
<1> HIDE DEF f
<1>5. MetricsIn(wire'[conn]) = MetricsIn(wire[conn]) \cup Elems(f.metrics)
  BY <1>3, <1>4, AppendFrame
<1>6. \A c \in Conns : MetricsIn(wire[c]) \subseteq MetricsIn(wire'[c])
  BY <1>3, <1>5
<1> QED
  BY <1>1, <1>4, <1>5, <1>6, PresentParts, PresentPartsNext

LEMMA EndServeLoses ==
  ASSUME TypeOK, EndServe, NEW m \in Present, m \notin Present'
  PROVE  Cause(m)
<1>1. UNCHANGED <<held, intake, batch, spool, drained, wire, received>> /\ runPc' = "idle"
  BY DEF EndServe, agentVars, spoolVars, hubVars
<1>2. m \in MetricsIn(Queued)
  BY <1>1, PresentParts, PresentPartsNext
<1> QED
  BY <1>1, <1>2 DEF Cause

LEMMA CutLoses ==
  ASSUME TypeOK, NEW c \in Conns, Cut(c), NEW m \in Present, m \notin Present'
  PROVE  Cause(m)
<1>1. /\ UNCHANGED <<held, intake, batch, spool, drained, runPc, conn, sendq, received>>
      /\ ~ up'[c]
  BY DEF Cut, agentVars, spoolVars, connVars, hubVars, TypeOK, NetTypes
<1>2. PICK k \in 0 .. Len(wire[c]) : wire' = [wire EXCEPT ![c] = SubSeq(@, 1, k)]
  BY DEF Cut
<1>3. \A d \in Conns : d # c => wire'[d] = wire[d]
  BY <1>2 DEF TypeOK, NetTypes
<1>4. Queued' = Queued
  BY <1>1 DEF Queued
<1>5. m \in MetricsIn(wire[c])
  BY <1>1, <1>3, <1>4, PresentParts, PresentPartsNext
<1> QED
  BY <1>1, <1>5 DEF Cause

(* The hub throws away what it reads on a connection without a name, but   *)
(* reads no telemetry there.                                               *)
LEMMA HubLoses ==
  ASSUME TypeOK, OrderInv, NEW c \in Conns, HubRegister(c) \/ HubTelemetry(c),
         NEW m \in Present
  PROVE  m \in Present'
<1> DEFINE f == Head(wire[c])
<1>1. /\ UNCHANGED <<held, intake, batch, spool, drained, runPc, conn, sendq>>
      /\ wire \in [Conns -> Seq(Frame)] /\ wire[c] \in Seq(Frame)
      /\ wire[c] # <<>> /\ wire' = [wire EXCEPT ![c] = Tail(@)]
      /\ received \subseteq received'
  BY DEF HubRegister, HubTelemetry, agentVars, spoolVars, connVars, TypeOK, NetTypes
<1>2. f \in Frame /\ MetricsIn(wire[c]) = Elems(f.metrics) \cup MetricsIn(wire'[c])
  BY <1>1, TailFrame, TailSeq
<1>3. \A d \in Conns : d # c => wire'[d] = wire[d]
  BY <1>1
<1>4. Queued' = Queued
  BY <1>1 DEF Queued
<1>5. Elems(f.metrics) \subseteq received'
  <2>1. CASE HubRegister(c)
    <3>1. f.kind = "REGISTER"
      BY <2>1 DEF HubRegister
    <3>2. f.metrics = <<>>
      BY <1>2, <3>1, FrameFields
    <3> QED
      BY <3>2, EmptyPlaces
  <2>2. CASE HubTelemetry(c)
    <3>1. f.kind = "TELEMETRY"
      BY <2>2 DEF HubTelemetry
    <3>2. /\ Rest(c) \in Seq(Frame) /\ Stream(c) = wire[c] \o Rest(c)
          /\ Stream(c) \in Seq(Frame) /\ named[c] \in BOOLEAN
      BY StreamTypes
    <3>3. f = Head(wire[c] \o Rest(c)) /\ wire[c] \o Rest(c) # <<>>
      BY <1>1, <3>2, EndToEnd
    <3>4. f = Head(Stream(c)) /\ Stream(c) # <<>>
      BY <3>2, <3>3
    <3>5. InOrder(Stream(c), named[c])
      BY DEF OrderInv, RegisterReplayLive
    <3>h. (Head(Stream(c)).kind = "REGISTER") <=> ~ named[c]
      BY <3>2, <3>4, <3>5, HeadRead
    <3>6. (f.kind = "REGISTER") <=> ~ named[c]
      BY <3>4, <3>h
    <3>7. named[c]
      BY <3>1, <3>6
    <3> QED
      BY <2>2, <3>7 DEF HubTelemetry
  <2> QED
    BY <2>1, <2>2
<1> HIDE DEF f
<1>6. \A d \in Conns : MetricsIn(wire[d]) \subseteq MetricsIn(wire'[d]) \cup received'
  BY <1>2, <1>3, <1>5
<1> QED
  BY <1>1, <1>4, <1>6, PresentParts, PresentPartsNext

LEMMA StillLoses ==
  ASSUME UNCHANGED <<held, intake, batch, spool, drained, runPc, conn, sendq, wire, received>>,
         NEW m \in Present
  PROVE  m \in Present'
<1>1. Queued' = Queued
  BY DEF Queued
<1> QED
  BY <1>1, PresentParts, PresentPartsNext

(* A number just stamped is held.                                          *)
LEMMA StampHolds ==
  ASSUME TypeOK, Stamp, NEW m \in Lost' \ Lost
  PROVE  m \in Present
<1>1. /\ inc \in 0 .. MaxRestarts /\ seq \in [0 .. MaxRestarts -> 0 .. MaxSeq]
      /\ seq' = [seq EXCEPT ![inc] = seq[inc] + 1] /\ held' = held \cup {<<inc, seq[inc] + 1>>}
      /\ MaxSeq \in Nat
  BY Bounds DEF TypeOK, AgentTypes, Stamp
<1>2. m \in Metrics /\ m[2] <= seq'[m[1]] /\ m \notin held'
  BY PresentPartsNext DEF Lost, Stamped, Metrics
<1>3. m[1] \in 0 .. MaxRestarts /\ m[2] \in Nat /\ m = <<m[1], m[2]>>
  BY <1>1, <1>2 DEF Metrics
<1>4. m \in Stamped
  <2>1. CASE m[1] = inc
    <3>1. m[2] <= seq[inc] + 1 /\ seq[inc] \in Nat
      BY <1>1, <1>2, <2>1
    <3>2. m[2] # seq[inc] + 1
      BY <1>1, <1>2, <1>3, <2>1
    <3>3. m[2] <= seq[m[1]]
      BY <1>3, <2>1, <3>1, <3>2
    <3> QED
      BY <1>2, <3>3 DEF Stamped
  <2>2. CASE m[1] # inc
    <3>1. m[2] <= seq[m[1]]
      BY <1>1, <1>2, <1>3, <2>2
    <3> QED
      BY <1>2, <3>1 DEF Stamped
  <2> QED
    BY <2>1, <2>2
<1> QED
  BY <1>4 DEF Lost

LEMMA LostWas ==
  ASSUME TypeOK, [Next]_vars, NEW m \in Lost' \ Lost
  PROVE  m \in Present /\ m \notin Present'
<1>1. m \notin Present'
  BY DEF Lost
<1>2. CASE Stamp
  BY <1>1, <1>2, StampHolds
<1>3. CASE ~ Stamp
  <2>1. UNCHANGED seq
    BY <1>3 DEF Next, Submit, LoopTake, FlushBegin, FlushPush, SendQueued, SendFailed,
                Connect, Publish, WriteFrame, Shutdown, EndServe, Cut, HubRegister, HubTelemetry,
                Restart, agentVars, vars
  <2>2. m \in Stamped
    BY <2>1 DEF Lost, Stamped
  <2> QED
    BY <1>1, <2>2 DEF Lost
<1> QED
  BY <1>2, <1>3

LEMMA LossStep ==
  ASSUME TypeOK, OrderInv, FlushInv, DrainedInv, [Next]_vars, NEW m \in Lost' \ Lost
  PROVE  Cause(m)
<1>1. m \in Present /\ m \notin Present'
  BY LostWas
<1>2. CASE FlushBegin \/ SendFailed \/ Shutdown \/ UNCHANGED vars
  <2>1. UNCHANGED <<held, intake, batch, spool, drained, runPc, conn, sendq, wire, received>>
    BY <1>2
    DEF FlushBegin, SendFailed, Shutdown, vars, agentVars, spoolVars, connVars, netVars, hubVars
  <2> QED
    BY <1>1, <2>1, StillLoses
<1>3. CASE Stamp
  <2>1. /\ held \subseteq held'
        /\ UNCHANGED <<intake, batch, spool, drained, runPc, conn, sendq, wire, received>>
    BY <1>3 DEF Stamp, spoolVars, connVars, netVars, hubVars
  <2>2. Queued' = Queued
    BY <2>1 DEF Queued
  <2> QED
    BY <1>1, <2>1, <2>2, PresentParts, PresentPartsNext
<1>4. CASE Restart
  <2>1. inc' # inc
    BY <1>4 DEF Restart, TypeOK, AgentTypes
  <2> QED
    BY <2>1 DEF Cause
<1>5. CASE \E x \in Metrics : Submit(x)
  BY <1>1, <1>5, SubmitLoses
<1>6. CASE \E c \in Conns : Cut(c) \/ HubRegister(c) \/ HubTelemetry(c)
  BY <1>1, <1>6, CutLoses, HubLoses
<1>7. CASE LoopTake \/ Connect \/ Publish \/ WriteFrame
  BY <1>1, <1>7, LoopTakeLoses, ConnectLoses, PublishLoses, WriteFrameLoses
<1>8. CASE FlushPush \/ SendQueued \/ EndServe
  BY <1>1, <1>8, FlushPushLoses, SendQueuedLoses, EndServeLoses
<1> QED
  BY <1>2, <1>3, <1>4, <1>5, <1>6, <1>7, <1>8 DEF Next

(* Nothing on the path loses a metric silently: the spool overflows and    *)
(* counts it, a connection ends with frames queued or in flight, a batch   *)
(* is given to a peer that has just ended, or the process restarts.        *)
THEOREM NoSilentLoss == Spec => LossNeedsCause
<1>1. Init => FlushInv /\ DrainedInv
  BY DEF Init, FlushInv, DrainedInv, Spool!Init
<1>2. TypeOK /\ OrderInv /\ FlushInv /\ DrainedInv /\ [Next]_vars =>
        [\A m \in Lost' \ Lost :
           \/ m \in Elems(spool) /\ m = Head(spool) /\ dropped' = dropped + 1
           \/ m \in MetricsIn(Queued) /\ runPc' = "idle"
           \/ m \in Elems(batch) /\ loopPc = "sending" /\ done[flushPeer]
                                /\ sendq' # sendq
           \/ \E c \in Conns : m \in MetricsIn(wire[c]) /\ ~ up'[c]
           \/ inc' # inc]_vars
  BY LossStep DEF Cause
<1> QED
  BY <1>1, <1>2, OrderInvariant, TypesInvariant, FlushStep, DrainedStep, PTL DEF Spec, LossNeedsCause
-----------------------------------------------------------------------------
(* The path implements Delivery, action by action.                         *)
LEMMA AboardParts ==
  \A m : m \in Aboard <=>
           \/ m \in held \/ m \in Elems(intake) \/ m \in Elems(batch) \/ m \in Elems(spool)
           \/ m \in Elems(drained) \/ m \in MetricsIn(Queued)
  BY DEF Aboard, InLoop, InSpool

LEMMA AboardPartsNext ==
  \A m : m \in Aboard' <=>
           \/ m \in held' \/ m \in Elems(intake') \/ m \in Elems(batch') \/ m \in Elems(spool')
           \/ m \in Elems(drained') \/ m \in MetricsIn(Queued')
  BY DEF Aboard, InLoop, InSpool, Elems, MetricsIn

LEMMA SentParts ==
  /\ \A m : m \in Sent <=> \E c \in Conns : m \in MetricsIn(wire[c])
  /\ \A m : m \in Sent' <=> \E c \in Conns : m \in MetricsIn(wire'[c])
  BY DEF Sent, MetricsIn, Elems

LEMMA SentSame ==
  ASSUME UNCHANGED wire
  PROVE  Sent' = Sent
  BY DEF Sent, MetricsIn, Elems

LEMMA StampedSame ==
  ASSUME UNCHANGED seq
  PROVE  Stamped' = Stamped
  BY DEF Stamped

(* A step that only gives up what is aboard.                               *)
LEMMA PathForgets ==
  ASSUME UNCHANGED <<seq, wire, received>>, Aboard' \subseteq Aboard
  PROVE  Path!Next
  BY SentSame, StampedSame DEF Path!Next, Path!Forget

LEMMA SubmitForgets ==
  ASSUME TypeOK, NEW x \in Metrics, Submit(x)
  PROVE  Path!Next
<1>1. /\ UNCHANGED <<seq, batch, runPc, conn, sendq, wire, received>>
      /\ held' = held \ {x} /\ x \in held /\ intake \in Seq(Metrics) /\ SpoolTypes
  BY DEF Submit, connVars, netVars, hubVars, TypeOK, AgentTypes
<1>2. Queued' = Queued
  BY <1>1 DEF Queued
<1>3. Elems(intake') \subseteq Elems(intake) \cup {x}
  <2>1. intake' = Append(intake, x) \/ intake' = intake
    BY DEF Submit
  <2>2. Elems(Append(intake, x)) = Elems(intake) \cup {x}
    BY <1>1, AppendSeq
  <2> QED
    BY <2>1, <2>2
<1>4. Elems(spool') \subseteq Elems(spool) \cup {x} /\ drained' = drained
  BY <1>1, PushMoves DEF Submit, spoolVars
<1>5. Aboard' \subseteq Aboard
  BY <1>1, <1>2, <1>3, <1>4, AboardParts, AboardPartsNext
<1> QED
  BY <1>1, <1>5, PathForgets

LEMMA LoopForgets ==
  ASSUME TypeOK, LoopTake \/ FlushPush
  PROVE  Path!Next
<1>1. /\ UNCHANGED <<seq, held, runPc, conn, sendq, wire, received>>
      /\ intake \in Seq(Metrics) /\ batch \in Seq(Metrics) /\ SpoolTypes
  BY DEF LoopTake, FlushPush, connVars, netVars, hubVars, TypeOK, AgentTypes
<1>2. Queued' = Queued
  BY <1>1 DEF Queued
<1>3. CASE LoopTake
  <2>1. /\ intake # <<>> /\ batch' = Append(batch, Head(intake)) /\ intake' = Tail(intake)
        /\ UNCHANGED <<spool, drained>>
    BY <1>3 DEF LoopTake, spoolVars
  <2> DEFINE h == Head(intake)
  <2>2. h \in Metrics /\ Elems(intake) = {h} \cup Elems(intake')
    BY <1>1, <2>1, TailSeq
  <2>3. batch' = Append(batch, h)
    BY <2>1
  <2> HIDE DEF h
  <2>4. Elems(batch') = Elems(batch) \cup {h}
    BY <1>1, <2>2, <2>3, AppendSeq
  <2>5. Aboard' \subseteq Aboard
    BY <1>1, <1>2, <2>1, <2>2, <2>4, AboardParts, AboardPartsNext
  <2> QED
    BY <1>1, <2>5, PathForgets
<1>4. CASE FlushPush
  <2>1. batch # <<>> /\ Spool!Push(Head(batch)) /\ batch' = Tail(batch) /\ UNCHANGED intake
    BY <1>4 DEF FlushPush, TypeOK, AgentTypes
  <2> DEFINE h == Head(batch)
  <2>2. h \in Metrics /\ Elems(batch) = {h} \cup Elems(batch') /\ Spool!Push(h)
    BY <1>1, <2>1, TailSeq
  <2> HIDE DEF h
  <2>3. Elems(spool') \subseteq Elems(spool) \cup {h} /\ drained' = drained
    BY <1>1, <2>2, PushMoves
  <2>4. Aboard' \subseteq Aboard
    BY <1>1, <1>2, <2>1, <2>2, <2>3, AboardParts, AboardPartsNext
  <2> QED
    BY <1>1, <2>4, PathForgets
<1> QED
  BY <1>3, <1>4

LEMMA SendQueuedForgets ==
  ASSUME TypeOK, SendQueued
  PROVE  Path!Next
<1> DEFINE f == Telemetry(batch, FALSE)
<1>1. /\ batch \in Seq(Metrics) /\ batch' = <<>>
      /\ sendq \in [Conns -> Seq(Frame)] /\ flushPeer \in Conns
      /\ sendq' = [sendq EXCEPT ![flushPeer] = Append(@, f)]
      /\ UNCHANGED <<seq, held, intake, spool, drained, runPc, conn, wire, received>>
  BY SendQueuedTo DEF SendQueued, spoolVars, connVars, hubVars
<1>2. f \in Frame /\ f.metrics = batch
  BY <1>1, BatchFrame
<1> HIDE DEF f
<1>3. runPc = "serving" => conn \in Conns
  BY Bounds DEF TypeOK, ConnTypes, Conns
<1>4. MetricsIn(Queued') \subseteq MetricsIn(Queued) \cup Elems(batch)
  <2>1. CASE runPc = "serving" /\ flushPeer = conn
    <3>1. Queued' = Append(Queued, f) /\ Queued \in Seq(Frame)
      BY <1>1, <2>1 DEF Queued
    <3> QED
      BY <1>2, <3>1, AppendFrame
  <2>2. CASE ~ (runPc = "serving" /\ flushPeer = conn)
    <3>1. Queued' = Queued
      BY <1>1, <1>3, <2>2 DEF Queued
    <3> QED
      BY <3>1
  <2> QED
    BY <2>1, <2>2
<1>5. Aboard' \subseteq Aboard
  BY <1>1, <1>4, EmptyPlaces, AboardParts, AboardPartsNext
<1> QED
  BY <1>1, <1>5, PathForgets

LEMMA ConnectForgets ==
  ASSUME TypeOK, Connect \/ Publish
  PROVE  Path!Next
<1>1. UNCHANGED <<seq, held, intake, batch, wire, received>>
  BY DEF Connect, Publish, agentVars, hubVars
<1>2. CASE Connect
  <2>1. drained' = spool /\ spool' = <<>> /\ Queued' = <<>>
    BY <1>2 DEF Connect, Spool!Drain, Queued
  <2>2. Aboard' \subseteq Aboard
    BY <1>1, <2>1, EmptyPlaces, AboardParts, AboardPartsNext
  <2> QED
    BY <1>1, <2>2, PathForgets
<1>3. CASE Publish
  <2> DEFINE fs == <<Register>> \o Replay(drained)
  <2>1. /\ UNCHANGED spool /\ drained' = <<>>
        /\ drained \in Seq(Metrics) /\ Len(drained) <= SpoolCap
    BY <1>3 DEF Publish, TypeOK, SpoolTypes
  <2>2. Queued' = fs
    BY <1>3, Bounds DEF Publish, Queued, TypeOK, NetTypes, ConnTypes, Conns
  <2>3. MetricsIn(fs) \subseteq Elems(drained)
    BY <2>1, PublishedMetrics
  <2> HIDE DEF fs
  <2>4. Aboard' \subseteq Aboard
    BY <1>1, <2>1, <2>2, <2>3, EmptyPlaces, AboardParts, AboardPartsNext
  <2> QED
    BY <1>1, <2>4, PathForgets
<1> QED
  BY <1>2, <1>3

LEMMA EndForgets ==
  ASSUME EndServe \/ Restart
  PROVE  Path!Next
<1>1. /\ UNCHANGED <<seq, wire, received>>
      /\ \/ UNCHANGED <<held, intake, batch, spool, drained>>
         \/ held' = {} /\ intake' = <<>> /\ batch' = <<>> /\ spool' = <<>> /\ drained' = <<>>
  BY DEF EndServe, Restart, agentVars, spoolVars, hubVars
<1>2. Queued' = <<>>
  BY DEF EndServe, Restart, Queued
<1>3. Aboard' \subseteq Aboard
  BY <1>1, <1>2, EmptyPlaces, AboardParts, AboardPartsNext
<1> QED
  BY <1>1, <1>3, PathForgets

(* The number a metric gets is a new one, and the only new one.            *)
LEMMA StampStamps ==
  ASSUME TypeOK, Stamp
  PROVE  Path!Next
<1> DEFINE e == <<inc, seq[inc] + 1>>
<1>1. /\ inc \in 0 .. MaxRestarts /\ seq \in [0 .. MaxRestarts -> 0 .. MaxSeq]
      /\ seq' = [seq EXCEPT ![inc] = seq[inc] + 1] /\ held' = held \cup {e}
      /\ MaxSeq \in Nat /\ seq[inc] + 1 \in 1 .. MaxSeq
      /\ UNCHANGED <<intake, batch, spool, drained, runPc, conn, sendq, wire, received>>
  BY StampFits, Bounds DEF TypeOK, AgentTypes, Stamp, spoolVars, connVars, netVars, hubVars
<1>2. e \in Metrics /\ e[1] = inc /\ e[2] = seq[inc] + 1
  BY <1>1 DEF Metrics
<1>3. \A m \in Metrics : m[1] \in 0 .. MaxRestarts /\ m[2] \in Nat /\ m = <<m[1], m[2]>>
  BY <1>1 DEF Metrics
<1>4. \A i \in 0 .. MaxRestarts : seq[i] \in Nat /\ (i # inc => seq'[i] = seq[i])
  BY <1>1
<1>5. seq'[inc] = seq[inc] + 1 /\ seq[inc] \in Nat
  BY <1>1
<1>6. ASSUME NEW m \in Metrics
      PROVE  m[2] <= seq'[m[1]] <=> m[2] <= seq[m[1]] \/ m = e
  <2>1. CASE m[1] # inc
    BY <1>2, <1>3, <1>4, <2>1
  <2>2. CASE m[1] = inc
    <3>1. m[2] <= seq[inc] + 1 <=> m[2] <= seq[inc] \/ m[2] = seq[inc] + 1
      BY <1>3, <1>5
    <3>2. m = e <=> m[2] = seq[inc] + 1
      BY <1>2, <1>3, <2>2
    <3> QED
      BY <1>5, <2>2, <3>1, <3>2
  <2> QED
    BY <2>1, <2>2
<1>7. ~ (e[2] <= seq[e[1]])
  BY <1>2, <1>5
<1> HIDE DEF e
<1>8. Stamped' = Stamped \cup {e} /\ e \notin Stamped
  BY <1>2, <1>6, <1>7 DEF Stamped, Metrics
<1>9. Queued' = Queued
  BY <1>1 DEF Queued
<1>10. Aboard' = Aboard \cup {e}
  BY <1>1, <1>9, AboardParts, AboardPartsNext
<1>11. Path!Stamp
  BY <1>1, <1>2, <1>8, <1>10, SentSame DEF Path!Stamp
<1> QED
  BY <1>11 DEF Path!Next

(* A frame leaves the queue with its metrics, and no copy stays aboard.    *)
LEMMA WriteFrameTransmits ==
  ASSUME TypeOK, NeverTwice, WriteFrame
  PROVE  Path!Next
<1>1. /\ UNCHANGED <<seq, held, intake, batch, spool, drained, received, runPc, conn>>
      /\ sendq \in [Conns -> Seq(Frame)] /\ wire \in [Conns -> Seq(Frame)] /\ conn \in Conns
      /\ runPc = "serving" /\ sendq[conn] # <<>>
      /\ wire' = [wire EXCEPT ![conn] = Append(@, Head(sendq[conn]))]
      /\ sendq' = [sendq EXCEPT ![conn] = Tail(@)]
  BY Bounds DEF WriteFrame, agentVars, spoolVars, connVars, hubVars, TypeOK, ConnTypes,
                NetTypes, Conns
<1>n. NoRepeats /\ Apart
  BY DEF NeverTwice
<1> DEFINE f == Head(Queued)
<1>2. Queued = sendq[conn] /\ Queued' = Tail(Queued) /\ Queued \in Seq(Frame) /\ Queued # <<>>
  BY <1>1 DEF Queued
<1>3. /\ wire'[conn] = Append(wire[conn], f) /\ wire[conn] \in Seq(Frame)
      /\ \A c \in Conns : c # conn => wire'[c] = wire[c]
  BY <1>1, <1>2
<1>4. /\ f \in Frame /\ MetricsIn(Queued) = Elems(f.metrics) \cup MetricsIn(Queued')
      /\ Elems(f.metrics) \cap MetricsIn(Queued') = {}
  BY <1>n, <1>2, TailFrame, TailSeq DEF NoRepeats
<1> HIDE DEF f
<1>5. MetricsIn(wire'[conn]) = MetricsIn(wire[conn]) \cup Elems(f.metrics)
  BY <1>3, <1>4, AppendFrame
<1> DEFINE M == Elems(f.metrics)
<1>6. Sent' = Sent \cup M
  <2>1. \A m : m \in Sent' <=> m \in Sent \/ m \in M
    BY <1>1, <1>3, <1>5, SentParts
  <2> QED
    BY <2>1
<1>7. M \subseteq MetricsIn(Queued)
  BY <1>4
<1>8. /\ M \cap held = {} /\ M \cap Elems(intake) = {} /\ M \cap Elems(batch) = {}
      /\ M \cap Elems(spool) = {} /\ M \cap Elems(drained) = {}
  <2> HIDE DEF M
  <2>1. \A n \in {"held", "intake", "batch", "spool", "drained"} :
          At(Loc("queue")) \cap At(Loc(n)) = {}
    BY <1>n, Places DEF Apart, Loc
  <2> QED
    BY <1>7, <2>1, AtPlaces
<1>9. Aboard' = Aboard \ M /\ M \subseteq Aboard
  <2> HIDE DEF M
  <2>1. MetricsIn(Queued') = MetricsIn(Queued) \ M
    BY <1>4 DEF M
  <2>2. \A m : m \in Aboard' <=> m \in Aboard /\ m \notin M
    BY <1>1, <1>8, <2>1, AboardParts, AboardPartsNext
  <2>3. M \subseteq Aboard
    BY <1>7, AboardParts
  <2> QED
    BY <2>2, <2>3
<1> HIDE DEF M
<1>10. Path!Transmit
  BY <1>1, <1>6, <1>9, StampedSame DEF Path!Transmit
<1> QED
  BY <1>10 DEF Path!Next

(* What is aboard does not change with a connection.                       *)
LEMMA AboardSame ==
  ASSUME UNCHANGED <<held, intake, batch, spool, drained, runPc, conn, sendq>>
  PROVE  Aboard' = Aboard
  BY DEF Aboard, InLoop, InSpool, Queued, Elems, MetricsIn

LEMMA CutBreaks ==
  ASSUME TypeOK, NEW c \in Conns, Cut(c)
  PROVE  Path!Next
<1>1. UNCHANGED <<seq, held, intake, batch, spool, drained, runPc, conn, sendq, received>>
  BY DEF Cut, agentVars, spoolVars, connVars, hubVars
<1>2. PICK k \in 0 .. Len(wire[c]) : wire' = [wire EXCEPT ![c] = SubSeq(@, 1, k)]
  BY DEF Cut
<1>3. wire \in [Conns -> Seq(Frame)]
  BY DEF TypeOK, NetTypes
<1>4. MetricsIn(wire'[c]) \subseteq MetricsIn(wire[c])
  BY <1>2, <1>3, PrefixFrame
<1>5. \A d \in Conns : MetricsIn(wire'[d]) \subseteq MetricsIn(wire[d])
  BY <1>2, <1>3, <1>4
<1>6. Sent' \subseteq Sent
  BY <1>5, SentParts
<1>7. Path!Break
  BY <1>1, <1>6, AboardSame, StampedSame DEF Path!Break
<1> QED
  BY <1>7 DEF Path!Next

(* The metrics of the frame read are on no other connection, and not       *)
(* further back on this one.                                               *)
LEMMA HubDelivers ==
  ASSUME TypeOK, NeverTwice, NEW c \in Conns, HubRegister(c) \/ HubTelemetry(c)
  PROVE  Path!Next
<1> DEFINE ms == Elems(Head(wire[c]).metrics)
<1>1. /\ UNCHANGED <<seq, held, intake, batch, spool, drained, runPc, conn, sendq>>
      /\ wire[c] # <<>> /\ wire' = [wire EXCEPT ![c] = Tail(@)]
      /\ received' = received \/ received' = received \cup ms
  BY DEF HubRegister, HubTelemetry, agentVars, spoolVars, connVars
<1>n. NoRepeats /\ Apart
  BY DEF NeverTwice
<1>2. wire \in [Conns -> Seq(Frame)]
  BY DEF TypeOK, NetTypes
<1>3. MetricsIn(wire[c]) = ms \cup MetricsIn(wire'[c]) /\ ms \cap MetricsIn(wire'[c]) = {}
  BY <1>n, <1>1, <1>2, TailFrame DEF NoRepeats
<1> HIDE DEF ms
<1>4. \A d \in Conns : d # c => wire'[d] = wire[d]
  BY <1>1, <1>2
<1>5. \A d \in Conns : d # c => ms \cap MetricsIn(wire[d]) = {}
  <2>1. \A d \in Conns : d # c => At(Wire(c)) \cap At(Wire(d)) = {}
    BY <1>n, Places DEF Apart, Wire
  <2> QED
    BY <1>3, <2>1, AtPlaces
<1>6. Sent' = Sent \ ms /\ ms \subseteq Sent
  <2>1. ms \subseteq Sent
    BY <1>3, SentParts
  <2>2. \A d \in Conns : MetricsIn(wire'[d]) = MetricsIn(wire[d]) \ ms
    BY <1>3, <1>4, <1>5
  <2>3. \A m : m \in Sent' <=> m \in Sent /\ m \notin ms
    BY <2>2, SentParts
  <2> QED
    BY <2>1, <2>3
<1>7. Aboard' = Aboard /\ Stamped' = Stamped
  BY <1>1, AboardSame, StampedSame
<1>8. CASE received' = received
  BY <1>6, <1>7, <1>8 DEF Path!Next, Path!Break
<1>9. CASE received' = received \cup ms
  BY <1>6, <1>7, <1>9 DEF Path!Next, Path!Deliver
<1> QED
  BY <1>1, <1>8, <1>9

LEMMA PathMoves == TypeOK /\ NeverTwice /\ [Next]_vars => Path!Next
<1> SUFFICES ASSUME TypeOK, NeverTwice, [Next]_vars PROVE Path!Next
  OBVIOUS
<1>1. CASE FlushBegin \/ SendFailed \/ Shutdown \/ UNCHANGED vars
  <2>1. UNCHANGED <<seq, held, intake, batch, spool, drained, runPc, conn, sendq, wire, received>>
    BY <1>1
    DEF FlushBegin, SendFailed, Shutdown, vars, agentVars, spoolVars, connVars, netVars, hubVars
  <2> QED
    BY <2>1, AboardSame, PathForgets
<1> QED
  BY <1>1, StampStamps, SubmitForgets, LoopForgets, SendQueuedForgets, ConnectForgets,
     WriteFrameTransmits, EndForgets, CutBreaks, HubDelivers DEF Next

LEMMA PathInit == Init => Path!Init
<1> SUFFICES ASSUME Init PROVE Path!Init
  OBVIOUS
<1>1. Queued = <<>> /\ \A c \in Conns : wire[c] = <<>>
  BY DEF Init, Queued
<1>2. Aboard = {} /\ Sent = {}
  BY <1>1, EmptyPlaces, AboardParts, SentParts DEF Init, Spool!Init
<1>3. Stamped = {}
  <2>1. \A m \in Metrics : m[1] \in 0 .. MaxRestarts /\ m[2] \in 1 .. MaxSeq
    BY DEF Metrics
  <2>2. \A m \in Metrics : ~ (m[2] <= seq[m[1]])
    BY <2>1, Bounds DEF Init
  <2> QED
    BY <2>2 DEF Stamped
<1> QED
  BY <1>2, <1>3 DEF Path!Init, Init

(* A metric is written to a connection at most once and counted at most    *)
(* once, and nothing lost or sent comes back to be sent again, whatever    *)
(* fails between SubmitMetric, flush, connectOnce and handleTelemetry: the *)
(* path implements Delivery.                                               *)
THEOREM PathIsDelivery == Spec => AtMostOnce
<1>1. TypeOK /\ NeverTwice /\ [Next]_vars => [Path!Next]_(Path!vars)
  BY PathMoves
<1> QED
  BY <1>1, PathInit, TypesInvariant, MetricsMove, PTL DEF Spec, AtMostOnce, Path!Spec

(* What that means for one metric: once out of the agent it is never there *)
(* again, once off the connections too it is never on one again, and one   *)
(* that is then not counted never will be.  What is counted stays counted. *)
OnlyForward ==
  [][/\ received \subseteq received'
     /\ \A m \in Stamped \ Aboard :
          /\ m \in Stamped' /\ m \notin Aboard'
          /\ m \notin Sent => m \notin Sent' /\ (m \in received' => m \in received)]_vars

(* A metric that is nowhere on the path is lost for good: no later replay  *)
(* or flush brings it back to the controller.                              *)
THEOREM LostForGood == Spec => OnlyForward
<1>1. Path!Next => /\ received \subseteq received'
                   /\ \A m \in Stamped \ Aboard :
                        /\ m \in Stamped' /\ m \notin Aboard'
                        /\ m \notin Sent => m \notin Sent' /\ (m \in received' => m \in received)
  <2>1. CASE Path!Stamp
    BY <2>1 DEF Path!Stamp
  <2>2. CASE Path!Transmit
    BY <2>2 DEF Path!Transmit
  <2>3. CASE Path!Deliver
    BY <2>3 DEF Path!Deliver
  <2>4. CASE Path!Forget \/ Path!Break
    BY <2>4 DEF Path!Forget, Path!Break
  <2> QED
    BY <2>1, <2>2, <2>3, <2>4 DEF Path!Next
<1>2. TypeOK /\ NeverTwice /\ [Next]_vars =>
        [/\ received \subseteq received'
         /\ \A m \in Stamped \ Aboard :
              /\ m \in Stamped' /\ m \notin Aboard'
              /\ m \notin Sent => m \notin Sent' /\ (m \in received' => m \in received)]_vars
  BY <1>1, PathMoves
<1> QED
  BY <1>2, TypesInvariant, MetricsMove, PTL DEF Spec, OnlyForward

-----------------------------------------------------------------------------
(* One prober and an intake that is never full: the numbers rise along the *)
(* whole path.                                                             *)
LEMMA AscendEmpty == Ascending(<<>>) /\ Rising(<<>>)
<1>1. <<>> \in Seq(Metrics)
  BY EmptySeq
<1>2. DOMAIN <<>> = {}
  BY <1>1, EmptySeq, LenProperties
<1> QED
  BY <1>2 DEF Ascending, Rising

LEMMA AscendAppend ==
  ASSUME NEW s \in Seq(Metrics), NEW m \in Metrics, Ascending(s), Below(Elems(s), {m})
  PROVE  Ascending(Append(s, m))
<1> DEFINE t == Append(s, m)
           n == Len(s) + 1
<1>1. /\ Len(s) \in Nat /\ t[n] = m /\ \A i \in 1 .. Len(s) : t[i] = s[i]
      /\ t \in Seq(Metrics) /\ Len(t) = n
  BY AppendProperties, LenProperties
<1>2. DOMAIN t = 1 .. n /\ DOMAIN s = 1 .. Len(s)
  BY <1>1, LenProperties
<1>t. t[n] = m
  BY <1>1
<1>3. \A i \in DOMAIN t : i = n \/ (i \in DOMAIN s /\ t[i] = s[i] /\ i < n)
  BY <1>1, <1>2
<1>4. \A i, j \in DOMAIN t : i < j => i # n
  BY <1>1, <1>2
<1> HIDE DEF t, n
<1>5. \A i \in DOMAIN s : s[i][2] < m[2]
  BY DEF Below, Elems
<1>6. ASSUME NEW i \in DOMAIN t, NEW j \in DOMAIN t, i < j PROVE t[i][2] < t[j][2]
  <2>1. i \in DOMAIN s /\ t[i] = s[i]
    BY <1>3, <1>4, <1>6
  <2>2. CASE j = n
    BY <1>t, <1>5, <2>1, <2>2
  <2>3. CASE j # n
    BY <1>3, <1>6, <2>1, <2>3 DEF Ascending
  <2> QED
    BY <2>2, <2>3
<1>7. Ascending(t)
  BY <1>6 DEF Ascending
<1> QED
  BY <1>7 DEF t

LEMMA AscendTail ==
  ASSUME NEW s \in Seq(Metrics), s # <<>>, Ascending(s)
  PROVE  Ascending(Tail(s)) /\ Below({Head(s)}, Elems(Tail(s)))
<1> DEFINE t == Tail(s)
<1>1. /\ t \in Seq(Metrics) /\ Len(t) = Len(s) - 1 /\ Len(s) \in Nat \ {0}
      /\ \A i \in 1 .. Len(t) : t[i] = s[i + 1]
  BY HeadTailProperties, EmptySeq
<1>2. DOMAIN s = 1 .. Len(s) /\ DOMAIN t = 1 .. Len(s) - 1 /\ Head(s) = s[1]
  BY <1>1, LenProperties
<1> HIDE DEF t
<1>3. \A i \in DOMAIN t : t[i] = s[i + 1] /\ i + 1 \in DOMAIN s /\ 1 < i + 1 /\ i \in Nat
  BY <1>1, <1>2
<1>4. 1 \in DOMAIN s
  BY <1>1, <1>2
<1>5. ASSUME NEW i \in DOMAIN t, NEW j \in DOMAIN t, i < j PROVE t[i][2] < t[j][2]
  <2>1. i + 1 < j + 1
    BY <1>3, <1>5
  <2> QED
    BY <1>3, <2>1 DEF Ascending
<1>6. \A i \in DOMAIN t : s[1][2] < t[i][2]
  BY <1>3, <1>4 DEF Ascending
<1>7. Ascending(t) /\ Below({Head(s)}, Elems(t))
  BY <1>2, <1>5, <1>6 DEF Ascending, Below, Elems
<1> QED
  BY <1>7 DEF t

LEMMA RiseStarts ==
  ASSUME NEW s \in Seq(Frame), NEW t \in Seq(Frame), Starts(t, s)
  PROVE  MetricsIn(t) \subseteq MetricsIn(s) /\ (Rising(s) => Rising(t))
<1>1. \A i \in DOMAIN t : i \in DOMAIN s /\ t[i] = s[i]
  BY LenProperties DEF Starts
<1>2. MetricsIn(t) \subseteq MetricsIn(s)
  BY <1>1 DEF MetricsIn
<1>3. Rising(s) => Rising(t)
  BY <1>1 DEF Rising
<1> QED
  BY <1>2, <1>3

LEMMA RiseTail ==
  ASSUME NEW s \in Seq(Frame), s # <<>>
  PROVE  MetricsIn(Tail(s)) \subseteq MetricsIn(s) /\ (Rising(s) => Rising(Tail(s)))
<1> DEFINE t == Tail(s)
<1>1. /\ t \in Seq(Frame) /\ Len(t) = Len(s) - 1 /\ Len(s) \in Nat \ {0}
      /\ \A i \in 1 .. Len(t) : t[i] = s[i + 1]
  BY HeadTailProperties, EmptySeq
<1>2. DOMAIN s = 1 .. Len(s) /\ DOMAIN t = 1 .. Len(s) - 1
  BY <1>1, LenProperties
<1> HIDE DEF t
<1>3. \A i \in DOMAIN t : t[i] = s[i + 1] /\ i + 1 \in DOMAIN s /\ i \in Nat
  BY <1>1, <1>2
<1>4. ASSUME Rising(s) PROVE Rising(t)
  <2>1. \A i \in DOMAIN t : Ascending(t[i].metrics)
    BY <1>3, <1>4 DEF Rising
  <2>2. ASSUME NEW i \in DOMAIN t, NEW j \in DOMAIN t, i < j
        PROVE  Below(Elems(t[i].metrics), Elems(t[j].metrics))
    <3>1. i + 1 < j + 1
      BY <1>3, <2>2
    <3> QED
      BY <1>3, <1>4, <3>1 DEF Rising
  <2> QED
    BY <2>1, <2>2 DEF Rising
<1> HIDE DEF t
<1>5. MetricsIn(Tail(s)) \subseteq MetricsIn(s)
  BY TailFrame
<1> QED
  BY <1>4, <1>5 DEF t

LEMMA RiseAppend ==
  ASSUME NEW s \in Seq(Frame), NEW f \in Frame, Rising(s),
         Ascending(f.metrics), Below(MetricsIn(s), Elems(f.metrics))
  PROVE  Rising(Append(s, f))
<1> DEFINE t == Append(s, f)
           n == Len(s) + 1
<1>1. /\ Len(s) \in Nat /\ t[n] = f /\ \A i \in 1 .. Len(s) : t[i] = s[i]
      /\ t \in Seq(Frame) /\ Len(t) = n
  BY AppendProperties, LenProperties
<1>2. DOMAIN t = 1 .. n /\ DOMAIN s = 1 .. Len(s)
  BY <1>1, LenProperties
<1>t. t[n] = f
  BY <1>1
<1>3. \A i \in DOMAIN t : i = n \/ (i \in DOMAIN s /\ t[i] = s[i])
  BY <1>1, <1>2
<1>4. \A i, j \in DOMAIN t : i < j => i # n
  BY <1>1, <1>2
<1> HIDE DEF t, n
<1>5. \A i \in DOMAIN s : Below(Elems(s[i].metrics), Elems(f.metrics))
  BY DEF Below, MetricsIn
<1>6. ASSUME NEW i \in DOMAIN t, NEW j \in DOMAIN t, i < j
      PROVE  Below(Elems(t[i].metrics), Elems(t[j].metrics))
  <2>1. i \in DOMAIN s /\ t[i] = s[i]
    BY <1>3, <1>4, <1>6
  <2>2. CASE j = n
    BY <1>t, <1>5, <2>1, <2>2
  <2>3. CASE j # n
    BY <1>3, <1>6, <2>1, <2>3 DEF Rising
  <2> QED
    BY <2>2, <2>3
<1>7. \A i \in DOMAIN t : Ascending(t[i].metrics)
  BY <1>3, <1>t DEF Rising
<1>8. Rising(t)
  BY <1>6, <1>7 DEF Rising
<1> QED
  BY <1>8 DEF t

(* The chunks of a spool whose numbers rise.                               *)
LEMMA PublishedRises ==
  ASSUME NEW ms \in Seq(Metrics), Len(ms) <= SpoolCap, Ascending(ms)
  PROVE  Rising(<<Register>> \o Replay(ms))
<1> DEFINE r == Replay(ms)
           fs == <<Register>> \o r
<1>1. /\ fs \in Seq(Frame) /\ Len(fs) = 1 + Len(r) /\ fs[1] = Register
      /\ \A i \in 2 .. Len(fs) : fs[i] = r[i - 1]
  BY PublishedFrames
<1>2. /\ r \in Seq(Frame)
      /\ \A k \in 1 .. Len(r) : \A a \in DOMAIN r[k].metrics :
           /\ a \in 1 .. MaxBatch
           /\ (k - 1) * MaxBatch + a \in 1 .. Len(ms)
           /\ r[k].metrics[a] = ms[(k - 1) * MaxBatch + a]
  BY ReplayChunks
<1>3. Len(r) \in Nat /\ DOMAIN fs = 1 .. 1 + Len(r) /\ DOMAIN ms = 1 .. Len(ms)
  BY <1>1, <1>2, LenProperties
<1> HIDE DEF r, fs
<1>4. Elems(fs[1].metrics) = {} /\ Ascending(fs[1].metrics)
  BY <1>1, AscendEmpty, EmptyPlaces DEF Register
<1>5. \A i \in DOMAIN fs : i = 1 \/ (i - 1 \in 1 .. Len(r) /\ fs[i] = r[i - 1])
  BY <1>1, <1>3
<1>6. ASSUME NEW k \in 1 .. Len(r) PROVE Ascending(r[k].metrics)
  <2> SUFFICES ASSUME NEW a \in DOMAIN r[k].metrics, NEW b \in DOMAIN r[k].metrics, a < b
               PROVE  r[k].metrics[a][2] < r[k].metrics[b][2]
    BY DEF Ascending
  <2>k. k \in Nat \ {0} /\ MaxBatch \in Nat
    BY <1>3, Bounds
  <2>m. (k - 1) * MaxBatch \in Nat
    BY <2>k, MulBefore
  <2>a. a \in 1 .. MaxBatch /\ b \in 1 .. MaxBatch
    BY <1>2
  <2>1. a \in Nat /\ b \in Nat
    BY <2>a
  <2>2. (k - 1) * MaxBatch + a < (k - 1) * MaxBatch + b
    BY <2>1, <2>m
  <2>3. /\ (k - 1) * MaxBatch + a \in DOMAIN ms /\ (k - 1) * MaxBatch + b \in DOMAIN ms
        /\ r[k].metrics[a] = ms[(k - 1) * MaxBatch + a]
        /\ r[k].metrics[b] = ms[(k - 1) * MaxBatch + b]
    BY <1>2, <1>3
  <2> QED
    BY <2>2, <2>3 DEF Ascending
<1>7. ASSUME NEW k \in 1 .. Len(r), NEW l \in 1 .. Len(r), k < l
      PROVE  Below(Elems(r[k].metrics), Elems(r[l].metrics))
  <2> SUFFICES ASSUME NEW a \in DOMAIN r[k].metrics, NEW b \in DOMAIN r[l].metrics
               PROVE  r[k].metrics[a][2] < r[l].metrics[b][2]
    BY DEF Below, Elems
  <2>a. a \in 1 .. MaxBatch /\ b \in 1 .. MaxBatch
    BY <1>2
  <2>b. k \in Nat \ {0} /\ l \in Nat \ {0}
    BY <1>3
  <2>1. a \in 1 .. MaxBatch /\ b \in 1 .. MaxBatch /\ k \in Nat \ {0} /\ l \in Nat \ {0}
    BY <2>a, <2>b
  <2>2. (k - 1) * MaxBatch + a < (l - 1) * MaxBatch + b
    BY <1>7, <2>1, ChunkPositions
  <2>3. /\ (k - 1) * MaxBatch + a \in DOMAIN ms /\ (l - 1) * MaxBatch + b \in DOMAIN ms
        /\ r[k].metrics[a] = ms[(k - 1) * MaxBatch + a]
        /\ r[l].metrics[b] = ms[(l - 1) * MaxBatch + b]
    BY <1>2, <1>3
  <2> QED
    BY <2>2, <2>3 DEF Ascending
<1>8. ASSUME NEW i \in DOMAIN fs, NEW j \in DOMAIN fs, i < j
      PROVE  Below(Elems(fs[i].metrics), Elems(fs[j].metrics))
  <2>1. CASE i = 1
    BY <1>4, <2>1 DEF Below
  <2>2. CASE i # 1
    <3>1. i - 1 \in 1 .. Len(r) /\ j - 1 \in 1 .. Len(r) /\ i - 1 < j - 1
      BY <1>3, <1>8, <2>2
    <3>2. fs[i] = r[i - 1] /\ fs[j] = r[j - 1]
      BY <1>1, <1>3, <1>8, <2>2
    <3>3. Below(Elems(r[i - 1].metrics), Elems(r[j - 1].metrics))
      BY <1>7, <3>1
    <3> QED
      BY <3>2, <3>3
  <2> QED
    BY <2>1, <2>2
<1>9. \A i \in DOMAIN fs : Ascending(fs[i].metrics)
  BY <1>4, <1>5, <1>6
<1>10. Rising(fs)
  BY <1>8, <1>9 DEF Rising
<1> QED
  BY <1>10 DEF fs, r

LEMMA PushRises ==
  ASSUME SpoolTypes, NEW m \in Metrics, Spool!Push(m),
         Ascending(spool), Below(Elems(spool), {m})
  PROVE  Ascending(spool')
<1>1. spool \in Seq(Metrics) /\ Len(spool) \in Nat /\ SpoolCap \in Nat \ {0}
  BY Bounds, LenProperties DEF SpoolTypes
<1>2. CASE Spool!Full
  <2>1. spool' = Append(Tail(spool), m)
    BY <1>2 DEF Spool!Push
  <2>2. spool # <<>>
    BY <1>1, <1>2, EmptySeq DEF Spool!Full
  <2>3. Tail(spool) \in Seq(Metrics) /\ Elems(Tail(spool)) \subseteq Elems(spool)
    BY <1>1, <2>2, TailSeq
  <2>4. Ascending(Tail(spool)) /\ Below(Elems(Tail(spool)), {m})
    BY <1>1, <2>2, <2>3, AscendTail DEF Below
  <2> QED
    BY <2>1, <2>3, <2>4, AscendAppend
<1>3. CASE ~Spool!Full
  <2>1. spool' = Append(spool, m)
    BY <1>3 DEF Spool!Push
  <2> QED
    BY <1>1, <2>1, AscendAppend
<1> QED
  BY <1>2, <1>3

(* An intake of rising numbers leaves room for a higher one: position i    *)
(* holds a number of at least i.                                           *)
LEMMA IntakeHasRoom ==
  ASSUME NEW s \in Seq(Metrics), NEW m \in Metrics, Ascending(s), Below(Elems(s), {m}),
         IntakeCap >= MaxSeq
  PROVE  Len(s) < IntakeCap
<1>1. Len(s) \in Nat /\ DOMAIN s = 1 .. Len(s)
  BY LenProperties
<1>2. \A i \in 1 .. Len(s) : s[i] \in Metrics /\ s[i][2] \in 1 .. MaxSeq
  BY ElementOfSeq DEF Metrics
<1>3. m[2] \in 1 .. MaxSeq
  BY DEF Metrics
<1>4. ASSUME NEW i \in 1 .. Len(s) PROVE i <= s[i][2]
  <2> DEFINE low == {k \in 1 .. Len(s) : ~ (k <= s[k][2])}
  <2>1. CASE low = {}
    BY <2>1
  <2>2. CASE low # {}
    <3>1. low \in SUBSET Nat
      BY <1>1
    <3> HIDE DEF low
    <3>2. PICK k \in low : \A j \in low : k <= j
      BY <2>2, <3>1, LeastNat
    <3>3. k \in 1 .. Len(s) /\ ~ (k <= s[k][2])
      BY <3>2 DEF low
    <3>4. k # 1
      BY <1>2, <3>3, Bounds
    <3>5. k - 1 \in 1 .. Len(s) /\ k - 1 \notin low
      BY <1>1, <3>2, <3>3, <3>4
    <3>6. k - 1 <= s[k - 1][2]
      BY <3>5 DEF low
    <3>7. s[k - 1][2] < s[k][2]
      <4>1. k - 1 < k /\ k \in DOMAIN s /\ k - 1 \in DOMAIN s
        BY <1>1, <3>3, <3>5
      <4> QED
        BY <4>1 DEF Ascending
    <3>8. s[k - 1][2] \in Nat /\ s[k][2] \in Nat /\ k \in Nat
      BY <1>1, <1>2, <3>3, <3>5, Bounds
    <3> QED
      BY <3>3, <3>6, <3>7, <3>8
  <2> QED
    BY <2>1, <2>2
<1>5. CASE Len(s) = 0
  BY <1>5, Bounds
<1>6. CASE Len(s) # 0
  <2>1. Len(s) \in 1 .. Len(s)
    BY <1>1, <1>6
  <2>2. s[Len(s)][2] < m[2]
    BY <1>1, <2>1 DEF Below, Elems
  <2>3. Len(s) <= s[Len(s)][2] /\ s[Len(s)][2] \in 1 .. MaxSeq
    BY <1>2, <1>4, <2>1
  <2> QED
    BY <1>1, <1>3, <2>2, <2>3, Bounds
<1> QED
  BY <1>5, <1>6

Alone == Probers = 1 /\ IntakeCap >= MaxSeq

(* What went out on the connection in service and is still on its way.     *)
Carried == IF runPc = "serving" THEN MetricsIn(Stream(conn)) ELSE {}

Older == Elems(drained) \cup Elems(spool) \cup Carried

(* Every stage of the agent holds numbers above those of the stages after  *)
(* it, and what a connection carries is not above what is yet to go out.   *)
LineInv ==
  /\ Ascending(drained) /\ Ascending(spool) /\ Ascending(batch) /\ Ascending(intake)
  /\ Below(Elems(drained), Elems(spool))
  /\ Below(Older, Elems(batch))
  /\ Below(Older \cup Elems(batch), Elems(intake))
  /\ Below(Older \cup Elems(batch) \cup Elems(intake), held)
  /\ \A m \in Older \cup InLoop : m \in Metrics /\ m[2] <= seq[inc]

RisingStreams == \A c \in Conns : Rising(Stream(c))

RisingInv == LineInv /\ RisingStreams

(* A step that takes nothing into the agent's queues.                      *)
LEMMA LineShrinks ==
  ASSUME LineInv, UNCHANGED <<inc, seq>>, Older' \subseteq Older,
         Elems(drained') \subseteq Elems(drained), Elems(spool') \subseteq Elems(spool),
         UNCHANGED <<held, intake, batch>>,
         Ascending(drained'), Ascending(spool')
  PROVE  LineInv'
<1>1. /\ \A m \in Older' : m \in Older
      /\ \A m \in Elems(drained') : m \in Elems(drained)
      /\ \A m \in Elems(spool') : m \in Elems(spool)
      /\ Elems(intake)' = Elems(intake) /\ Elems(batch)' = Elems(batch) /\ held' = held
      /\ InLoop' = InLoop /\ Elems(drained)' = Elems(drained') /\ Elems(spool)' = Elems(spool')
  BY DEF Elems, InLoop
<1> QED
  BY <1>1 DEF LineInv, Below, Ascending

(* The streams shrink, but for the two steps that add to one.              *)
LEMMA StreamsShrink ==
  ASSUME TypeOK, TypeOK', NEW c \in Conns,
         \/ UNCHANGED <<runPc, conn, sendq, wire, up>>
         \/ Connect \/ WriteFrame \/ EndServe \/ Restart
         \/ \E d \in Conns : Cut(d) \/ HubRegister(d) \/ HubTelemetry(d)
  PROVE  /\ MetricsIn(Stream(c)') \subseteq MetricsIn(Stream(c))
         /\ Rising(Stream(c)) => Rising(Stream(c)')
<1>t. StreamsAreSeqs'
  BY StreamsTyped, PTL
<1>1. Stream(c) \in Seq(Frame) /\ Stream(c)' \in Seq(Frame)
  BY <1>t, StreamTypes DEF StreamsAreSeqs
<1>2. CASE Stream(c)' = Stream(c)
  BY <1>2
<1>3. CASE Starts(Stream(c)', Stream(c))
  BY <1>1, <1>3, RiseStarts
<1>4. CASE Stream(c) # <<>> /\ Stream(c)' = Tail(Stream(c))
  BY <1>1, <1>4, RiseTail
<1>5. CASE UNCHANGED <<runPc, conn, sendq, wire, up>> \/ WriteFrame
  <2>1. Stream(c)' = Stream(c)
    BY <1>5, WriteFrameStreams DEF Stream, Queued
  <2> QED
    BY <1>2, <2>1
<1>6. CASE Connect
  <2>1. UNCHANGED <<sendq, wire>> /\ runPc = "idle" /\ runPc' = "drained"
    BY <1>6 DEF Connect
  <2>2. Stream(c)' = Stream(c)
    BY <2>1 DEF Stream, Queued
  <2> QED
    BY <1>2, <2>2
<1>7. CASE EndServe \/ Restart
  BY <1>3, <1>7, EndStreams
<1>8. ASSUME NEW d \in Conns, Cut(d) PROVE Starts(Stream(c)', Stream(c))
  BY <1>8, CutStreams
<1>9. ASSUME NEW d \in Conns, HubRegister(d) \/ HubTelemetry(d)
      PROVE  Stream(c)' = Stream(c) \/ (Stream(c) # <<>> /\ Stream(c)' = Tail(Stream(c)))
  BY <1>9, HubStreams
<1> QED
  BY <1>2, <1>3, <1>4, <1>5, <1>6, <1>7, <1>8, <1>9

LEMMA CarriedShrinks ==
  ASSUME TypeOK, UNCHANGED conn, runPc' # "idle" => runPc' = runPc,
         \A c \in Conns : MetricsIn(Stream(c)') \subseteq MetricsIn(Stream(c))
  PROVE  Carried' \subseteq Carried
<1>1. CASE runPc' = "serving"
  <2>1. runPc = "serving" /\ conn \in Conns
    BY <1>1, StreamTypes, Bounds DEF TypeOK, ConnTypes, Conns
  <2>2. \A c \in Conns : c = conn => Stream(c) = Stream(conn) /\ Stream(conn)' = Stream(c)'
    BY DEF Stream
  <2>3. MetricsIn(Stream(conn)') \subseteq MetricsIn(Stream(conn))
    BY <2>1, <2>2
  <2>4. Carried = MetricsIn(Stream(conn)) /\ Carried' = MetricsIn(Stream(conn)')
    BY <1>1, <2>1 DEF Carried, MetricsIn
  <2> QED
    BY <2>3, <2>4
<1>2. CASE runPc' # "serving"
  BY <1>2 DEF Carried
<1> QED
  BY <1>1, <1>2

LEMMA LineStamp ==
  ASSUME TypeOK, TypeOK', LineInv, Alone, Stamp
  PROVE  LineInv'
<1> DEFINE m == <<inc, seq[inc] + 1>>
<1>1. /\ Cardinality(held) < 1 /\ Cardinality(Stamped) < MaxSeq
      /\ seq' = [seq EXCEPT ![inc] = @ + 1] /\ held' = held \cup {m}
      /\ UNCHANGED <<inc, intake, batch, spool, drained, runPc, conn, sendq, wire, up>>
  BY DEF Stamp, Alone, spoolVars, connVars, netVars
<1>2. /\ inc \in 0 .. MaxRestarts /\ seq \in [0 .. MaxRestarts -> 0 .. MaxSeq]
      /\ held \subseteq Metrics
  BY DEF TypeOK, AgentTypes
<1>3. IsFiniteSet(held)
  BY <1>2, MetricsFinite, FS_Subset
<1>4. Cardinality(held) \in Nat
  BY <1>3, FS_CardinalityType
<1>5. held = {}
  BY <1>1, <1>3, <1>4, FS_EmptySet
<1>6. m \in Metrics /\ m[2] = seq[inc] + 1 /\ seq'[inc'] = seq[inc] + 1 /\ seq[inc] \in Nat
  <2>1. seq[inc] + 1 \in 1 .. MaxSeq
    BY <1>1, StampFits DEF TypeOK
  <2> QED
    BY <1>1, <1>2, <2>1, Bounds DEF Metrics
<1>7. \A c \in Conns : MetricsIn(Stream(c)') \subseteq MetricsIn(Stream(c))
  BY <1>1, StreamsShrink
<1>8. Carried' \subseteq Carried
  BY <1>1, <1>7, CarriedShrinks
<1> HIDE DEF m
<1>9. /\ Elems(drained)' = Elems(drained) /\ Elems(spool)' = Elems(spool)
      /\ Elems(batch)' = Elems(batch) /\ Elems(intake)' = Elems(intake) /\ held' = {m}
  BY <1>1, <1>5 DEF Elems
<1>10. Older' \subseteq Older
  BY <1>8, <1>9 DEF Older
<1>11. \A x \in Older' \cup Elems(batch)' \cup Elems(intake)' :
          x \in Metrics /\ x[2] <= seq[inc] /\ x[2] \in Nat
  <2>1. \A x \in Older' \cup Elems(batch)' \cup Elems(intake)' : x \in Older \cup InLoop
    BY <1>9, <1>10 DEF InLoop
  <2>2. \A x \in Metrics : x[2] \in Nat
    BY Bounds DEF Metrics
  <2> QED
    BY <2>1, <2>2 DEF LineInv
<1>12. Below(Older' \cup Elems(batch)' \cup Elems(intake)', held')
  BY <1>6, <1>9, <1>11 DEF Below
<1>13. \A x \in Older' \cup InLoop' : x \in Metrics /\ x[2] <= seq'[inc']
  BY <1>6, <1>9, <1>11 DEF InLoop
<1>14. /\ Below(Older', Elems(batch)') /\ Below(Older' \cup Elems(batch)', Elems(intake)')
       /\ Below(Elems(drained)', Elems(spool)')
  BY <1>9, <1>10 DEF LineInv, Below
<1>15. Ascending(drained)' /\ Ascending(spool)' /\ Ascending(batch)' /\ Ascending(intake)'
  BY <1>1 DEF LineInv, Ascending
<1> QED
  BY <1>12, <1>13, <1>14, <1>15 DEF LineInv, Below

LEMMA LineSubmit ==
  ASSUME TypeOK, TypeOK', LineInv, Alone, NEW m \in Metrics, Submit(m)
  PROVE  LineInv'
<1>1. /\ m \in held /\ held' = held \ {m}
      /\ UNCHANGED <<inc, seq, batch, runPc, conn, sendq, wire, up>>
      /\ IF Len(intake) < IntakeCap
           THEN intake' = Append(intake, m) /\ UNCHANGED <<spool, drained>>
           ELSE Spool!Push(m) /\ UNCHANGED intake
  BY DEF Submit, spoolVars, connVars, netVars
<1>2. held \subseteq Metrics /\ Cardinality(held) <= 1 /\ intake \in Seq(Metrics)
  BY DEF TypeOK, AgentTypes, Alone
<1>3. IsFiniteSet(held)
  BY <1>2, MetricsFinite, FS_Subset
<1>4. Cardinality(held) \in Nat
  BY <1>3, FS_CardinalityType
<1>5. held' = {}
  <2>1. Cardinality(held \ {m}) = Cardinality(held) - 1 /\ IsFiniteSet(held \ {m})
    BY <1>1, <1>3, FS_RemoveElement
  <2>2. Cardinality(held \ {m}) \in Nat
    BY <2>1, FS_CardinalityType
  <2>3. Cardinality(held \ {m}) = 0
    BY <1>2, <1>4, <2>1, <2>2
  <2> QED
    BY <1>1, <2>1, <2>3, FS_EmptySet
<1>6. Below(Elems(intake), {m})
  BY <1>1 DEF LineInv, Below
<1>7. Len(intake) < IntakeCap
  BY <1>2, <1>6, IntakeHasRoom DEF LineInv, Alone
<1>8. intake' = Append(intake, m) /\ UNCHANGED <<spool, drained>>
  BY <1>1, <1>7
<1>9. Ascending(intake') /\ Elems(intake') = Elems(intake) \cup {m}
  BY <1>2, <1>6, <1>8, AscendAppend, AppendSeq DEF LineInv
<1>10. \A c \in Conns : MetricsIn(Stream(c)') \subseteq MetricsIn(Stream(c))
  BY <1>1, StreamsShrink
<1>11. Carried' \subseteq Carried
  BY <1>1, <1>10, CarriedShrinks
<1>12. /\ Elems(drained)' = Elems(drained) /\ Elems(spool)' = Elems(spool)
       /\ Elems(batch)' = Elems(batch) /\ Elems(intake)' = Elems(intake) \cup {m}
  BY <1>1, <1>8, <1>9 DEF Elems
<1>13. Older' \subseteq Older
  BY <1>11, <1>12 DEF Older
<1>14. /\ Ascending(drained)' /\ Ascending(spool)' /\ Ascending(batch)' /\ Ascending(intake)'
  BY <1>1, <1>8, <1>9 DEF LineInv, Ascending
<1>15. Below(Older' \cup Elems(batch)', Elems(intake)')
  BY <1>1, <1>12, <1>13 DEF LineInv, Below
<1>16. Below(Older' \cup Elems(batch)' \cup Elems(intake)', held')
  BY <1>5 DEF Below
<1>17. /\ Below(Older', Elems(batch)') /\ Below(Elems(drained)', Elems(spool)')
  BY <1>12, <1>13 DEF LineInv, Below
<1>18. \A x \in Older' \cup InLoop' : x \in Metrics /\ x[2] <= seq'[inc']
  <2>1. \A x \in Older' \cup InLoop' : x \in Older \cup InLoop
    BY <1>1, <1>5, <1>12, <1>13 DEF InLoop
  <2> QED
    BY <1>1, <2>1 DEF LineInv
<1> QED
  BY <1>14, <1>15, <1>16, <1>17, <1>18 DEF LineInv, Below

LEMMA LineLoopTake ==
  ASSUME TypeOK, TypeOK', LineInv, LoopTake
  PROVE  LineInv'
<1>1. /\ intake # <<>> /\ batch' = Append(batch, Head(intake)) /\ intake' = Tail(intake)
      /\ UNCHANGED <<inc, seq, held, spool, drained, runPc, conn, sendq, wire, up>>
      /\ batch \in Seq(Metrics) /\ intake \in Seq(Metrics)
  BY DEF LoopTake, spoolVars, connVars, netVars, TypeOK, AgentTypes
<1> DEFINE m == Head(intake)
<1>2. /\ m \in Metrics /\ Elems(intake) = {m} \cup Elems(intake')
      /\ Elems(batch') = Elems(batch) \cup {m}
  BY <1>1, TailSeq, AppendSeq
<1>3. Ascending(intake') /\ Below({m}, Elems(intake'))
  BY <1>1, AscendTail DEF LineInv
<1>4. Below(Elems(batch), {m})
  BY <1>2 DEF LineInv, Below
<1>5. Ascending(batch')
  BY <1>1, <1>2, <1>4, AscendAppend DEF LineInv
<1>6. \A c \in Conns : MetricsIn(Stream(c)') \subseteq MetricsIn(Stream(c))
  BY <1>1, StreamsShrink
<1>7. Carried' \subseteq Carried
  BY <1>1, <1>6, CarriedShrinks
<1> HIDE DEF m
<1>8. /\ Elems(drained)' = Elems(drained) /\ Elems(spool)' = Elems(spool)
      /\ Elems(batch)' = Elems(batch) \cup {m} /\ Elems(intake)' = Elems(intake')
  BY <1>1, <1>2 DEF Elems
<1>9. Older' \subseteq Older
  BY <1>7, <1>8 DEF Older
<1>10. /\ Ascending(drained)' /\ Ascending(spool)' /\ Ascending(batch)' /\ Ascending(intake)'
       /\ Below(Elems(drained)', Elems(spool)')
  BY <1>1, <1>3, <1>5, <1>8 DEF LineInv, Ascending
<1>11. Below(Older', Elems(batch)')
  BY <1>2, <1>8, <1>9 DEF LineInv, Below
<1>12. Below(Older' \cup Elems(batch)', Elems(intake)')
  BY <1>2, <1>3, <1>8, <1>9 DEF LineInv, Below
<1>13. Below(Older' \cup Elems(batch)' \cup Elems(intake)', held')
  BY <1>1, <1>2, <1>8, <1>9 DEF LineInv, Below
<1>14. \A x \in Older' \cup InLoop' : x \in Metrics /\ x[2] <= seq'[inc']
  <2>1. \A x \in Older' \cup InLoop' : x \in Older \cup InLoop
    BY <1>1, <1>2, <1>8, <1>9 DEF InLoop
  <2> QED
    BY <1>1, <2>1 DEF LineInv
<1> QED
  BY <1>10, <1>11, <1>12, <1>13, <1>14 DEF LineInv, Below

LEMMA LineFlushPush ==
  ASSUME TypeOK, TypeOK', LineInv, FlushPush
  PROVE  LineInv'
<1> DEFINE m == Head(batch)
<1>1. /\ batch # <<>> /\ batch' = Tail(batch) /\ Spool!Push(m)
      /\ UNCHANGED <<inc, seq, held, intake, runPc, conn, sendq, wire, up>>
      /\ batch \in Seq(Metrics) /\ SpoolTypes
  BY DEF FlushPush, connVars, netVars, TypeOK, AgentTypes
<1>2. m \in Metrics /\ Elems(batch) = {m} \cup Elems(batch')
  BY <1>1, TailSeq
<1>3. Ascending(batch') /\ Below({m}, Elems(batch'))
  BY <1>1, AscendTail DEF LineInv
<1> HIDE DEF m
<1>4. Below(Elems(spool), {m})
  BY <1>2 DEF LineInv, Below, Older
<1>5. Ascending(spool') /\ Elems(spool') \subseteq Elems(spool) \cup {m} /\ drained' = drained
  BY <1>1, <1>2, <1>4, PushRises, PushMoves DEF LineInv
<1>6. \A c \in Conns : MetricsIn(Stream(c)') \subseteq MetricsIn(Stream(c))
  BY <1>1, StreamsShrink
<1>7. Carried' \subseteq Carried
  BY <1>1, <1>6, CarriedShrinks
<1>8. /\ Elems(drained)' = Elems(drained) /\ Elems(spool)' \subseteq Elems(spool) \cup {m}
      /\ Elems(batch)' = Elems(batch') /\ Elems(intake)' = Elems(intake)
  BY <1>1, <1>5 DEF Elems
<1>9. Older' \subseteq Older \cup {m}
  BY <1>7, <1>8 DEF Older
<1>10. /\ Ascending(drained)' /\ Ascending(spool)' /\ Ascending(batch)' /\ Ascending(intake)'
  BY <1>1, <1>3, <1>5 DEF LineInv, Ascending
<1>11. Below(Elems(drained)', Elems(spool)')
  <2>1. Below(Elems(drained), {m})
    BY <1>2 DEF LineInv, Below, Older
  <2> QED
    BY <1>8, <2>1 DEF LineInv, Below
<1>12. Below(Older', Elems(batch)')
  BY <1>2, <1>3, <1>8, <1>9 DEF LineInv, Below
<1>13. Below(Older' \cup Elems(batch)', Elems(intake)')
  BY <1>2, <1>8, <1>9 DEF LineInv, Below
<1>14. Below(Older' \cup Elems(batch)' \cup Elems(intake)', held')
  BY <1>1, <1>2, <1>8, <1>9 DEF LineInv, Below
<1>15. \A x \in Older' \cup InLoop' : x \in Metrics /\ x[2] <= seq'[inc']
  <2>1. \A x \in Older' \cup InLoop' : x \in Older \cup InLoop
    BY <1>1, <1>2, <1>8, <1>9 DEF InLoop
  <2> QED
    BY <1>1, <2>1 DEF LineInv
<1> QED
  BY <1>10, <1>11, <1>12, <1>13, <1>14, <1>15 DEF LineInv, Below

LEMMA SendQueuedRises ==
  ASSUME TypeOK, TypeOK', RisingInv, SendQueued
  PROVE  RisingInv'
<1> DEFINE f == Telemetry(batch, FALSE)
<1>1. /\ batch' = <<>>
      /\ UNCHANGED <<inc, seq, held, intake, spool, drained, runPc, conn, up>>
      /\ f \in Frame /\ f.metrics = batch
  BY BatchFrame DEF SendQueued, spoolVars, connVars, TypeOK, AgentTypes
<1> HIDE DEF f
<1>2. ASSUME NEW c \in Conns
      PROVE  Stream(c)' = Stream(c) \/ (/\ c = conn /\ runPc = "serving" /\ up[conn]
                                        /\ Stream(c)' = Append(Stream(c), f))
  BY SendQueuedStreams DEF f
<1>3. ASSUME NEW c \in Conns PROVE Rising(Stream(c)')
  <2>1. Rising(Stream(c)) /\ Stream(c) \in Seq(Frame)
    BY StreamTypes DEF RisingInv, RisingStreams
  <2>2. CASE Stream(c)' = Stream(c)
    BY <2>1, <2>2
  <2>3. CASE /\ c = conn /\ runPc = "serving" /\ up[conn]
             /\ Stream(c)' = Append(Stream(c), f)
    <3>1. MetricsIn(Stream(c)) = Carried
      BY <2>3 DEF Carried
    <3>2. Below(MetricsIn(Stream(c)), Elems(batch)) /\ Ascending(batch)
      BY <3>1 DEF RisingInv, LineInv, Below, Older
    <3> QED
      BY <1>1, <2>1, <2>3, <3>2, RiseAppend
  <2> QED
    BY <1>2, <2>2, <2>3
<1>4. Carried' \subseteq Carried \cup Elems(batch)
  <2>1. CASE runPc = "serving"
    <3>1. conn \in Conns
      BY <2>1, Bounds DEF TypeOK, ConnTypes, Conns
    <3>2. \A c \in Conns : c = conn => Stream(c) = Stream(conn) /\ Stream(conn)' = Stream(c)'
      BY <1>1 DEF Stream
    <3>3. \A c \in Conns : MetricsIn(Stream(c)') \subseteq MetricsIn(Stream(c)) \cup Elems(batch)
      <4> SUFFICES ASSUME NEW c \in Conns
                   PROVE  MetricsIn(Stream(c)') \subseteq MetricsIn(Stream(c)) \cup Elems(batch)
        OBVIOUS
      <4>1. Stream(c) \in Seq(Frame)
        BY StreamTypes
      <4>2. MetricsIn(Append(Stream(c), f)) = MetricsIn(Stream(c)) \cup Elems(batch)
        BY <1>1, <4>1, AppendFrame
      <4> QED
        BY <1>2, <4>2
    <3>4. MetricsIn(Stream(conn)') \subseteq MetricsIn(Stream(conn)) \cup Elems(batch)
      BY <3>1, <3>2, <3>3
    <3>5. Carried = MetricsIn(Stream(conn)) /\ Carried' = MetricsIn(Stream(conn)')
      BY <1>1, <2>1 DEF Carried, MetricsIn
    <3> QED
      BY <3>4, <3>5
  <2>2. CASE runPc # "serving"
    BY <1>1, <2>2 DEF Carried
  <2> QED
    BY <2>1, <2>2
<1>5. /\ Elems(drained)' = Elems(drained) /\ Elems(spool)' = Elems(spool)
      /\ Elems(batch)' = {} /\ Elems(intake)' = Elems(intake)
  BY <1>1, EmptyPlaces DEF Elems
<1>6. Older' \subseteq Older \cup Elems(batch)
  BY <1>4, <1>5 DEF Older
<1>7. /\ Ascending(drained)' /\ Ascending(spool)' /\ Ascending(batch)' /\ Ascending(intake)'
      /\ Below(Elems(drained)', Elems(spool)') /\ Below(Older', Elems(batch)')
  BY <1>1, <1>5, AscendEmpty DEF RisingInv, LineInv, Ascending, Below
<1>8. Below(Older' \cup Elems(batch)', Elems(intake)')
  BY <1>5, <1>6 DEF RisingInv, LineInv, Below
<1>9. Below(Older' \cup Elems(batch)' \cup Elems(intake)', held')
  BY <1>1, <1>5, <1>6 DEF RisingInv, LineInv, Below
<1>10. \A x \in Older' \cup InLoop' : x \in Metrics /\ x[2] <= seq'[inc']
  <2>1. \A x \in Older' \cup InLoop' : x \in Older \cup InLoop
    BY <1>1, <1>5, <1>6 DEF InLoop
  <2> QED
    BY <1>1, <2>1 DEF RisingInv, LineInv
<1>11. LineInv'
  BY <1>7, <1>8, <1>9, <1>10 DEF LineInv, Below
<1> QED
  BY <1>3, <1>11 DEF RisingInv, RisingStreams

(* The replay is what was drained, so it goes out below what is spooled    *)
(* after the Drain.                                                        *)
LEMMA PublishRises ==
  ASSUME TypeOK, TypeOK', OrderInv, RisingInv, Publish
  PROVE  RisingInv'
<1> DEFINE fs == <<Register>> \o Replay(drained)
<1>1. /\ drained' = <<>> /\ runPc = "drained" /\ conn' = conn /\ conn \in Conns
      /\ UNCHANGED <<inc, seq, held, intake, batch, spool, wire, up>>
      /\ drained \in Seq(Metrics) /\ Len(drained) <= SpoolCap
  BY Bounds DEF Publish, agentVars, TypeOK, SpoolTypes, ConnTypes, Conns
<1>2. Rising(fs)
  BY <1>1, PublishedRises DEF RisingInv, LineInv
<1>3. MetricsIn(fs) \subseteq Elems(drained)
  BY <1>1, PublishedMetrics
<1> HIDE DEF fs
<1>4. ASSUME NEW c \in Conns
      PROVE  \/ Stream(c)' = Stream(c) /\ (c = conn => ~ up[conn])
             \/ c = conn /\ up[conn] /\ Stream(c)' = fs
  BY PublishStreams DEF fs
<1>5. \A c \in Conns : Rising(Stream(c)')
  BY <1>2, <1>4 DEF RisingInv, RisingStreams
<1>6. \A c \in Conns : c = conn => MetricsIn(Stream(c)') \subseteq Elems(drained)
  <2> SUFFICES ASSUME NEW c \in Conns, c = conn
               PROVE  MetricsIn(Stream(c)') \subseteq Elems(drained)
    OBVIOUS
  <2>1. CASE up[conn]
    BY <1>3, <1>4, <2>1
  <2>2. CASE ~ up[conn]
    <3>1. wire[c] = <<>>
      BY <1>1 DEF OrderInv
    <3>2. wire[c] \in Seq(Frame)
      BY StreamTypes
    <3>3. Stream(c) = <<>>
      BY <2>2, <3>1, <3>2, EndToEnd DEF Stream
    <3> QED
      BY <1>4, <2>2, <3>3, EmptyPlaces
  <2> QED
    BY <2>1, <2>2
<1>7. Carried' \subseteq Elems(drained)
  <2>1. \A c \in Conns : c = conn => Stream(conn)' = Stream(c)'
    BY <1>1 DEF Stream
  <2>2. MetricsIn(Stream(conn)') \subseteq Elems(drained)
    BY <1>1, <1>6, <2>1
  <2>3. Carried' \subseteq MetricsIn(Stream(conn)')
    BY DEF Carried, MetricsIn
  <2> QED
    BY <2>2, <2>3
<1>8. /\ Elems(drained)' = {} /\ Elems(spool)' = Elems(spool) /\ Elems(drained') = {}
  BY <1>1, EmptyPlaces DEF Elems
<1>9. Older' \subseteq Older
  BY <1>7, <1>8 DEF Older
<1>10. LineInv'
  BY <1>1, <1>8, <1>9, LineShrinks, AscendEmpty DEF RisingInv, LineInv
<1> QED
  BY <1>5, <1>10 DEF RisingInv, RisingStreams

LEMMA ConnectRises ==
  ASSUME TypeOK, TypeOK', RisingInv, Connect
  PROVE  RisingInv'
<1>1. /\ drained' = spool /\ spool' = <<>> /\ runPc' = "drained"
      /\ UNCHANGED <<inc, seq, held, intake, batch>>
  BY DEF Connect, Spool!Drain, agentVars
<1>2. RisingStreams'
  BY StreamsShrink DEF RisingInv, RisingStreams
<1>3. Carried' = {}
  BY <1>1 DEF Carried
<1>4. /\ Elems(drained)' = Elems(spool) /\ Elems(spool)' = {}
      /\ Elems(batch)' = Elems(batch) /\ Elems(intake)' = Elems(intake) /\ held' = held
  BY <1>1, EmptyPlaces DEF Elems
<1>5. Older' \subseteq Older
  BY <1>3, <1>4 DEF Older
<1>6. /\ Ascending(drained)' /\ Ascending(spool)' /\ Ascending(batch)' /\ Ascending(intake)'
  BY <1>1, AscendEmpty DEF RisingInv, LineInv, Ascending
<1>7. /\ Below(Elems(drained)', Elems(spool)') /\ Below(Older', Elems(batch)')
      /\ Below(Older' \cup Elems(batch)', Elems(intake)')
      /\ Below(Older' \cup Elems(batch)' \cup Elems(intake)', held')
  BY <1>4, <1>5 DEF RisingInv, LineInv, Below
<1>8. \A x \in Older' \cup InLoop' : x \in Metrics /\ x[2] <= seq'[inc']
  <2>1. \A x \in Older' \cup InLoop' : x \in Older \cup InLoop
    BY <1>4, <1>5 DEF InLoop
  <2> QED
    BY <1>1, <2>1 DEF RisingInv, LineInv
<1>9. LineInv'
  BY <1>6, <1>7, <1>8 DEF LineInv, Below
<1> QED
  BY <1>2, <1>9 DEF RisingInv

LEMMA RestartRises ==
  ASSUME TypeOK, TypeOK', RisingInv, Restart
  PROVE  RisingInv'
<1>1. /\ drained' = <<>> /\ spool' = <<>> /\ runPc' = "idle"
      /\ held' = {} /\ intake' = <<>> /\ batch' = <<>>
  BY DEF Restart
<1>2. RisingStreams'
  BY StreamsShrink DEF RisingInv, RisingStreams
<1>3. /\ Carried' = {} /\ Elems(drained)' = {} /\ Elems(spool)' = {}
      /\ Elems(batch)' = {} /\ Elems(intake)' = {}
  BY <1>1, EmptyPlaces DEF Carried, Elems
<1>4. Older' = {} /\ InLoop' = {}
  BY <1>1, <1>3 DEF Older, InLoop
<1>5. /\ Ascending(drained)' /\ Ascending(spool)' /\ Ascending(batch)' /\ Ascending(intake)'
  BY <1>1, AscendEmpty DEF Ascending
<1>6. LineInv'
  BY <1>1, <1>3, <1>4, <1>5 DEF LineInv, Below
<1> QED
  BY <1>2, <1>6 DEF RisingInv

LEMMA StillRises ==
  ASSUME TypeOK, TypeOK', RisingInv, UNCHANGED <<inc, seq, held, intake, batch, spool, drained>>,
         UNCHANGED conn, runPc' # "idle" => runPc' = runPc,
         \/ UNCHANGED <<runPc, conn, sendq, wire, up>>
         \/ WriteFrame \/ EndServe
         \/ \E d \in Conns : Cut(d) \/ HubRegister(d) \/ HubTelemetry(d)
  PROVE  RisingInv'
<1>1. \A c \in Conns : MetricsIn(Stream(c)') \subseteq MetricsIn(Stream(c))
  BY StreamsShrink
<1>2. RisingStreams'
  BY StreamsShrink DEF RisingInv, RisingStreams
<1>3. Carried' \subseteq Carried
  BY <1>1, CarriedShrinks
<1>4. Elems(drained)' = Elems(drained) /\ Elems(spool)' = Elems(spool)
  BY DEF Elems
<1>5. Older' \subseteq Older
  BY <1>3, <1>4 DEF Older
<1>6. LineInv'
  BY <1>5, LineShrinks DEF RisingInv, LineInv
<1> QED
  BY <1>2, <1>6 DEF RisingInv

LEMMA RisingStep ==
  Alone => (TypeOK /\ TypeOK' /\ OrderInv /\ RisingInv /\ [Next]_vars => RisingInv')
<1> SUFFICES ASSUME Alone, TypeOK, TypeOK', OrderInv, RisingInv, [Next]_vars PROVE RisingInv'
  OBVIOUS
<1>1. CASE Stamp \/ (\E m \in Metrics : Submit(m)) \/ LoopTake \/ FlushPush
  <2>1. LineInv'
    BY <1>1, LineStamp, LineSubmit, LineLoopTake, LineFlushPush DEF RisingInv
  <2>2. UNCHANGED <<runPc, conn, sendq, wire, up>>
    BY <1>1 DEF Stamp, Submit, LoopTake, FlushPush, connVars, netVars
  <2>3. RisingStreams'
    BY <2>2, StreamsShrink DEF RisingInv, RisingStreams
  <2> QED
    BY <2>1, <2>3 DEF RisingInv
<1>2. CASE FlushBegin \/ SendFailed \/ Shutdown \/ UNCHANGED vars
  BY <1>2, StillRises
  DEF FlushBegin, SendFailed, Shutdown, vars, agentVars, spoolVars, connVars, netVars
<1>3. CASE WriteFrame \/ EndServe
  BY <1>3, StillRises DEF WriteFrame, EndServe, agentVars, spoolVars, connVars
<1>4. ASSUME NEW d \in Conns, Cut(d) \/ HubRegister(d) \/ HubTelemetry(d) PROVE RisingInv'
  BY <1>4, StillRises DEF Cut, HubRegister, HubTelemetry, agentVars, spoolVars, connVars
<1> QED
  BY <1>1, <1>2, <1>3, <1>4, SendQueuedRises, PublishRises, ConnectRises, RestartRises DEF Next

LEMMA RisingAlways == Alone => (Spec => []RisingInv)
<1> SUFFICES ASSUME Alone PROVE Spec => []RisingInv
  OBVIOUS
<1>1. Init => RisingInv
  <2> SUFFICES ASSUME Init PROVE RisingInv
    OBVIOUS
  <2>1. /\ \A c \in Conns : wire[c] = <<>>
        /\ Queued = <<>> /\ runPc = "idle" /\ held = {} /\ intake = <<>> /\ batch = <<>>
        /\ spool = <<>> /\ drained = <<>>
    BY DEF Init, Queued, Spool!Init
  <2>2. <<>> \o <<>> = <<>>
    BY EmptySeq, ConcatEmptySeq
  <2>3. \A c \in Conns : Stream(c) = <<>>
    BY <2>1, <2>2 DEF Stream
  <2>4. Older = {} /\ InLoop = {} /\ Elems(<<>>) = {}
    BY <2>1, EmptyPlaces DEF Older, Carried, InLoop
  <2> QED
    BY <2>1, <2>3, <2>4, AscendEmpty DEF RisingInv, LineInv, RisingStreams, Below
<1>2. TypeOK /\ TypeOK' /\ OrderInv /\ RisingInv /\ [Next]_vars => RisingInv'
  BY RisingStep
<1> QED
  BY <1>1, <1>2, TypesInvariant, OrderInvariant, PTL DEF Spec

(* One prober that never saturates its intake: on every connection the hub *)
(* reads rising numbers, whatever of the spool was replayed and wherever a *)
(* peer ended, as the comment in connectOnce has it.                       *)
THEOREM NumbersRise == Spec => []RisingOnConnection
<1>1. CASE Alone
  <2>1. Spec => []RisingInv
    BY <1>1, RisingAlways
  <2>2. RisingInv => RisingOnConnection
    BY DEF RisingInv, RisingStreams, RisingOnConnection
  <2> QED
    BY <2>1, <2>2, PTL
<1>2. CASE ~ Alone
  <2>1. RisingOnConnection
    BY <1>2 DEF RisingOnConnection, Alone
  <2> QED
    BY <2>1, PTL
<1> QED
  BY <1>1, <1>2

-----------------------------------------------------------------------------
(* Where the metric of a reported gap is.  What is queued for the          *)
(* connection in service or on a connection has left the loop before what  *)
(* is still in it.                                                         *)
Out == Sent \cup MetricsIn(Queued)

AheadInv ==
  /\ \A m \in InLoop : m[1] = inc
  /\ \A x \in Out, m \in InLoop : x[1] = inc => x[2] < m[2]

LEMMA OutParts ==
  /\ \A m : m \in Out <=> m \in MetricsIn(Queued) \/ \E c \in Conns : m \in MetricsIn(wire[c])
  /\ \A m : m \in Out' <=> m \in MetricsIn(Queued') \/ \E c \in Conns : m \in MetricsIn(wire'[c])
  BY DEF Out, Sent, Elems, MetricsIn

LEMMA LoopParts ==
  /\ \A m : m \in InLoop <=> m \in held \/ m \in Elems(intake) \/ m \in Elems(batch)
  /\ \A m : m \in InLoop' <=> m \in held' \/ m \in Elems(intake') \/ m \in Elems(batch')
  BY DEF InLoop, Elems

LEMMA AheadShrinks ==
  ASSUME AheadInv, UNCHANGED inc, InLoop' \subseteq InLoop, Out' \subseteq Out
  PROVE  AheadInv'
<1>1. \A m : (m \in InLoop' => m \in InLoop) /\ (m \in Out' => m \in Out)
  OBVIOUS
<1> QED
  BY <1>1 DEF AheadInv

(* The steps of the loop that write to no connection.                      *)
LEMMA AheadLoop ==
  ASSUME TypeOK, AheadInv,
         \/ LoopTake \/ FlushBegin \/ FlushPush \/ SendFailed
         \/ \E m \in Metrics : Submit(m)
  PROVE  AheadInv'
<1>1. /\ UNCHANGED <<inc, runPc, conn, sendq, wire>>
      /\ intake \in Seq(Metrics) /\ batch \in Seq(Metrics)
  BY DEF LoopTake, FlushBegin, FlushPush, SendFailed, Submit, connVars, netVars, TypeOK, AgentTypes
<1>2. Queued' = Queued
  BY <1>1 DEF Queued
<1>3. Out' \subseteq Out
  BY <1>1, <1>2, OutParts
<1>4. CASE FlushBegin \/ SendFailed
  <2>1. UNCHANGED <<held, intake, batch>>
    BY <1>4 DEF FlushBegin, SendFailed
  <2>2. InLoop' \subseteq InLoop
    BY <2>1, LoopParts
  <2> QED
    BY <1>1, <1>3, <2>2, AheadShrinks
<1>5. CASE LoopTake
  <2> DEFINE h == Head(intake)
  <2>1. /\ intake # <<>> /\ batch' = Append(batch, h) /\ intake' = Tail(intake)
        /\ held' = held
    BY <1>5 DEF LoopTake
  <2>2. h \in Metrics /\ Elems(intake) = {h} \cup Elems(intake')
    BY <1>1, <2>1, TailSeq
  <2> HIDE DEF h
  <2>3. Elems(batch') = Elems(batch) \cup {h}
    BY <1>1, <2>1, <2>2, AppendSeq
  <2>4. InLoop' \subseteq InLoop
    BY <2>1, <2>2, <2>3, LoopParts
  <2> QED
    BY <1>1, <1>3, <2>4, AheadShrinks
<1>6. CASE FlushPush
  <2>1. batch # <<>> /\ batch' = Tail(batch) /\ UNCHANGED <<held, intake>>
    BY <1>6 DEF FlushPush, TypeOK, AgentTypes
  <2>2. Elems(batch') \subseteq Elems(batch)
    BY <1>1, <2>1, TailSeq
  <2>3. InLoop' \subseteq InLoop
    BY <2>1, <2>2, LoopParts
  <2> QED
    BY <1>1, <1>3, <2>3, AheadShrinks
<1>7. ASSUME NEW m \in Metrics, Submit(m) PROVE AheadInv'
  <2>1. m \in held /\ held' = held \ {m} /\ batch' = batch
    BY <1>7 DEF Submit
  <2>2. intake' = Append(intake, m) \/ intake' = intake
    BY <1>7 DEF Submit
  <2>3. Elems(intake') \subseteq Elems(intake) \cup {m}
    <3>1. Elems(Append(intake, m)) = Elems(intake) \cup {m}
      BY <1>1, AppendSeq
    <3> QED
      BY <2>2, <3>1
  <2>4. InLoop' \subseteq InLoop
    BY <2>1, <2>3, LoopParts
  <2> QED
    BY <1>1, <1>3, <2>4, AheadShrinks
<1> QED
  BY <1>4, <1>5, <1>6, <1>7

(* The steps of the connections and of the hub.                            *)
LEMMA AheadNet ==
  ASSUME TypeOK, AheadInv,
         \/ Connect \/ EndServe \/ WriteFrame \/ Shutdown \/ UNCHANGED vars
         \/ \E d \in Conns : Cut(d) \/ HubRegister(d) \/ HubTelemetry(d)
  PROVE  AheadInv'
<1>1. UNCHANGED <<inc, held, intake, batch>>
  BY DEF Connect, EndServe, WriteFrame, Shutdown, Cut, HubRegister, HubTelemetry, vars, agentVars
<1>2. InLoop' \subseteq InLoop
  BY <1>1, LoopParts
<1>3. sendq \in [Conns -> Seq(Frame)] /\ wire \in [Conns -> Seq(Frame)]
  BY DEF TypeOK, NetTypes
<1>4. CASE Shutdown \/ UNCHANGED vars
  <2>1. UNCHANGED <<runPc, conn, sendq, wire>>
    BY <1>4 DEF Shutdown, vars, connVars, netVars
  <2>2. Queued' = Queued
    BY <2>1 DEF Queued
  <2>3. Out' \subseteq Out
    BY <2>1, <2>2, OutParts
  <2> QED
    BY <1>1, <1>2, <2>3, AheadShrinks
<1>5. CASE Connect \/ EndServe
  <2>1. wire' = wire /\ Queued' = <<>>
    BY <1>5 DEF Connect, EndServe, Queued
  <2>2. Out' \subseteq Out
    BY <2>1, EmptyPlaces, OutParts
  <2> QED
    BY <1>1, <1>2, <2>2, AheadShrinks
<1>6. CASE WriteFrame
  <2>1. /\ runPc = "serving" /\ UNCHANGED <<runPc, conn>> /\ sendq[conn] # <<>> /\ conn \in Conns
        /\ wire' = [wire EXCEPT ![conn] = Append(@, Head(sendq[conn]))]
        /\ sendq' = [sendq EXCEPT ![conn] = Tail(@)]
    BY <1>6, Bounds DEF WriteFrame, connVars, TypeOK, ConnTypes, Conns
  <2> DEFINE f == Head(Queued)
  <2>2. Queued = sendq[conn] /\ Queued' = Tail(Queued) /\ Queued \in Seq(Frame) /\ Queued # <<>>
    BY <1>3, <2>1 DEF Queued
  <2>3. wire'[conn] = Append(wire[conn], f) /\ wire[conn] \in Seq(Frame)
    BY <1>3, <2>1, <2>2
  <2>4. \A c \in Conns : c # conn => wire'[c] = wire[c]
    BY <1>3, <2>1
  <2>5. f \in Frame /\ MetricsIn(Queued) = Elems(f.metrics) \cup MetricsIn(Queued')
    BY <2>2, TailFrame, TailSeq
  <2> HIDE DEF f
  <2>6. MetricsIn(wire'[conn]) = MetricsIn(wire[conn]) \cup Elems(f.metrics)
    BY <2>3, <2>5, AppendFrame
  <2>7. \A c \in Conns : MetricsIn(wire'[c]) \subseteq MetricsIn(wire[c]) \cup MetricsIn(Queued)
    BY <2>4, <2>5, <2>6
  <2>8. Out' \subseteq Out
    BY <2>5, <2>7, OutParts
  <2> QED
    BY <1>1, <1>2, <2>8, AheadShrinks
<1>7. ASSUME NEW d \in Conns, Cut(d) \/ HubRegister(d) \/ HubTelemetry(d) PROVE AheadInv'
  <2>1. UNCHANGED <<runPc, conn, sendq>>
    BY <1>7 DEF Cut, HubRegister, HubTelemetry, connVars
  <2>2. Queued' = Queued
    BY <2>1 DEF Queued
  <2>3. \A c \in Conns : MetricsIn(wire'[c]) \subseteq MetricsIn(wire[c])
    <3>1. CASE Cut(d)
      <4>1. PICK k \in 0 .. Len(wire[d]) : wire' = [wire EXCEPT ![d] = SubSeq(@, 1, k)]
        BY <3>1 DEF Cut
      <4>2. MetricsIn(wire'[d]) \subseteq MetricsIn(wire[d])
        BY <1>3, <4>1, PrefixFrame
      <4> QED
        BY <1>3, <4>1, <4>2
    <3>2. CASE HubRegister(d) \/ HubTelemetry(d)
      <4>1. wire[d] # <<>> /\ wire' = [wire EXCEPT ![d] = Tail(@)] /\ wire[d] \in Seq(Frame)
        BY <1>3, <3>2 DEF HubRegister, HubTelemetry
      <4>2. wire'[d] = Tail(wire[d]) /\ \A c \in Conns : c # d => wire'[c] = wire[c]
        BY <1>3, <4>1
      <4>3. MetricsIn(wire'[d]) \subseteq MetricsIn(wire[d])
        BY <4>1, <4>2, TailFrame
      <4> QED
        BY <4>2, <4>3
    <3> QED
      BY <1>7, <3>1, <3>2
  <2>4. Out' \subseteq Out
    BY <2>2, <2>3, OutParts
  <2> QED
    BY <1>1, <1>2, <2>4, AheadShrinks
<1> QED
  BY <1>4, <1>5, <1>6, <1>7

(* A number is given above all numbers of the run that are on the path.    *)
LEMMA AheadStamp ==
  ASSUME TypeOK, NeverTwice, AheadInv, Stamp
  PROVE  AheadInv'
<1> DEFINE e == <<inc, seq[inc] + 1>>
<1>1. /\ held' = held \cup {e} /\ UNCHANGED <<inc, intake, batch, runPc, conn, sendq, wire>>
      /\ inc \in 0 .. MaxRestarts /\ seq \in [0 .. MaxRestarts -> 0 .. MaxSeq]
  BY DEF Stamp, spoolVars, connVars, netVars, TypeOK, AgentTypes
<1>2. e[1] = inc /\ e[2] = seq[inc] + 1 /\ seq[inc] \in Nat
  BY <1>1, Bounds
<1>3. Queued' = Queued
  BY <1>1 DEF Queued
<1>4. \A m : m \in Out' <=> m \in Out
  BY <1>1, <1>3, OutParts
<1> HIDE DEF e
<1>5. \A m : m \in InLoop' => m \in InLoop \/ m = e
  BY <1>1, LoopParts
<1>6. \A x \in Out : x[2] \in Nat /\ (x[1] = inc => x[2] <= seq[inc])
  <2>1. \A x \in Out : x \in Present
    BY OutParts, PresentParts
  <2>2. \A x \in Out : x \in Stamped
    BY <2>1 DEF NeverTwice
  <2>3. \A x \in Metrics : x[2] \in Nat
    BY Bounds DEF Metrics
  <2> QED
    BY <2>2, <2>3 DEF Stamped
<1>7. \A x \in Out : x[1] = inc => x[2] < e[2]
  BY <1>2, <1>6
<1> QED
  BY <1>1, <1>2, <1>4, <1>5, <1>7 DEF AheadInv

(* A batch is sent before what came into the intake after it.              *)
LEMMA AheadSend ==
  ASSUME TypeOK, LineInv, AheadInv, SendQueued
  PROVE  AheadInv'
<1> DEFINE f == Telemetry(batch, FALSE)
<1>1. /\ batch \in Seq(Metrics) /\ batch' = <<>>
      /\ sendq \in [Conns -> Seq(Frame)] /\ flushPeer \in Conns
      /\ sendq' = [sendq EXCEPT ![flushPeer] = Append(@, f)]
      /\ UNCHANGED <<inc, held, intake, runPc, conn, wire>>
  BY SendQueuedTo DEF SendQueued, spoolVars, connVars
<1>2. f \in Frame /\ f.metrics = batch
  BY <1>1, BatchFrame
<1> HIDE DEF f
<1>3. runPc = "serving" => conn \in Conns
  BY Bounds DEF TypeOK, ConnTypes, Conns
<1>4. MetricsIn(Queued') \subseteq MetricsIn(Queued) \cup Elems(batch)
  <2>1. CASE runPc = "serving" /\ flushPeer = conn
    <3>1. Queued' = Append(Queued, f) /\ Queued \in Seq(Frame)
      BY <1>1, <2>1 DEF Queued
    <3> QED
      BY <1>2, <3>1, AppendFrame
  <2>2. CASE ~ (runPc = "serving" /\ flushPeer = conn)
    <3>1. Queued' = Queued
      BY <1>1, <1>3, <2>2 DEF Queued
    <3> QED
      BY <3>1
  <2> QED
    BY <2>1, <2>2
<1>5. \A m : m \in Out' => m \in Out \/ m \in Elems(batch)
  BY <1>1, <1>4, OutParts
<1>6. \A m : m \in InLoop' => m \in InLoop /\ (m \in Elems(intake) \/ m \in held)
  BY <1>1, EmptyPlaces, LoopParts
<1>7. \A x \in Elems(batch), m \in Elems(intake) \cup held : x[2] < m[2]
  BY DEF LineInv, Below
<1> QED
  BY <1>1, <1>5, <1>6, <1>7 DEF AheadInv

(* What was drained is replayed before what the loop holds.                *)
LEMMA AheadPublish ==
  ASSUME TypeOK, LineInv, AheadInv, Publish
  PROVE  AheadInv'
<1> DEFINE fs == <<Register>> \o Replay(drained)
<1>1. /\ UNCHANGED <<inc, held, intake, batch, wire>>
      /\ drained \in Seq(Metrics) /\ Len(drained) <= SpoolCap
  BY DEF Publish, agentVars, TypeOK, SpoolTypes
<1>2. Queued' = fs
  BY Bounds DEF Publish, Queued, TypeOK, NetTypes, ConnTypes, Conns
<1>3. MetricsIn(fs) \subseteq Elems(drained)
  BY <1>1, PublishedMetrics
<1> HIDE DEF fs
<1>4. \A m : m \in Out' => m \in Out \/ m \in Elems(drained)
  BY <1>1, <1>2, <1>3, OutParts
<1>5. \A m : m \in InLoop' => m \in InLoop
  BY <1>1, LoopParts
<1>6. \A x \in Elems(drained), m \in InLoop : x[2] < m[2]
  BY DEF LineInv, Older, Below, InLoop
<1> QED
  BY <1>1, <1>4, <1>5, <1>6 DEF AheadInv

LEMMA AheadStep ==
  Alone => (TypeOK /\ NeverTwice /\ RisingInv /\ AheadInv /\ [Next]_vars => AheadInv')
<1> SUFFICES ASSUME Alone, TypeOK, NeverTwice, RisingInv, AheadInv, [Next]_vars
             PROVE  AheadInv'
  OBVIOUS
<1>1. LineInv
  BY DEF RisingInv
<1>2. CASE Restart
  <2>1. held' = {} /\ intake' = <<>> /\ batch' = <<>>
    BY <1>2 DEF Restart
  <2>2. \A m : m \notin InLoop'
    BY <2>1, EmptyPlaces, LoopParts
  <2> QED
    BY <2>2 DEF AheadInv
<1> QED
  BY <1>1, <1>2, AheadStamp, AheadSend, AheadPublish, AheadLoop, AheadNet DEF Next

(* The numbers a frame reveals to be missing, when they rise on its        *)
(* connection: the metric x of the frame is ahead of the missing one m,    *)
(* which therefore comes no later on that connection and is not in the     *)
(* loop.                                                                   *)
Elsewhere(c, m) ==
  \/ m \in Lost'
  \/ m \in InSpool'
  \/ m \in MetricsIn(Queued') /\ ~ (c = conn /\ up[c])
  \/ \E d \in Conns \ {c} : m \in MetricsIn(wire'[d])

LEMMA ConcatFrames ==
  ASSUME NEW w \in Seq(Frame), NEW q \in Seq(Frame)
  PROVE  MetricsIn(w) \subseteq MetricsIn(w \o q) /\ MetricsIn(q) \subseteq MetricsIn(w \o q)
<1> DEFINE z == w \o q
<1>1. /\ z \in Seq(Frame) /\ Len(z) = Len(w) + Len(q) /\ Len(w) \in Nat /\ Len(q) \in Nat
      /\ \A i \in 1 .. Len(w) + Len(q) : z[i] = IF i <= Len(w) THEN w[i] ELSE q[i - Len(w)]
  BY ConcatProperties, LenProperties
<1>2. /\ DOMAIN z = 1 .. Len(w) + Len(q) /\ DOMAIN w = 1 .. Len(w) /\ DOMAIN q = 1 .. Len(q)
  BY <1>1, LenProperties
<1> HIDE DEF z
<1>3. \A i \in DOMAIN w : i \in DOMAIN z /\ z[i] = w[i]
  BY <1>1, <1>2
<1>4. ASSUME NEW i \in DOMAIN q PROVE Len(w) + i \in DOMAIN z /\ z[Len(w) + i] = q[i]
  <2>1. /\ i \in Nat /\ 1 <= i /\ i <= Len(q) /\ Len(w) + i \in 1 .. Len(w) + Len(q)
        /\ ~ (Len(w) + i <= Len(w)) /\ Len(w) + i - Len(w) = i
    BY <1>1, <1>2
  <2> QED
    BY <1>1, <1>2, <2>1
<1>5. MetricsIn(w) \subseteq MetricsIn(z)
  BY <1>3 DEF MetricsIn
<1>6. MetricsIn(q) \subseteq MetricsIn(z)
  BY <1>4 DEF MetricsIn
<1> QED
  BY <1>5, <1>6 DEF z

LEMMA NotBehind ==
  ASSUME TypeOK, TypeOK', RisingStreams, NEW c \in Conns, HubTelemetry(c),
         NEW x \in Elems(Head(wire[c]).metrics),
         NEW m, \/ m \in MetricsIn(wire'[c])
                \/ c = conn /\ up[c] /\ m \in MetricsIn(Queued')
  PROVE  x[2] < m[2]
<1> DEFINE s == Stream(c)
           t == Tail(s)
<1>1. /\ s \in Seq(Frame) /\ s # <<>> /\ Head(s) = Head(wire[c]) /\ Stream(c)' = t
  BY StreamTypes, HubStreams
<1>2. UNCHANGED <<conn, up>> /\ wire \in [Conns -> Seq(Frame)]
  BY DEF HubTelemetry, connVars, TypeOK, NetTypes
<1>3. wire'[c] \in Seq(Frame) /\ Queued' \in Seq(Frame)
  <2>1. (wire[c] \in Seq(Frame))' /\ (Queued \in Seq(Frame))'
    BY StreamTypes, PTL
  <2> QED
    BY <2>1
<1>4. t = wire'[c] \o (IF c = conn /\ up[c] THEN Queued' ELSE <<>>)
  BY <1>1, <1>2 DEF Stream
<1>5. PICK i \in DOMAIN t : m \in Elems(t[i].metrics)
  <2>1. CASE c = conn /\ up[c]
    <3>1. m \in MetricsIn(t)
      BY <1>3, <1>4, <2>1, ConcatFrames
    <3> QED
      BY <3>1 DEF MetricsIn
  <2>2. CASE ~ (c = conn /\ up[c])
    <3>1. t = wire'[c]
      BY <1>3, <1>4, <2>2, ConcatEmptySeq
    <3> QED
      BY <2>2, <3>1 DEF MetricsIn
  <2> QED
    BY <2>1, <2>2
<1>6. /\ 1 \in DOMAIN s /\ s[1] = Head(wire[c]) /\ i + 1 \in DOMAIN s /\ 1 < i + 1
      /\ t[i] = s[i + 1]
  <2>1. /\ t \in Seq(Frame) /\ Len(t) = Len(s) - 1 /\ Len(s) \in Nat \ {0}
        /\ \A k \in 1 .. Len(t) : t[k] = s[k + 1]
    BY <1>1, HeadTailProperties, EmptySeq
  <2>2. DOMAIN s = 1 .. Len(s) /\ DOMAIN t = 1 .. Len(s) - 1 /\ Head(s) = s[1]
    BY <1>1, <2>1, LenProperties
  <2> QED
    BY <1>1, <1>5, <2>1, <2>2
<1> HIDE DEF s, t
<1>7. Rising(s)
  BY DEF RisingStreams, s
<1>8. Below(Elems(s[1].metrics), Elems(s[i + 1].metrics))
  BY <1>6, <1>7 DEF Rising
<1> QED
  BY <1>5, <1>6, <1>8 DEF Below

(* With one prober that never saturates its intake, the metric of a number *)
(* that handleTelemetry reports as missing is lost, in the spool, or on    *)
(* another connection than the one whose frame revealed the gap: never     *)
(* still in the loop and never further back on the same connection.        *)
GapsAreElsewhere ==
  [][Alone => \A n \in reported' \ reported :
       \E c \in Conns : \E x \in MetricsIn(wire[c]) \cap (received' \ received) :
         n < x[2] /\ Elsewhere(c, <<x[1], n>>)]_vars

LEMMA GapStep ==
  ASSUME TypeOK, TypeOK', NeverTwice, Mark, RisingStreams, AheadInv, [Next]_vars,
         NEW n \in reported' \ reported
  PROVE  \E c \in Conns : \E x \in MetricsIn(wire[c]) \cap (received' \ received) :
           n < x[2] /\ Elsewhere(c, <<x[1], n>>)
<1>1. PICK c \in Conns : HubTelemetry(c) /\ named[c]
  BY DEF Next, Stamp, Submit, LoopTake, FlushBegin, FlushPush, SendQueued, SendFailed,
         Connect, Publish, WriteFrame, Shutdown, EndServe, Cut, HubRegister, HubTelemetry,
         Restart, hubVars, vars
<1> DEFINE f  == Head(wire[c])
           ms == Elems(f.metrics)
           ns == Seqs(ms)
<1>2. /\ wire[c] \in Seq(Frame) /\ wire[c] # <<>> /\ f \in Frame
      /\ UNCHANGED <<inc, seq, held, intake, batch>>
      /\ received' = received \cup ms
      /\ reported' = reported \cup Missed(lastSeq, ns, f.replay)
      /\ lastSeq' = NewMark(lastSeq, ns)
  <2>1. wire[c] \in Seq(Frame) /\ wire[c] # <<>>
    BY <1>1, StreamTypes DEF HubTelemetry
  <2> QED
    BY <1>1, <2>1, TailSeq DEF HubTelemetry, agentVars
<1>3. ns \in SUBSET (1 .. MaxSeq) /\ MaxSeq \in Nat /\ lastSeq \in 0 .. MaxSeq /\ f.replay \in BOOLEAN
  BY <1>2, FrameNumbers, FrameFields, Bounds DEF TypeOK, HubTypes
<1>4. n \in Missed(lastSeq, ns, f.replay)
  BY <1>2
<1>5. n \in 1 .. MaxSeq /\ lastSeq < n /\ n < NewMark(lastSeq, ns) /\ n \notin ns
  <2> DEFINE r == f.replay
  <2> HIDE DEF ns, r
  <2>1. r \in BOOLEAN /\ n \in Missed(lastSeq, ns, r)
    BY <1>3, <1>4 DEF r
  <2> QED
    BY <1>3, <2>1, MissedIsBetween
<1>6. NewMark(lastSeq, ns) \in ns \cup {lastSeq}
  <2> HIDE DEF ns
  <2> QED
    BY <1>3, MarkRises
<1>7. NewMark(lastSeq, ns) \in ns /\ NewMark(lastSeq, ns) \in Nat
  <2> DEFINE N == NewMark(lastSeq, ns)
  <2> HIDE DEF ns, N
  <2>1. lastSeq \in Nat /\ n \in Nat /\ \A y \in ns : y \in Nat
    BY <1>3, <1>5
  <2>2. lastSeq < n /\ n < N /\ N \in ns \cup {lastSeq}
    BY <1>5, <1>6 DEF N
  <2>3. N \in ns /\ N \in Nat
    BY <2>1, <2>2
  <2> QED
    BY <2>3 DEF N
<1>8. PICK x \in ms : x[2] = NewMark(lastSeq, ns)
  BY <1>7 DEF Seqs
<1>9. n < x[2] /\ lastSeq < x[2] /\ x[2] \in Nat
  BY <1>3, <1>5, <1>7, <1>8
<1>10. x \in MetricsIn(wire[c]) /\ x \in Metrics /\ ms \subseteq Metrics
  <2>1. MetricsIn(wire[c]) = ms \cup MetricsIn(Tail(wire[c]))
    BY <1>2, TailFrame
  <2>2. ms \subseteq Metrics
    BY <1>2, FrameNumbers
  <2> QED
    BY <2>1, <2>2
<1>11. x \in received' \ received
  <2>1. x \in received => x[2] \in Seqs(received)
    BY DEF Seqs
  <2>2. lastSeq \in Nat
    BY <1>3
  <2>3. x \notin received
    BY <1>9, <2>1, <2>2 DEF Mark
  <2> QED
    BY <1>2, <2>3
<1> DEFINE m == <<x[1], n>>
<1>12. m \in Metrics /\ m[1] = x[1] /\ m[2] = n
  BY <1>5, <1>10 DEF Metrics
<1>13. m \in Stamped'
  <2>1. x \in Stamped
    BY <1>10, PresentParts DEF NeverTwice
  <2>2. x[2] <= seq[x[1]] /\ x[1] \in 0 .. MaxRestarts
    BY <1>10, <2>1 DEF Stamped, Metrics
  <2>3. seq[x[1]] \in Nat
    <3>1. seq \in [0 .. MaxRestarts -> 0 .. MaxSeq]
      BY DEF TypeOK, AgentTypes
    <3>2. seq[x[1]] \in 0 .. MaxSeq
      BY <2>2, <3>1
    <3> QED
      BY <3>2, Bounds
  <2>4. n <= seq[x[1]]
    BY <1>5, <1>9, <2>2, <2>3
  <2>5. m \in Stamped
    BY <1>12, <2>4 DEF Stamped
  <2> QED
    BY <1>2, <2>5, StampedSame
<1>14. m \notin received'
  <2>1. n \notin Seqs(received)
    BY <1>3, <1>5 DEF Mark, Seqs
  <2> QED
    BY <1>2, <1>5, <1>12, <2>1 DEF Seqs
<1>15. m \notin InLoop'
  <2>1. m \in InLoop' => m \in InLoop
    BY <1>2, LoopParts
  <2>2. x \in Out
    BY <1>10, OutParts
  <2>3. n \in Nat
    BY <1>5
  <2> QED
    BY <1>9, <1>12, <2>1, <2>2, <2>3 DEF AheadInv
<1>16. /\ m \notin MetricsIn(wire'[c])
       /\ ~ (c = conn /\ up[c] /\ m \in MetricsIn(Queued'))
  <2>1. n \in Nat
    BY <1>5
  <2> QED
    BY <1>1, <1>8, <1>9, <1>12, <2>1, NotBehind
<1> HIDE DEF m
<1>17. Elsewhere(c, m)
  BY <1>13, <1>14, <1>15, <1>16, PresentPartsNext, LoopParts DEF Elsewhere, Lost, InSpool, Elems
<1> QED
  BY <1>9, <1>10, <1>11, <1>17 DEF m

THEOREM GapsNameTheirCause == Spec => GapsAreElsewhere
<1>1. CASE Alone
  <2>1. Init => AheadInv
    <3>1. Init => held = {} /\ intake = <<>> /\ batch = <<>>
      BY DEF Init
    <3> QED
      BY <3>1, EmptyPlaces DEF InLoop, AheadInv
  <2>2. TypeOK /\ NeverTwice /\ RisingInv /\ AheadInv /\ [Next]_vars => AheadInv'
    BY <1>1, AheadStep
  <2>3. TypeOK /\ TypeOK' /\ NeverTwice /\ Mark /\ RisingInv /\ AheadInv /\ [Next]_vars =>
          [Alone => \A n \in reported' \ reported :
             \E c \in Conns : \E x \in MetricsIn(wire[c]) \cap (received' \ received) :
               n < x[2] /\ Elsewhere(c, <<x[1], n>>)]_vars
    BY GapStep DEF RisingInv
  <2>4. Spec => []RisingInv
    BY <1>1, RisingAlways
  <2> QED
    BY <2>1, <2>2, <2>3, <2>4, TypesInvariant, MetricsMove, MarkInvariant, PTL
    DEF Spec, GapsAreElsewhere
<1>2. CASE ~ Alone
  <2>1. [Next]_vars =>
          [Alone => \A n \in reported' \ reported :
             \E c \in Conns : \E x \in MetricsIn(wire[c]) \cap (received' \ received) :
               n < x[2] /\ Elsewhere(c, <<x[1], n>>)]_vars
    BY <1>2
  <2> QED
    BY <2>1, PTL DEF Spec, GapsAreElsewhere
<1> QED
  BY <1>1, <1>2

=============================================================================
