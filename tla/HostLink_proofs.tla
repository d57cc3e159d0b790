---- MODULE HostLink_proofs ----
(***************************************************************************)
(* The host's end of the link.  FrameParser: for every checksum, sender    *)
(* and size of the buffer, the parser stays within its buffer, loses only  *)
(* what was interrupted and delivers what was sent.  CommWorker: for any   *)
(* number of requests, connections, losses and failed attempts, the worker *)
(* and the window agree with the socket.  The two components share no      *)
(* variable; each has its own invariants.                                  *)
(***************************************************************************)
EXTENDS FrameParser, CommWorker, SequenceTheorems, WellFoundedInduction, TLAPS

-----------------------------------------------------------------------------
(* FrameParser: the bytes of a frame and their checksum *)

\* Induction in a form without an operator parameter: a set of numbers has a
\* least one.
LEMMA SmallestExists ==
    ASSUME NEW T, T \subseteq Nat, T # {}
    PROVE  \E m \in T : \A k \in T : m <= k
<1> DEFINE R == {ss \in Nat \X Nat : ss[1] < ss[2]}
<1>1. R = OpToRel(<, Nat)
  BY Zenon DEF OpToRel
<1>2. IsWellFoundedOn(R, Nat)
  BY <1>1, NatLessThanWellFounded, Zenon
<1>3. PICK m \in T : \A k \in T : <<k, m>> \notin R
  <2> HIDE DEF R
  <2> QED BY <1>2, WFMin
<1>4. ASSUME NEW k \in T PROVE m <= k
  <2>1. k < m => <<k, m>> \in R
    OBVIOUS
  <2> HIDE DEF R
  <2>2. ~(k < m)
    BY <1>3, <2>1
  <2> QED BY <2>2
<1>5. QED BY <1>4

\* crc16_block is the loop it looks like: the definition of the running
\* checksum determines it.
LEMMA RunningIs ==
    ASSUME NEW bytes, Len(bytes) \in Nat
    PROVE  \A k \in 0 .. Len(bytes) :
              Running(bytes)[k] = IF k = 0 THEN crc16_init
                                  ELSE crc16_update(Running(bytes)[k - 1], bytes[k])
<1> DEFINE n == Len(bytes)
           NextSum(f, k) == IF k = 0 THEN crc16_init ELSE crc16_update(f[k - 1], bytes[k])
           Sums(f, m) == f = [k \in 0 .. m |-> NextSum(f, k)]
           Bad == {m \in 0 .. n : ~ \E f : Sums(f, m)}
<1>1. Bad = {}
  <2> SUFFICES ASSUME Bad # {} PROVE FALSE
    OBVIOUS
  <2>1. PICK m \in Bad : \A k \in Bad : m <= k
    <3>1. Bad \subseteq Nat
      OBVIOUS
    <3> HIDE DEF Bad
    <3>2. QED BY <3>1, SmallestExists
  <2>2. m \in 0 .. n /\ ~ \E f : Sums(f, m)
    BY <2>1
  <2>3. CASE m = 0
    <3> DEFINE f == [k \in 0 .. 0 |-> crc16_init]
    <3>1. Sums(f, 0)
      OBVIOUS
    <3>2. QED BY <2>2, <2>3, <3>1
  <2>4. CASE m # 0
    <3>1. m - 1 \in 0 .. n /\ m - 1 \notin Bad
      <4> HIDE DEF Bad
      <4>1. QED BY <2>1, <2>2, <2>4
    <3>2. PICK f : Sums(f, m - 1)
      BY <3>1
    <3> DEFINE g == [k \in 0 .. m |-> NextSum(f, k)]
    <3>3. \A k \in 0 .. m - 1 : g[k] = f[k]
      BY <2>2, <3>2
    <3>4. ASSUME NEW k \in 0 .. m PROVE NextSum(f, k) = NextSum(g, k)
      <4> HIDE DEF g
      <4>1. k # 0 => f[k - 1] = g[k - 1]
        BY <2>2, <3>3
      <4>2. QED BY <4>1
    <3>5. Sums(g, m)
      BY <3>4
    <3>6. QED BY <2>2, <3>5
  <2>5. QED BY <2>3, <2>4
<1>2. \E f : Sums(f, n)
  BY <1>1
<1>3. Running(bytes) = CHOOSE f : Sums(f, n)
  BY DEF Running
<1>4. Sums(Running(bytes), n)
  BY <1>2, <1>3
<1> DEFINE c == Running(bytes)
<1>5. c = [k \in 0 .. n |-> NextSum(c, k)]
  BY <1>4
<1> HIDE DEF c
<1>6. \A k \in 0 .. n : c[k] = NextSum(c, k)
  BY <1>5
<1>7. QED BY <1>6 DEF c

Frames == [cmd : Byte, payload : Seq(Byte)]

\* Bytes and words as the provers of arithmetic like them; expanding Word16 by
\* itself would have the others count to 65536.
LEMMA Bytes == \A x : x \in Byte <=> x \in 0 .. 255
BY DEF Byte

LEMMA Words == \A x : x \in Word16 <=> x \in Nat /\ x < 65536
BY SMT DEF Word16

\* A length or a checksum is what its two bytes say.
LEMMA HiLo ==
    ASSUME NEW n \in Word16
    PROVE  Hi(n) \in Byte /\ Lo(n) \in Byte /\ 256 * Hi(n) + Lo(n) = n
<1> DEFINE q == n \div 256
           r == n % 256
<1>0. n \in Nat /\ n < 65536
  BY Words, SMT
<1>1. 256 * q + r = n
  BY <1>0, SMT
<1>2. r \in 0 .. 255
  BY <1>0, SMT
<1>3. q \in Int
  BY <1>0, SMT
<1> HIDE DEF q, r
<1>4. q \in 0 .. 255
  BY <1>0, <1>1, <1>2, <1>3, SMT
<1>5. QED BY <1>1, <1>2, <1>4, Bytes DEF Hi, Lo, q, r

\* The marks of a frame are bytes, the two of a header different ones.
LEMMA Marks == HEAD1 \in Byte /\ HEAD2 \in Byte /\ TAIL \in Byte /\ HEAD1 # HEAD2
BY DEF HEAD1, HEAD2, TAIL, Byte

\* One sequence of bytes behind another.
LEMMA Joined ==
    ASSUME NEW s \in Seq(Byte), NEW t \in Seq(Byte)
    PROVE  \E u \in Seq(Byte) :
              /\ u = s \o t /\ Len(u) = Len(s) + Len(t)
              /\ \A i \in 1 .. Len(s) : u[i] = s[i]
              /\ \A i \in 1 .. Len(t) : u[Len(s) + i] = t[i]
<1>1. PICK u : u = s \o t
  OBVIOUS
<1>2. u \in Seq(Byte)
  BY <1>1, ConcatProperties, Zenon
<1>3. Len(u) = Len(s) + Len(t)
  BY <1>1, ConcatProperties, Zenon
<1>4. \A i \in 1 .. Len(s) + Len(t) : u[i] = IF i <= Len(s) THEN s[i] ELSE t[i - Len(s)]
  BY <1>1, ConcatProperties, Zenon
<1>5. \A i \in 1 .. Len(s) : u[i] = s[i]
  BY <1>4
<1>6. ASSUME NEW i \in 1 .. Len(t) PROVE u[Len(s) + i] = t[i]
  <2>1. Len(s) + i \in 1 .. Len(s) + Len(t) /\ ~(Len(s) + i <= Len(s)) /\ (Len(s) + i) - Len(s) = i
    OBVIOUS
  <2>2. QED BY <1>4, <2>1
<1>7. QED BY <1>1, <1>2, <1>3, <1>5, <1>6, Zenon

\* The bytes that the checksum covers.
LEMMA BodyBytes ==
    ASSUME NEW c \in Byte, NEW p \in Seq(Byte), Len(p) \in Word16
    PROVE  \E b \in Seq(Byte) :
              /\ b = <<HEAD2, c, Hi(Len(p)), Lo(Len(p))>> \o p
              /\ Len(b) = Len(p) + 4
              /\ b[1] = HEAD2 /\ b[2] = c /\ b[3] = Hi(Len(p)) /\ b[4] = Lo(Len(p))
              /\ \A j \in 1 .. Len(p) : b[j + 4] = p[j]
<1> DEFINE n == Len(p)
           h == <<HEAD2, c, Hi(n), Lo(n)>>
<1>1. n \in Word16
  OBVIOUS
<1>2. Hi(n) \in Byte /\ Lo(n) \in Byte /\ HEAD2 \in Byte
  <2> HIDE DEF n
  <2> QED BY <1>1, HiLo, Marks
<1>3. h \in Seq(Byte) /\ Len(h) = 4
      /\ h[1] = HEAD2 /\ h[2] = c /\ h[3] = Hi(n) /\ h[4] = Lo(n)
  <2> HIDE DEF n
  <2> QED BY <1>2
<1> HIDE DEF h
<1>4. PICK b \in Seq(Byte) :
        /\ b = h \o p /\ Len(b) = Len(h) + n
        /\ \A i \in 1 .. Len(h) : b[i] = h[i]
        /\ \A j \in 1 .. n : b[Len(h) + j] = p[j]
  BY <1>3, Joined
<1>5. b \in Seq(Byte) /\ Len(b) = Len(h) + n
      /\ (\A i \in 1 .. Len(h) : b[i] = h[i]) /\ \A j \in 1 .. n : b[Len(h) + j] = p[j]
  BY <1>4, Zenon
<1> HIDE DEF n
<1>6. Len(b) = n + 4 /\ b[1] = h[1] /\ b[2] = h[2] /\ b[3] = h[3] /\ b[4] = h[4]
  BY <1>1, <1>3, <1>5, Words
<1>7. ASSUME NEW j \in 1 .. n PROVE b[j + 4] = p[j]
  <2>1. n \in Nat
    BY <1>1, Words
  <2>2. 4 + j = j + 4
    BY <2>1
  <2>3. b[4 + j] = p[j]
    BY <1>3, <1>5
  <2>4. QED BY <2>2, <2>3
<1>8. b = <<HEAD2, c, Hi(n), Lo(n)>> \o p
  BY <1>4, Zenon DEF h
<1>9. WITNESS b \in Seq(Byte)
<1>10. QED BY <1>3, <1>6, <1>7, <1>8, Zenon DEF n

\* Their places in the frame, between HEAD1 and the checksum.
LEMMA FrameBytes ==
    ASSUME NEW b \in Seq(Byte), NEW crc \in Word16
    PROVE  \E s \in Seq(Byte) :
              /\ s = <<HEAD1>> \o b \o <<Hi(crc), Lo(crc), TAIL>>
              /\ Len(s) = Len(b) + 4 /\ s[1] = HEAD1
              /\ \A j \in 1 .. Len(b) : s[j + 1] = b[j]
              /\ s[Len(b) + 2] = Hi(crc) /\ s[Len(b) + 3] = Lo(crc) /\ s[Len(b) + 4] = TAIL
<1> DEFINE m == Len(b)
           h == <<HEAD1>>
           t == <<Hi(crc), Lo(crc), TAIL>>
<1>1. m \in Nat
  OBVIOUS
<1>2. h \in Seq(Byte) /\ Len(h) = 1 /\ h[1] = HEAD1
  BY Marks
<1>3. t \in Seq(Byte) /\ Len(t) = 3 /\ t[1] = Hi(crc) /\ t[2] = Lo(crc) /\ t[3] = TAIL
  BY Marks, HiLo
<1> HIDE DEF h, t
<1>4. PICK u \in Seq(Byte) :
        /\ u = h \o b /\ Len(u) = Len(h) + m
        /\ \A i \in 1 .. Len(h) : u[i] = h[i]
        /\ \A j \in 1 .. m : u[Len(h) + j] = b[j]
  BY <1>2, Joined
<1>5. u \in Seq(Byte) /\ Len(u) = Len(h) + m
      /\ (\A i \in 1 .. Len(h) : u[i] = h[i]) /\ \A j \in 1 .. m : u[Len(h) + j] = b[j]
  BY <1>4, Zenon
<1>6. PICK s \in Seq(Byte) :
        /\ s = u \o t /\ Len(s) = Len(u) + Len(t)
        /\ \A i \in 1 .. Len(u) : s[i] = u[i]
        /\ \A j \in 1 .. Len(t) : s[Len(u) + j] = t[j]
  BY <1>3, Joined
<1>7. s \in Seq(Byte) /\ Len(s) = Len(u) + Len(t)
      /\ (\A i \in 1 .. Len(u) : s[i] = u[i]) /\ \A j \in 1 .. Len(t) : s[Len(u) + j] = t[j]
  BY <1>6, Zenon
<1> HIDE DEF m
<1>8. Len(u) = m + 1 /\ u[1] = HEAD1 /\ \A j \in 1 .. m : u[1 + j] = b[j]
  BY <1>1, <1>2, <1>5
<1>9. Len(s) = m + 4 /\ s[1] = HEAD1
  BY <1>1, <1>3, <1>7, <1>8
<1>10. ASSUME NEW j \in 1 .. m PROVE s[j + 1] = b[j]
  <2>1. 1 + j \in 1 .. Len(u) /\ 1 + j = j + 1
    BY <1>1, <1>8
  <2>2. s[1 + j] = u[1 + j] /\ u[1 + j] = b[j]
    BY <1>7, <1>8, <2>1
  <2>3. QED BY <2>1, <2>2
<1>11. s[m + 2] = t[1] /\ s[m + 3] = t[2] /\ s[m + 4] = t[3]
  <2>1. /\ 1 \in 1 .. Len(t) /\ 2 \in 1 .. Len(t) /\ 3 \in 1 .. Len(t)
        /\ Len(u) + 1 = m + 2 /\ Len(u) + 2 = m + 3 /\ Len(u) + 3 = m + 4
    BY <1>1, <1>3, <1>8
  <2>2. s[Len(u) + 1] = t[1] /\ s[Len(u) + 2] = t[2] /\ s[Len(u) + 3] = t[3]
    BY <1>7, <2>1
  <2>3. QED BY <2>1, <2>2
<1>12. s = <<HEAD1>> \o b \o <<Hi(crc), Lo(crc), TAIL>>
  BY <1>4, <1>6, Zenon DEF h, t
<1>13. WITNESS s \in Seq(Byte)
<1>14. QED BY <1>3, <1>9, <1>10, <1>11, <1>12, Zenon DEF m

-----------------------------------------------------------------------------
\* What the assumptions say of one frame of a program.
LEMMA FrameFacts ==
    ASSUME NEW p \in Programs, NEW i \in 1 .. Len(p)
    PROVE  /\ p[i] = [cmd |-> p[i].cmd, payload |-> p[i].payload]
           /\ p[i].cmd \in Byte /\ p[i].payload \in Seq(Byte) /\ Len(p[i].payload) \in Word16
           /\ Len(p[i].payload) <= MAX_PAYLOAD
           /\ Len(p) \in Nat \ {0} /\ Sent[p][i] = Serialize(p[i]) /\ Checksum(p[i]) \in Word16
<1>1. p \in Seq([cmd : Byte, payload : Seq(Byte)]) /\ p # <<>>
      /\ \A k \in DOMAIN p : Len(p[k].payload) <= MAX_PAYLOAD
  BY ProgramAssumption
<1>2. p[i] \in [cmd : Byte, payload : Seq(Byte)] /\ DOMAIN p = 1 .. Len(p) /\ Len(p) \in Nat \ {0}
  <2> DEFINE S == [cmd : Byte, payload : Seq(Byte)]
  <2>1. p \in Seq(S) /\ p # <<>>
    BY <1>1
  <2> HIDE DEF S
  <2>2. p[i] \in S /\ DOMAIN p = 1 .. Len(p)
    BY <2>1
  <2>3. Len(p) \in Nat \ {0}
    BY <2>1
  <2>4. QED BY <2>2, <2>3 DEF S
<1>3. p[i].cmd \in Byte /\ p[i].payload \in Seq(Byte)
      /\ p[i] = [cmd |-> p[i].cmd, payload |-> p[i].payload]
  BY <1>2
<1>4. Len(p[i].payload) <= MAX_PAYLOAD
  BY <1>1, <1>2
<1>5. Len(p[i].payload) \in Word16
  <2>1. Len(p[i].payload) \in Nat
    BY <1>3
  <2>2. MAX_PAYLOAD \in Nat /\ MAX_PAYLOAD < 65536
    BY BoundAssumption, Words, SMT
  <2>3. QED BY <1>4, <2>1, <2>2, Words, SMT
<1>6. Checksum(p[i]) \in Word16
  BY <1>2, ChecksumAssumption
<1>7. Sent[p][i] = Serialize(p[i])
  BY <1>2 DEF Sent
<1>8. QED BY <1>2, <1>3, <1>4, <1>5, <1>6, <1>7

\* What the bytes s of a frame f are, with the running checksums sum.
Layout(f, s, sum) ==
    LET n == Len(f.payload) IN
    /\ s \in Seq(Byte) /\ Len(s) = n + 8
    /\ s[1] = HEAD1 /\ s[2] = HEAD2 /\ s[3] = f.cmd /\ s[4] = Hi(n) /\ s[5] = Lo(n)
    /\ \A j \in 1 .. n : s[j + 5] = f.payload[j]
    /\ s[n + 6] = Hi(sum[n + 4]) /\ s[n + 7] = Lo(sum[n + 4]) /\ s[n + 8] = TAIL
    /\ sum[1] = crc16_update(crc16_init, HEAD2) /\ sum[n + 4] \in Word16
    /\ \A k \in 2 .. n + 4 : sum[k] = crc16_update(sum[k - 1], s[k + 1])

\* Every frame of the stream is laid out so.
LEMMA SentBytes ==
    ASSUME NEW p \in Programs, NEW i \in 1 .. Len(p)
    PROVE  Layout(p[i], Sent[p][i], Running(Body(p[i])))
<1> DEFINE f == p[i]
           n == Len(f.payload)
           r == Running(Body(f))
<1>1. /\ f.cmd \in Byte /\ f.payload \in Seq(Byte) /\ n \in Word16
      /\ Sent[p][i] = Serialize(f) /\ Checksum(f) \in Word16
  BY FrameFacts
<1>2. n \in Nat
  BY <1>1, Words
<1>3. PICK b \in Seq(Byte) :
        /\ b = <<HEAD2, f.cmd, Hi(n), Lo(n)>> \o f.payload
        /\ Len(b) = n + 4
        /\ b[1] = HEAD2 /\ b[2] = f.cmd /\ b[3] = Hi(n) /\ b[4] = Lo(n)
        /\ \A j \in 1 .. n : b[j + 4] = f.payload[j]
  BY <1>1, BodyBytes
<1>4. Body(f) = b
  BY <1>3 DEF Body
<1>5. PICK s \in Seq(Byte) :
        /\ s = <<HEAD1>> \o b \o <<Hi(Checksum(f)), Lo(Checksum(f)), TAIL>>
        /\ Len(s) = Len(b) + 4 /\ s[1] = HEAD1
        /\ \A j \in 1 .. Len(b) : s[j + 1] = b[j]
        /\ s[Len(b) + 2] = Hi(Checksum(f)) /\ s[Len(b) + 3] = Lo(Checksum(f)) /\ s[Len(b) + 4] = TAIL
  BY <1>1, FrameBytes
<1>6. Sent[p][i] = s
  BY <1>1, <1>4, <1>5, Zenon DEF Serialize
<1>7. \A k \in 0 .. n + 4 : r[k] = IF k = 0 THEN crc16_init ELSE crc16_update(r[k - 1], b[k])
  <2>1. Len(b) \in Nat
    BY <1>2, <1>3
  <2>2. r = Running(b)
    BY <1>4
  <2> HIDE DEF r, n
  <2>3. QED BY <1>3, <2>1, <2>2, RunningIs
<1>8. Checksum(f) = r[n + 4]
  BY <1>3, <1>4 DEF Checksum
<1> HIDE DEF r, n, f
<1>9. r[1] = crc16_update(crc16_init, HEAD2)
  BY <1>2, <1>3, <1>7
<1>10. \A j \in 1 .. n + 4 : s[j + 1] = b[j]
  BY <1>3, <1>5
<1>11. ASSUME NEW k \in 2 .. n + 4 PROVE r[k] = crc16_update(r[k - 1], s[k + 1])
  BY <1>2, <1>7, <1>10, SMTT(60)
<1>12. Len(s) = n + 8 /\ s[1] = HEAD1
       /\ s[n + 6] = Hi(Checksum(f)) /\ s[n + 7] = Lo(Checksum(f)) /\ s[n + 8] = TAIL
  <2>1. Len(b) + 4 = n + 8 /\ Len(b) + 2 = n + 6 /\ Len(b) + 3 = n + 7
    BY <1>2, <1>3
  <2>2. QED BY <1>5, <2>1
<1>13. s[2] = HEAD2 /\ s[3] = f.cmd /\ s[4] = Hi(n) /\ s[5] = Lo(n)
  <2>1. 1 \in 1 .. n + 4 /\ 2 \in 1 .. n + 4 /\ 3 \in 1 .. n + 4 /\ 4 \in 1 .. n + 4
    BY <1>2
  <2>2. s[1 + 1] = b[1] /\ s[2 + 1] = b[2] /\ s[3 + 1] = b[3] /\ s[4 + 1] = b[4]
    BY <1>10, <2>1, Zenon
  <2>3. QED BY <1>3, <2>2
<1>14. ASSUME NEW j \in 1 .. n PROVE s[j + 5] = f.payload[j]
  <2>1. j + 4 \in 1 .. n + 4 /\ (j + 4) + 1 = j + 5
    BY <1>2
  <2>2. s[(j + 4) + 1] = b[j + 4]
    BY <1>10, <2>1
  <2>3. QED BY <1>3, <2>1, <2>2
<1>15. s \in Seq(Byte)
  BY <1>5
<1>16. r[n + 4] \in Word16 /\ s[n + 6] = Hi(r[n + 4]) /\ s[n + 7] = Lo(r[n + 4])
  BY <1>1, <1>8, <1>12
<1>17. Layout(f, s, r)
  BY <1>9, <1>11, <1>12, <1>13, <1>14, <1>15, <1>16, Zenon DEF Layout, n
<1>18. QED
  BY <1>6, <1>17 DEF f, r

-----------------------------------------------------------------------------
(* FrameParser: one byte after the other *)

\* The bytes of the frame's payload that the buffer holds.
Copied(p) == payload_idx <= Len(payload) /\ \A j \in 1 .. payload_idx : payload[j] = p[j]

\* All of the frame but its checksum and tail has been read.
Read(f, crc) ==
    /\ cmd = f.cmd /\ len = Len(f.payload) /\ payload_idx = len /\ Copied(f.payload)
    /\ crc_local = crc

\* The parser is where the sender is.
InStep(f, sum) ==
    LET n == Len(f.payload) IN
    \/ state = "SYNC1" /\ offset = 1
    \/ state = "SYNC2" /\ offset = 2
    \/ state = "CMD" /\ offset = 3 /\ crc_local = sum[1]
    \/ state = "LEN_H" /\ offset = 4 /\ crc_local = sum[2] /\ cmd = f.cmd
    \/ state = "LEN_L" /\ offset = 5 /\ crc_local = sum[3] /\ cmd = f.cmd /\ len = 256 * Hi(n)
    \/ /\ state = "PAYLOAD" /\ offset = payload_idx + 6 /\ crc_local = sum[payload_idx + 4]
       /\ cmd = f.cmd /\ len = n /\ payload_idx < n /\ Copied(f.payload)
    \/ state = "CRC_H" /\ offset = n + 6 /\ Read(f, sum[n + 4])
    \/ /\ state = "CRC_L" /\ offset = n + 7 /\ Read(f, sum[n + 4])
       /\ crc_received = 256 * Hi(sum[n + 4])
    \/ /\ state = "TAIL" /\ offset = n + 8 /\ Read(f, sum[n + 4])
       /\ crc_received = sum[n + 4]

\* Or it looks for a header in the middle of a frame.
OutOfStep ==
    /\ offset > 1
    /\ \/ state = "SYNC1"
       \/ state = "SYNC2" /\ offset > 2 /\ Sent[program][cur][offset - 1] = HEAD1

\* A byte more in the buffer.
LEMMA Extended ==
    ASSUME NEW b \in Seq(Byte), NEW k \in Nat, k <= Len(b), NEW x \in Byte, NEW p,
           \A j \in 1 .. k : b[j] = p[j], x = p[k + 1]
    PROVE  LET t == Append(SubSeq(b, 1, k), x) IN
           k + 1 <= Len(t) /\ \A j \in 1 .. k + 1 : t[j] = p[j]
<1> DEFINE u == SubSeq(b, 1, k)
<1>1. u \in Seq(Byte) /\ Len(u) = k /\ \A j \in 1 .. k : u[j] = b[j]
  OBVIOUS
<1> HIDE DEF u
<1> DEFINE t == Append(u, x)
<1>2. Len(t) = k + 1 /\ (\A j \in 1 .. k : t[j] = u[j]) /\ t[k + 1] = x
  BY <1>1
<1> HIDE DEF t
<1>3. k + 1 <= Len(t) /\ \A j \in 1 .. k + 1 : t[j] = p[j]
  BY <1>1, <1>2
<1>4. QED BY <1>3 DEF t, u

\* One step per state: the parser reads what is there.
LEMMA StepInFrame ==
    ASSUME NEW f, NEW s, NEW sum, NEW n, n = Len(f.payload), n \in Nat, n <= MAX_PAYLOAD, 256 * Hi(n) + Lo(n) = n,
           256 * Hi(sum[n + 4]) + Lo(sum[n + 4]) = sum[n + 4],
           Layout(f, s, sum), InStep(f, sum), ParseByte, byte = s[offset],
           payload \in Seq(Byte), byte \in Byte, payload_idx \in Nat,
           offset # n + 8, offset' = offset + 1
    PROVE  InStep(f, sum)' /\ state # "TAIL"
<1> USE DEF ParseByte, Sync1, Sync2, Cmd, LenH, LenL, Payload, CrcH, CrcL, FrameEnd, Covered
<1>0. n \in Nat /\ MAX_PAYLOAD \in Nat /\ HEAD1 # HEAD2
  BY BoundAssumption, Words, Marks
<1>1. CASE state = "SYNC1"
  <2>1. offset = 1 /\ byte = HEAD1
    BY <1>0, <1>1 DEF InStep, Layout
  <2>2. state' = "SYNC2" /\ offset' = 2
    BY <1>1, <2>1
  <2>3. QED BY <1>1, <2>2 DEF InStep
<1>2. CASE state = "SYNC2"
  <2>1. offset = 2 /\ byte = HEAD2
    BY <1>0, <1>2 DEF InStep, Layout
  <2>2. state' = "CMD" /\ offset' = 3 /\ crc_local' = crc16_update(crc16_init, byte)
    BY <1>2, <2>1
  <2>3. crc_local' = sum[1]
    BY <2>1, <2>2 DEF Layout
  <2>4. QED BY <1>2, <2>2, <2>3 DEF InStep
<1>3. CASE state = "CMD"
  <2>1. offset = 3 /\ crc_local = sum[1] /\ byte = s[3] /\ s[3] = f.cmd
    BY <1>0, <1>3 DEF InStep, Layout
  <2>2. state' = "LEN_H" /\ offset' = 4 /\ cmd' = byte /\ crc_local' = crc16_update(crc_local, byte)
    BY <1>3, <2>1
  <2>3. crc_local' = sum[2]
    BY <1>0, <2>1, <2>2, SMTT(60) DEF Layout
  <2>4. QED BY <1>3, <2>1, <2>2, <2>3 DEF InStep
<1>4. CASE state = "LEN_H"
  <2>1. offset = 4 /\ crc_local = sum[2] /\ cmd = f.cmd /\ byte = s[4] /\ s[4] = Hi(n)
    BY <1>0, <1>4 DEF InStep, Layout
  <2>2. state' = "LEN_L" /\ offset' = 5 /\ cmd' = cmd /\ len' = 256 * byte
        /\ crc_local' = crc16_update(crc_local, byte)
    BY <1>4, <2>1
  <2>3. crc_local' = sum[3]
    BY <1>0, <2>1, <2>2 DEF Layout
  <2>4. QED BY <1>4, <2>1, <2>2, <2>3 DEF InStep
<1>5. CASE state = "LEN_L"
  <2>1. /\ offset = 5 /\ crc_local = sum[3] /\ cmd = f.cmd /\ len = 256 * Hi(n)
        /\ byte = s[5] /\ s[5] = Lo(n)
    BY <1>0, <1>5 DEF InStep, Layout
  <2>2. len' = n /\ cmd' = cmd /\ offset' = 6 /\ crc_local' = crc16_update(crc_local, byte)
        /\ payload' = payload
    BY <1>5, <2>1
  <2>3. ~(len' > MAX_PAYLOAD)
    BY <1>0, <2>2
  <2>4. payload_idx' = 0 /\ state' = IF len' = 0 THEN "CRC_H" ELSE "PAYLOAD"
    BY <1>5, <2>3
  <2>5. crc_local' = sum[4]
    BY <1>0, <2>1, <2>2 DEF Layout
  <2>6. Copied(f.payload)'
    BY <2>2, <2>4 DEF Copied
  <2>7. CASE n = 0
    <3>1. state' = "CRC_H" /\ offset' = n + 6 /\ crc_local' = sum[n + 4]
      BY <2>2, <2>4, <2>5, <2>7
    <3>2. Read(f, sum[n + 4])'
      BY <2>1, <2>2, <2>4, <2>6, <2>7, <3>1 DEF Read
    <3>3. QED BY <1>5, <3>1, <3>2 DEF InStep
  <2>8. CASE n # 0
    <3>1. state' = "PAYLOAD" /\ payload_idx' < n /\ offset' = payload_idx' + 6
          /\ crc_local' = sum[payload_idx' + 4]
      BY <1>0, <2>2, <2>4, <2>5, <2>8
    <3>2. QED BY <1>5, <2>1, <2>2, <2>6, <3>1 DEF InStep
  <2>9. QED BY <2>7, <2>8
<1>6. CASE state = "PAYLOAD"
  <2>1. /\ offset = payload_idx + 6 /\ crc_local = sum[payload_idx + 4] /\ cmd = f.cmd
        /\ len = n /\ payload_idx < n /\ Copied(f.payload)
    BY <1>0, <1>6 DEF InStep
  <2>2. /\ payload' = Append(SubSeq(payload, 1, payload_idx), byte)
        /\ payload_idx' = payload_idx + 1 /\ crc_local' = crc16_update(crc_local, byte)
        /\ state' = IF payload_idx' >= len THEN "CRC_H" ELSE "PAYLOAD"
        /\ cmd' = cmd /\ len' = len
    BY <1>6
  <2>3. byte = f.payload[payload_idx + 1]
    <3>1. payload_idx + 1 \in 1 .. n /\ offset = (payload_idx + 1) + 5
      BY <1>0, <2>1
    <3>2. QED BY <3>1 DEF Layout
  <2>4. crc_local' = sum[payload_idx' + 4]
    <3> DEFINE k == payload_idx + 5
    <3>1. k \in 2 .. n + 4 /\ k - 1 = payload_idx + 4 /\ k + 1 = offset /\ k = payload_idx' + 4
      BY <1>0, <2>1, <2>2, SMTT(60)
    <3> HIDE DEF k
    <3>2. sum[k] = crc16_update(sum[k - 1], s[k + 1])
      BY <3>1 DEF Layout
    <3>3. QED BY <2>1, <2>2, <3>1, <3>2
  <2>5. Copied(f.payload)'
    BY <2>1, <2>2, <2>3, Extended DEF Copied
  <2>6. CASE payload_idx' >= n
    <3>1. payload_idx' = n /\ state' = "CRC_H"
      BY <1>0, <2>1, <2>2, <2>6, SMTT(60)
    <3>2. offset' = n + 6 /\ crc_local' = sum[n + 4]
      BY <1>0, <2>1, <2>2, <2>4, <3>1, SMTT(60)
    <3>3. Read(f, sum[n + 4])'
      BY <2>1, <2>2, <2>5, <3>1, <3>2 DEF Read
    <3>4. QED BY <1>6, <3>1, <3>2, <3>3 DEF InStep
  <2>7. CASE ~(payload_idx' >= n)
    <3>1. payload_idx' < n /\ state' = "PAYLOAD" /\ offset' = payload_idx' + 6
      BY <1>0, <2>1, <2>2, <2>7, SMTT(60)
    <3>2. QED BY <1>6, <2>1, <2>2, <2>4, <2>5, <3>1 DEF InStep
  <2>8. QED BY <2>6, <2>7
<1>7. CASE state = "CRC_H"
  <2>1. offset = n + 6 /\ Read(f, sum[n + 4]) /\ byte = Hi(sum[n + 4])
    BY <1>0, <1>7 DEF InStep, Layout
  <2>2. state' = "CRC_L" /\ crc_received' = 256 * byte
        /\ UNCHANGED <<cmd, len, payload_idx, payload, crc_local>>
    BY <1>7
  <2>3. offset' = n + 7 /\ Read(f, sum[n + 4])'
    BY <1>0, <2>1, <2>2 DEF Read, Copied
  <2>4. QED BY <1>7, <2>1, <2>2, <2>3 DEF InStep
<1>8. CASE state = "CRC_L"
  <2>1. offset = n + 7 /\ Read(f, sum[n + 4]) /\ byte = Lo(sum[n + 4])
        /\ crc_received = 256 * Hi(sum[n + 4])
    BY <1>0, <1>8 DEF InStep, Layout
  <2>2. state' = "TAIL" /\ crc_received' = crc_received + byte
        /\ UNCHANGED <<cmd, len, payload_idx, payload, crc_local>>
    BY <1>8
  <2>3. offset' = n + 8 /\ Read(f, sum[n + 4])'
    BY <1>0, <2>1, <2>2 DEF Read, Copied
  <2>4. crc_received' = sum[n + 4]
    BY <2>1, <2>2
  <2>5. QED BY <1>8, <2>2, <2>3, <2>4 DEF InStep
<1>9. state # "TAIL"
  BY DEF InStep
<1>10. QED
  BY <1>1, <1>2, <1>3, <1>4, <1>5, <1>6, <1>7, <1>8, <1>9 DEF InStep
-----------------------------------------------------------------------------
(* FrameParser: the bounds *)

States == {"SYNC1", "SYNC2", "CMD", "LEN_H", "LEN_L", "PAYLOAD", "CRC_H", "CRC_L", "TAIL"}

\* Where the sender stands.
Source ==
    /\ program \in Programs /\ cur \in 1 .. Len(program)
    /\ offset \in 1 .. Len(Sent[program][cur])

\* The bounds, with what the length is made of before they apply.
Inv ==
    /\ Source
    /\ state \in States /\ len \in Nat /\ payload_idx \in Nat /\ payload \in Seq(Byte)
    /\ state = "PAYLOAD" => payload_idx <= Len(payload)
    /\ IndexInBounds

\* The parser always has a byte to read.
LEMMA StreamBytes == ASSUME Inv PROVE byte \in Byte
<1>1. Layout(program[cur], Sent[program][cur], Running(Body(program[cur])))
  BY SentBytes DEF Inv, Source
<1>2. Sent[program][cur] \in Seq(Byte)
  BY <1>1 DEF Layout
<1>3. QED BY <1>2 DEF Inv, Source, byte

\* The next byte follows in the same frame or begins the next one.
LEMMA SourceMoves == ASSUME Source, FeedByte PROVE Source'
<1>1. Layout(program[cur], Sent[program][cur], Running(Body(program[cur])))
  BY SentBytes DEF Source
<1>2. Len(Sent[program][cur]) \in Nat /\ Len(program) \in Nat \ {0}
  <2>1. Sent[program][cur] \in Seq(Byte)
    BY <1>1 DEF Layout
  <2>2. QED BY <2>1, FrameFacts DEF Source
<1>3. program' = program /\ cur' \in 1 .. Len(program)
  BY <1>2 DEF FeedByte, Source
<1>4. CASE Ends
  <2>1. offset' = 1
    BY <1>4 DEF FeedByte
  <2>2. Layout(program[cur'], Sent[program][cur'], Running(Body(program[cur'])))
    BY <1>3, SentBytes DEF Source
  <2>3. Len(program[cur'].payload) \in Nat
    BY <1>3, FrameFacts, Words DEF Source
  <2>4. 1 \in 1 .. Len(Sent[program][cur'])
    BY <2>2, <2>3 DEF Layout
  <2>5. QED BY <1>3, <2>1, <2>4 DEF Source
<1>5. CASE ~Ends
  <2>1. cur' = cur /\ offset' = offset + 1
    BY <1>5 DEF FeedByte
  <2>2. offset + 1 \in 1 .. Len(Sent[program][cur])
    BY <1>2, <1>5 DEF Source, Ends
  <2>3. QED BY <1>3, <2>1, <2>2 DEF Source
<1>6. QED BY <1>4, <1>5

\* The parser begins out of a frame.
LEMMA InitInv == Init => Inv
<1> SUFFICES ASSUME Init PROVE Inv
  OBVIOUS
<1>1. program \in Programs /\ cur = 1 /\ offset = 1
  BY DEF Init
<1>2. program \in Seq([cmd : Byte, payload : Seq(Byte)]) /\ program # <<>>
  BY <1>1, ProgramAssumption
<1>3. 1 \in 1 .. Len(program)
  BY <1>2
<1>4. Layout(program[1], Sent[program][1], Running(Body(program[1])))
  BY <1>1, <1>3, SentBytes
<1>5. Len(program[1].payload) \in Nat
  BY <1>1, <1>3, FrameFacts, Words
<1>6. Source
  BY <1>1, <1>3, <1>4, <1>5 DEF Source, Layout
<1>7. IndexInBounds /\ payload \in Seq(Byte)
  BY BoundAssumption, Words DEF Init, IndexInBounds
<1>8. QED
  BY <1>6, <1>7 DEF Init, Inv, States

\* One step per state of the parser; each says what becomes of the index.
LEMMA ParseKeepsBounds ==
  ASSUME Inv, ParseByte
  PROVE  /\ state' \in States /\ len' \in Nat /\ payload_idx' \in Nat /\ payload' \in Seq(Byte)
         /\ state' = "PAYLOAD" => payload_idx' <= Len(payload')
         /\ IndexInBounds'
<1>1. byte \in Byte
  BY StreamBytes
<1>2. byte \in Nat
  BY <1>1 DEF Byte
<1>3. CASE Sync1
  BY <1>3 DEF Sync1, Inv, States, IndexInBounds
<1>4. CASE Sync2
  BY <1>4 DEF Sync2, Inv, States, IndexInBounds
<1>5. CASE Cmd
  BY <1>5 DEF Cmd, Inv, States, IndexInBounds
<1>6. CASE LenH
  BY <1>2, <1>6 DEF LenH, Inv, States, IndexInBounds
<1>7. CASE LenL
  BY <1>2, <1>7, BoundAssumption, Words DEF LenL, Inv, States, IndexInBounds
<1>8. CASE Payload
  <2>1. /\ SubSeq(payload, 1, payload_idx) \in Seq(Byte)
        /\ Len(SubSeq(payload, 1, payload_idx)) = payload_idx
    BY <1>8 DEF Payload, Inv
  <2>2. payload' \in Seq(Byte) /\ Len(payload') = payload_idx + 1
    BY <1>1, <1>8, <2>1 DEF Payload
  <2>3. /\ payload_idx' = payload_idx + 1 /\ len' = len
        /\ state' = IF payload_idx' >= len THEN "CRC_H" ELSE "PAYLOAD"
    BY <1>8 DEF Payload
  <2>4. /\ payload_idx < len /\ len <= MAX_PAYLOAD
        /\ payload_idx \in Nat /\ len \in Nat /\ MAX_PAYLOAD \in Nat
    BY <1>8, BoundAssumption, Words DEF Payload, Inv, IndexInBounds
  <2>5. IndexInBounds'
    <3>1. Len(payload') <= MAX_PAYLOAD
      BY <2>2, <2>4
    <3>2. state' = "PAYLOAD" => payload_idx' < len'
      BY <2>3, <2>4
    <3>3. state' \in {"CRC_H", "CRC_L", "TAIL"} => payload_idx' = len'
      BY <2>3, <2>4
    <3>4. QED
      BY <2>3, <2>4, <3>1, <3>2, <3>3 DEF IndexInBounds
  <2>6. QED
    BY <2>2, <2>3, <2>4, <2>5 DEF States
<1>9. CASE CrcH
  BY <1>9 DEF CrcH, Inv, States, IndexInBounds
<1>10. CASE CrcL
  BY <1>10 DEF CrcL, Inv, States, IndexInBounds
<1>11. CASE FrameEnd
  BY <1>11 DEF FrameEnd, Inv, States, IndexInBounds
<1>12. QED
  BY <1>3, <1>4, <1>5, <1>6, <1>7, <1>8, <1>9, <1>10, <1>11 DEF ParseByte

\* A time-out only resets the fields that the bounds speak of.
LEMMA NextInv == ASSUME Inv, [Next]_vars PROVE Inv'
<1>1. CASE FeedByte
  <2>1. ParseByte
    BY <1>1 DEF FeedByte
  <2>2. QED
    BY <1>1, <2>1, SourceMoves, ParseKeepsBounds DEF Inv
<1>2. CASE TimedOut
  <2>1. Source'
    BY <1>2 DEF TimedOut, source, Inv, Source
  <2>2. QED
    BY <1>2, <2>1 DEF TimedOut, Inv, States, IndexInBounds
<1>3. CASE UNCHANGED vars
  BY <1>3 DEF vars, source, parser, Inv, Source, IndexInBounds
<1>4. QED
  BY <1>1, <1>2, <1>3 DEF Next

\* m_payload[m_payloadIdx++] and fp->payload[fp->payload_idx++] never leave the
\* buffer, and the frame that is delivered was written completely, in step or
\* out of step (FrameParser.cpp:65-82, protocol.c:86-107).
THEOREM BufferNeverOverrun == Spec => []IndexInBounds
<1>1. Init => Inv
  BY InitInv
<1>2. Inv /\ [Next]_vars => Inv'
  BY NextInv
<1>3. Inv => IndexInBounds
  BY DEF Inv
<1>4. QED
  BY <1>1, <1>2, <1>3, PTL DEF Spec

-----------------------------------------------------------------------------
(* FrameParser: in step and out of step *)

\* What the parser may rely on: no time-out has interrupted it, or headers are
\* headers.
Reliable == timeouts = 0 \/ Clean(program)

\* The parser is in step with the frame that is arriving.
InStepNow == InStep(program[cur], Running(Body(program[cur])))

\* Out of step costs the frame that was interrupted, which is not yet counted.
StepInv ==
    /\ timeouts \in Nat /\ timeouts <= MaxTimeouts /\ lost \in Nat
    /\ Reliable =>
         /\ \/ InStepNow /\ lost <= timeouts
            \/ OutOfStep /\ Clean(program) /\ lost < timeouts
         /\ DeliveredAsSent

\* At the end of a frame that was read in step, it is delivered.
LEMMA LastByte ==
    ASSUME NEW f, NEW s, NEW sum, NEW n, n = Len(f.payload), n \in Nat,
           f = [cmd |-> f.cmd, payload |-> f.payload], f.payload \in Seq(Byte),
           Layout(f, s, sum), InStep(f, sum), ParseByte, byte = s[offset],
           payload \in Seq(Byte), payload_idx \in Nat, offset = n + 8
    PROVE  Completes /\ Received = f /\ state' = "SYNC1"
<1>1. state = "TAIL" /\ Read(f, sum[n + 4]) /\ crc_received = sum[n + 4]
  BY DEF InStep
<1>2. byte = TAIL /\ crc_local = crc_received
  BY <1>1 DEF Layout, Read
<1>3. state' = "SYNC1"
  BY <1>1 DEF ParseByte, Sync1, Sync2, Cmd, LenH, LenL, Payload, CrcH, CrcL, FrameEnd
<1>4. SubSeq(payload, 1, len) = f.payload
  <2>1. len = n /\ n <= Len(payload) /\ \A j \in 1 .. n : payload[j] = f.payload[j]
    BY <1>1 DEF Read, Copied
  <2> DEFINE t == SubSeq(payload, 1, n)
  <2>2. t \in Seq(Byte) /\ Len(t) = n /\ \A j \in 1 .. n : t[j] = payload[j]
    BY <2>1
  <2> HIDE DEF t
  <2>3. Len(t) = Len(f.payload) /\ \A j \in 1 .. Len(t) : t[j] = f.payload[j]
    BY <2>1, <2>2
  <2>4. t = f.payload
    BY <2>2, <2>3, SeqEqual, Zenon
  <2>5. QED BY <2>1, <2>4 DEF t
<1>5. Received = f
  BY <1>1, <1>4 DEF Received, Read
<1>6. QED BY <1>1, <1>2, <1>3, <1>5 DEF Completes

\* Out of step nothing is delivered; between headers nothing looks like one.
LEMMA StepOutside ==
    ASSUME NEW n \in Nat, NEW s, Source, s = Sent[program][cur], Len(s) = n + 8, s[n + 8] = TAIL,
           OutOfStep, Clean(program), ParseByte
    PROVE  /\ ~Completes /\ state' \in {"SYNC1", "SYNC2"}
           /\ state' = "SYNC2" => byte = HEAD1 /\ offset # n + 8
<1>1. offset \in 2 .. n + 8 /\ byte = s[offset]
  BY DEF Source, OutOfStep, byte
<1>2. CASE state = "SYNC1"
  <2>1. state' = IF byte = HEAD1 THEN "SYNC2" ELSE "SYNC1"
    BY <1>2 DEF ParseByte, Sync1, Sync2, Cmd, LenH, LenL, Payload, CrcH, CrcL, FrameEnd
  <2>2. offset = n + 8 => byte # HEAD1
    BY <1>1 DEF TAIL, HEAD1
  <2>3. QED BY <1>2, <2>1, <2>2 DEF Completes
<1>3. CASE state = "SYNC2"
  <2>1. s[offset - 1] = HEAD1 /\ offset > 2
    BY <1>3 DEF OutOfStep
  <2>2. byte # HEAD2
    <3> DEFINE k == offset - 1
    <3>1. k \in 2 .. Len(s) - 1 /\ k + 1 = offset
      BY <1>1, <2>1
    <3> HIDE DEF k
    <3>2. cur \in DOMAIN program
      BY ProgramAssumption DEF Source
    <3>3. ~(s[k] = HEAD1 /\ s[k + 1] = HEAD2)
      BY <3>1, <3>2 DEF Clean
    <3>4. QED BY <1>1, <2>1, <3>1, <3>3 DEF k
  <2>3. state' = "SYNC1"
    BY <1>3, <2>2 DEF ParseByte, Sync1, Sync2, Cmd, LenH, LenL, Payload, CrcH, CrcL, FrameEnd
  <2>4. QED BY <1>3, <2>3 DEF Completes
<1>4. QED BY <1>2, <1>3 DEF OutOfStep

\* A byte arrives: in step it is read or ends the frame, out of step at most the
\* frame it belongs to is lost, and the parser is in step again when that ends.
LEMMA StepFeed == ASSUME Inv, StepInv, FeedByte PROVE StepInv'
<1> DEFINE n == Len(program[cur].payload)
<1>1. PICK f, s, sum : /\ f = program[cur] /\ s = Sent[program][cur] /\ sum = Running(Body(program[cur]))
  OBVIOUS
<1>2. /\ f = [cmd |-> f.cmd, payload |-> f.payload] /\ f.payload \in Seq(Byte)
      /\ n \in Word16 /\ n <= MAX_PAYLOAD /\ Len(program) \in Nat \ {0}
  BY <1>1, FrameFacts DEF Inv, Source
<1>3. Layout(f, s, sum)
  BY <1>1, SentBytes DEF Inv, Source
<1>4. byte = s[offset] /\ (Ends <=> offset = n + 8) /\ Len(s) = n + 8 /\ s[n + 8] = TAIL
  BY <1>1, <1>3 DEF byte, Ends, Layout
<1>5. /\ program' = program /\ timeouts' = timeouts /\ ParseByte
      /\ frame' = IF Completes THEN Received ELSE NoFrame
      /\ offset' = IF Ends THEN 1 ELSE offset + 1
      /\ cur' = IF ~Ends THEN cur ELSE IF cur = Len(program) THEN 1 ELSE cur + 1
      /\ lost' = IF Ends /\ ~Completes /\ lost <= MaxTimeouts THEN lost + 1 ELSE lost
  BY DEF FeedByte
<1>6. /\ timeouts' \in Nat /\ timeouts' <= MaxTimeouts /\ lost' \in Nat
      /\ Reliable' <=> Reliable
  <2>1. Reliable' <=> Reliable
    BY <1>5 DEF Reliable, Clean
  <2>2. QED BY <1>5, <2>1 DEF StepInv
<1>7. ASSUME Reliable
      PROVE  /\ \/ InStepNow' /\ lost' <= timeouts'
                \/ OutOfStep' /\ Clean(program)' /\ lost' < timeouts'
             /\ DeliveredAsSent'
  <2>0. /\ payload \in Seq(Byte) /\ payload_idx \in Nat /\ byte \in Byte /\ n \in Nat
        /\ timeouts \in Nat /\ lost \in Nat /\ n = Len(f.payload)
        /\ cur \in 1 .. Len(program) /\ offset \in 1 .. n + 8
    BY <1>1, <1>2, <1>4, StreamBytes, Words DEF Inv, Source, StepInv
  <2>1. CASE InStepNow /\ lost <= timeouts
    <3>1. InStep(f, sum)
      BY <1>1, <2>1 DEF InStepNow
    <3>2. CASE Ends
      <4>1. Completes /\ Received = f /\ state' = "SYNC1"
        <5> HIDE DEF n
        <5> QED BY <1>2, <1>3, <1>4, <1>5, <2>0, <3>1, <3>2, LastByte
      <4>2. offset' = 1 /\ frame' = f /\ lost' = lost
        BY <1>5, <3>2, <4>1
      <4>3. InStepNow'
        BY <4>1, <4>2 DEF InStepNow, InStep
      <4>4. f = program'[IF cur' = 1 THEN Len(program') ELSE cur' - 1]
        BY <1>1, <1>2, <1>5, <2>0, <3>2
      <4>5. QED BY <1>5, <2>1, <4>2, <4>3, <4>4 DEF DeliveredAsSent
    <3>3. CASE ~Ends
      <4>1. InStep(f, sum)' /\ state # "TAIL"
        <5>1. 256 * Hi(n) + Lo(n) = n /\ 256 * Hi(sum[n + 4]) + Lo(sum[n + 4]) = sum[n + 4]
          BY <1>1, <1>2, <1>3, HiLo, SMTT(60) DEF Layout
        <5> HIDE DEF n
        <5> QED BY <1>2, <1>3, <1>4, <1>5, <2>0, <3>1, <3>3, <5>1, StepInFrame
      <4>2. ~Completes /\ program' = program /\ cur' = cur /\ lost' = lost /\ frame' = NoFrame
        BY <1>5, <3>3, <4>1 DEF Completes
      <4>3. InStepNow'
        BY <1>1, <4>1, <4>2 DEF InStepNow
      <4>4. QED BY <1>5, <2>1, <4>2, <4>3 DEF DeliveredAsSent
    <3>4. QED BY <3>2, <3>3
  <2>2. CASE OutOfStep /\ Clean(program) /\ lost < timeouts
    <3>1. /\ ~Completes /\ state' \in {"SYNC1", "SYNC2"}
          /\ state' = "SYNC2" => byte = HEAD1 /\ offset # n + 8
      <4>1. Source
        BY DEF Inv
      <4> HIDE DEF n
      <4>2. QED BY <1>1, <1>4, <1>5, <2>0, <2>2, <4>1, StepOutside
    <3>2. frame' = NoFrame /\ Clean(program)' /\ DeliveredAsSent'
      BY <1>5, <2>2, <3>1 DEF Clean, DeliveredAsSent
    <3>3. CASE Ends
      <4>1. state' = "SYNC1" /\ offset' = 1 /\ lost' <= timeouts'
        BY <1>4, <1>5, <2>0, <2>2, <3>1, <3>3
      <4>2. InStepNow'
        BY <4>1 DEF InStepNow, InStep
      <4>3. QED BY <3>2, <4>1, <4>2
    <3>4. CASE ~Ends
      <4>1. /\ offset' = offset + 1 /\ cur' = cur /\ program' = program /\ lost' = lost
            /\ offset > 1 /\ offset \in Nat
        BY <1>5, <2>0, <2>2, <3>4 DEF OutOfStep
      <4>2. state' = "SYNC2" => offset' > 2 /\ Sent[program'][cur'][offset' - 1] = HEAD1
        <5>1. offset' > 2 /\ offset' - 1 = offset
          BY <4>1
        <5>2. byte = Sent[program'][cur'][offset' - 1]
          BY <1>1, <1>4, <4>1, <5>1
        <5>3. QED BY <3>1, <5>1, <5>2
      <4>3. OutOfStep'
        BY <3>1, <4>1, <4>2 DEF OutOfStep
      <4>4. QED BY <1>5, <2>2, <3>2, <4>1, <4>3
    <3>5. QED BY <3>3, <3>4
  <2>3. QED BY <1>7, <2>1, <2>2 DEF StepInv
<1>8. QED BY <1>6, <1>7 DEF StepInv

\* A time-out interrupts the frame that is arriving; the parser is then out of
\* step in the rest of it.
LEMMA StepTimedOut == ASSUME Inv, StepInv, TimedOut PROVE StepInv'
<1>1. /\ state # "SYNC1" /\ state' = "SYNC1" /\ timeouts < MaxTimeouts
      /\ timeouts' = timeouts + 1 /\ frame' = NoFrame /\ lost' = lost
      /\ program' = program /\ cur' = cur /\ offset' = offset
  BY DEF TimedOut, source
<1>2. timeouts' \in Nat /\ timeouts' <= MaxTimeouts /\ lost' \in Nat /\ timeouts' # 0
  BY <1>1, BoundAssumption DEF StepInv
<1>3. ASSUME Reliable'
      PROVE  OutOfStep' /\ Clean(program)' /\ lost' < timeouts' /\ DeliveredAsSent'
  <2>1. Clean(program)' /\ Clean(program)
    BY <1>1, <1>2, <1>3 DEF Reliable, Clean
  <2>2. \/ InStepNow /\ lost <= timeouts
        \/ OutOfStep /\ lost < timeouts
    BY <2>1 DEF StepInv, Reliable
  <2>3. lost' < timeouts'
    BY <1>1, <2>2 DEF StepInv
  <2>4. offset > 1
    <3>1. CASE OutOfStep
      BY <3>1 DEF OutOfStep
    <3>2. CASE InStepNow
      <4>1. Len(program[cur].payload) \in Nat /\ payload_idx \in Nat
        BY FrameFacts, Words DEF Inv, Source
      <4>2. QED BY <1>1, <3>2, <4>1, SMTT(60) DEF InStepNow, InStep
    <3>3. QED BY <2>2, <3>1, <3>2
  <2>5. OutOfStep'
    BY <1>1, <2>4 DEF OutOfStep
  <2>6. DeliveredAsSent'
    BY <1>1 DEF DeliveredAsSent
  <2>7. QED BY <2>1, <2>3, <2>5, <2>6
<1>4. QED BY <1>2, <1>3 DEF StepInv

\* Every step keeps the parser where the sender is or looking for it.
LEMMA StepNext == ASSUME Inv, StepInv, [Next]_vars PROVE StepInv'
<1>1. CASE UNCHANGED vars
  BY <1>1 DEF vars, source, parser, StepInv, Reliable, Clean, InStepNow, InStep, Read, Copied,
     OutOfStep, DeliveredAsSent
<1>2. QED
  BY <1>1, StepFeed, StepTimedOut DEF Next

\* The parser begins in step.
LEMMA StepInit == Init => StepInv
<1> SUFFICES ASSUME Init PROVE StepInv
  OBVIOUS
<1>1. InStepNow
  BY DEF Init, InStepNow, InStep
<1>2. DeliveredAsSent
  BY DEF Init, DeliveredAsSent
<1>3. timeouts = 0 /\ lost = 0
  BY DEF Init
<1>4. QED BY <1>1, <1>2, <1>3, BoundAssumption DEF StepInv

\* In step every frame is delivered; a time-out costs the frame it interrupts and
\* no other, unless payloads contain headers (protocol.c:55-129, 131-137).
THEOREM InterruptedIsAllThatIsLost == Spec => []LosesOnlyInterrupted
<1>1. Init => Inv /\ StepInv
  BY InitInv, StepInit
<1>2. Inv /\ StepInv /\ [Next]_vars => (Inv /\ StepInv)'
  BY NextInv, StepNext
<1>3. StepInv => LosesOnlyInterrupted
  BY DEF StepInv, LosesOnlyInterrupted, Reliable
<1>4. QED
  BY <1>1, <1>2, <1>3, PTL DEF Spec

\* Whatever the checksum is worth: a frame is delivered when its last byte arrives
\* and as it was sent, as long as nothing interrupted the parser or no payload
\* contains a header (FrameParser.cpp:33-107).  That a false frame in a payload is
\* refused as well rests on the checksum's value.
THEOREM DeliveredFramesAreSent ==
    Spec => [](timeouts = 0 \/ Clean(program) => DeliveredAsSent)
<1>1. Init => Inv /\ StepInv
  BY InitInv, StepInit
<1>2. Inv /\ StepInv /\ [Next]_vars => (Inv /\ StepInv)'
  BY NextInv, StepNext
<1>3. StepInv => (timeouts = 0 \/ Clean(program) => DeliveredAsSent)
  BY DEF StepInv, Reliable
<1>4. QED
  BY <1>1, <1>2, <1>3, PTL DEF Spec

-----------------------------------------------------------------------------
(* CommWorker *)

\* The parser holds bytes only of the connection that is up.
ParserInv == m_parser # 0 => Up /\ m_parser = conn

\* Once a host is known the worker remembers the user's last request, and the
\* timer runs only when one is.
WishInv ==
    /\ m_host \in BOOLEAN /\ m_reconnectTimer \in BOOLEAN
    /\ m_intentionalDisconnect \in BOOLEAN /\ wanted \in BOOLEAN
    /\ m_reconnectTimer => m_host
    /\ m_host => (wanted <=> ~m_intentionalDisconnect)

LinkInv == ParserInv /\ FramesOfOneConnection /\ WishInv

\* The worker begins without a host, a timer or a connection.
LEMMA LinkInit == CommInit => LinkInv
<1> SUFFICES ASSUME CommInit PROVE LinkInv
  OBVIOUS
<1>1. ParserInv /\ FramesOfOneConnection
  BY DEF CommInit, ParserInv, FramesOfOneConnection
<1>2. WishInv
  BY Zenon DEF CommInit, WishInv
<1>3. QED BY <1>1, <1>2 DEF LinkInv

\* One step per handler; the window touches nothing of the worker.
LEMMA LinkNext == LinkInv /\ [CommNext]_commVars => LinkInv'
<1> SUFFICES ASSUME LinkInv, [CommNext]_commVars PROVE LinkInv'
  OBVIOUS
<1> USE DEF LinkInv, ParserInv, WishInv, FramesOfOneConnection, Up, Reset
<1>1. CASE ConnectToHost
  BY <1>1 DEF ConnectToHost, Reopen, OnDisconnected, ui
<1>2. CASE DisconnectFromHost
  BY <1>2 DEF DisconnectFromHost, OnDisconnected, ui
<1>3. CASE SendFrame
  BY <1>3 DEF SendFrame, worker, history
<1>4. CASE OnReconnectTimer
  BY <1>4 DEF OnReconnectTimer, Reopen, OnDisconnected, socketVars
<1>5. CASE OnReadyRead
  BY <1>5 DEF OnReadyRead, socketVars
<1>6. CASE SocketConnects
  BY <1>6 DEF SocketConnects, OnDisconnected, history
<1>7. CASE SocketFails
  BY <1>7 DEF SocketFails, worker, history
<1>8. CASE SocketLost
  BY <1>8 DEF SocketLost, OnDisconnected
<1>9. CASE SocketFlushes
  BY <1>9 DEF SocketFlushes, OnDisconnected, history
<1>10. CASE Window
  <2>1. UNCHANGED <<socketVars, worker, history>>
    BY <1>10 DEF Window, UiHandles, Click
  <2>2. QED BY <2>1 DEF socketVars, worker, history
<1>11. CASE UNCHANGED commVars
  BY <1>11 DEF commVars, socketVars, worker, history
<1>12. QED
  BY <1>1, <1>2, <1>3, <1>4, <1>5, <1>6, <1>7, <1>8, <1>9, <1>10, <1>11
     DEF CommNext, Worker, Socket

\* The timer of an earlier loss, a failed attempt or a socket closed late never
\* reconnects against the user's wish: onReconnectTimer asks
\* m_intentionalDisconnect, which by WishInv says what the user last wanted
\* (CommunicationWorker.cpp:61-67, 113-131).
THEOREM UserHasTheSay == CommSpec => UserDecides
<1>1. LinkInv /\ [CommNext]_commVars => (socket # "Connecting" /\ socket' = "Connecting" => wanted')
  BY DEF LinkInv, WishInv, CommNext, Worker, Socket, Window, commVars, socketVars, worker, history, ui,
     ConnectToHost, DisconnectFromHost, SendFrame, OnReconnectTimer, OnReadyRead, Reopen,
     SocketConnects, SocketFails, SocketLost, SocketFlushes, UiHandles, Click
<1>2. QED
  BY <1>1, LinkInit, LinkNext, PTL DEF CommSpec, UserDecides

News == {"connected", "disconnected", "error"}

\* What a window that shows `btn` will have been told of the connection once it
\* has handled `events`: the last event that is not an error tells it that `up`.
Tells(events, btn, up) ==
    /\ (\A i \in 1 .. Len(events) : events[i] = "error") => (btn <=> ~up)
    /\ \A i \in 1 .. Len(events) :
          events[i] # "error" /\ (\A j \in i + 1 .. Len(events) : events[j] = "error")
              => (events[i] = "connected" <=> up)

\* A change of the connection is told by the event posted with it,
LEMMA ChangeIsTold ==
    ASSUME NEW events \in Seq(News), NEW e \in News, e # "error", NEW btn, NEW up,
           e = "connected" <=> up
    PROVE  Append(events, e) \in Seq(News) /\ Tells(Append(events, e), btn, up)
<1> DEFINE s == Append(events, e)
<1>1. s \in Seq(News) /\ Len(s) = Len(events) + 1 /\ s[Len(s)] = e
  OBVIOUS
<1>2. \A i \in 1 .. Len(s) : i # Len(s) => Len(s) \in i + 1 .. Len(s)
  BY <1>1
<1> HIDE DEF s
<1>3. Len(s) \in 1 .. Len(s)
  BY <1>1
<1>4. QED BY <1>1, <1>2, <1>3 DEF Tells, s

\* an error tells nothing of it,
LEMMA ErrorTellsNothing ==
    ASSUME NEW events \in Seq(News), NEW btn, NEW up, Tells(events, btn, up)
    PROVE  Append(events, "error") \in Seq(News) /\ Tells(Append(events, "error"), btn, up)
<1> DEFINE s == Append(events, "error")
<1>1. s \in Seq(News) /\ Len(s) = Len(events) + 1 /\ s[Len(s)] = "error"
  BY DEF News
<1>2. \A i \in 1 .. Len(events) : s[i] = events[i]
  OBVIOUS
<1> HIDE DEF s
<1>3. ASSUME \A i \in 1 .. Len(s) : s[i] = "error"
      PROVE  btn <=> ~up
  BY <1>1, <1>2, <1>3 DEF Tells
<1>4. ASSUME NEW i \in 1 .. Len(s), s[i] # "error",
             \A j \in i + 1 .. Len(s) : s[j] = "error"
      PROVE  s[i] = "connected" <=> up
  <2>1. i \in 1 .. Len(events)
    BY <1>1, <1>4
  <2>2. \A j \in i + 1 .. Len(events) : events[j] = "error"
    BY <1>1, <1>2, <1>4
  <2>3. QED BY <1>2, <1>4, <2>1, <2>2 DEF Tells
<1>5. QED BY <1>1, <1>3, <1>4 DEF Tells, s

\* and an event that is handled shows on the button what it told.
LEMMA HandledIsShown ==
    ASSUME NEW events \in Seq(News), events # <<>>, NEW btn, NEW shown, NEW up \in BOOLEAN,
           Tells(events, btn, up),
           Head(events) = "error" => (shown <=> btn),
           Head(events) = "connected" => ~shown,
           Head(events) = "disconnected" => shown
    PROVE  Tail(events) \in Seq(News) /\ Tells(Tail(events), shown, up)
<1> DEFINE s == Tail(events)
<1>1. s \in Seq(News) /\ Len(s) = Len(events) - 1 /\ Len(events) \in Nat \ {0}
      /\ Head(events) = events[1] /\ events[1] \in News
  OBVIOUS
<1>2. \A i \in 1 .. Len(s) : s[i] = events[i + 1]
  OBVIOUS
<1> HIDE DEF s
<1>3. \A i \in 2 .. Len(events) : events[i] = s[i - 1] /\ i - 1 \in 1 .. Len(s)
  BY <1>1, <1>2
<1>4. ASSUME \A i \in 1 .. Len(s) : s[i] = "error"
      PROVE  shown <=> ~up
  <2>1. \A i \in 2 .. Len(events) : events[i] = "error"
    BY <1>3, <1>4
  <2>2. CASE events[1] = "error"
    <3>1. \A i \in 1 .. Len(events) : events[i] = "error"
      BY <1>1, <2>1, <2>2
    <3>2. QED BY <1>1, <2>2, <3>1 DEF Tells
  <2>3. CASE events[1] # "error"
    <3>1. events[1] = "connected" <=> up
      BY <1>1, <2>1, <2>3 DEF Tells
    <3>2. QED BY <1>1, <2>3, <3>1 DEF News
  <2>4. QED BY <2>2, <2>3
<1>5. ASSUME NEW i \in 1 .. Len(s), s[i] # "error",
             \A j \in i + 1 .. Len(s) : s[j] = "error"
      PROVE  s[i] = "connected" <=> up
  <2>1. i + 1 \in 1 .. Len(events) /\ events[i + 1] = s[i]
    BY <1>1, <1>2
  <2>2. \A j \in i + 2 .. Len(events) : events[j] = "error"
    BY <1>1, <1>3, <1>5, SMTT(60)
  <2>3. QED BY <1>5, <2>1, <2>2 DEF Tells
<1>6. QED BY <1>1, <1>4, <1>5 DEF Tells, s

UiInv == toUi \in Seq(News) /\ Tells(toUi, m_btnConnect, Up)

\* A step that changes neither the events, the button nor the connection.
LEMMA NothingToTell ==
    ASSUME UiInv, UNCHANGED <<toUi, m_btnConnect>>, Up' <=> Up
    PROVE  UiInv'
BY DEF UiInv, Tells

\* An event that is not an error tells what the connection is after it.
LEMMA EventIsTold ==
    ASSUME NEW signals \in Seq(News), NEW e \in {"connected", "disconnected"},
           toUi' = Append(signals, e), e = "connected" <=> Up'
    PROVE  UiInv'
BY ChangeIsTold DEF UiInv, News

\* Neither does an error end or begin a connection.
LEMMA ErrorIsPosted ==
    ASSUME UiInv, toUi' = toUi \/ toUi' = Append(toUi, "error"),
           Up' <=> Up, UNCHANGED m_btnConnect
    PROVE  UiInv'
<1>1. CASE toUi' = toUi
  BY <1>1, NothingToTell
<1>2. CASE toUi' = Append(toUi, "error")
  BY <1>2, ErrorTellsNothing DEF UiInv, Tells
<1>3. QED BY <1>1, <1>2

\* abort() and connectToHost().
LEMMA ReopenTells ==
    ASSUME UiInv, NEW intentional, NEW host, NEW timer,
           Reopen(intentional, host, timer), UNCHANGED m_btnConnect
    PROVE  UiInv'
<1>1. ~Up'
  BY DEF Reopen, Up
<1>2. CASE Up
  BY <1>1, <1>2, EventIsTold DEF Reopen, OnDisconnected, UiInv
<1>3. CASE ~Up
  BY <1>1, <1>3, NothingToTell DEF Reopen
<1>4. QED BY <1>2, <1>3

\* One step per handler, by what it posts to the window.
LEMMA UiNext == UiInv /\ [CommNext]_commVars => UiInv'
<1> SUFFICES ASSUME UiInv, [CommNext]_commVars PROVE UiInv'
  OBVIOUS
<1>1. CASE ConnectToHost
  BY <1>1, ReopenTells DEF ConnectToHost, ui
<1>2. CASE DisconnectFromHost
  <2>1. UNCHANGED m_btnConnect
    BY <1>2 DEF DisconnectFromHost, ui
  <2>2. CASE toUi' = Append(toUi, "disconnected") /\ socket' = "Unconnected"
    BY <2>2, EventIsTold DEF UiInv, Up
  <2>3. CASE UNCHANGED <<socket, toUi>>
    BY <2>1, <2>3, NothingToTell DEF Up
  <2>4. CASE Up /\ socket' = "Closing" /\ UNCHANGED toUi
    BY <2>1, <2>4, NothingToTell DEF Up
  <2>5. \/ UNCHANGED <<socket, toUi>>
        \/ Up /\ socket' = "Closing" /\ UNCHANGED toUi
        \/ toUi' = Append(toUi, "disconnected") /\ socket' = "Unconnected"
    BY <1>2, ZenonT(60) DEF DisconnectFromHost, OnDisconnected
  <2>6. QED BY <2>2, <2>3, <2>4, <2>5
<1>3. CASE SendFrame
  BY <1>3, NothingToTell DEF SendFrame, ui, Up
<1>4. CASE OnReconnectTimer
  <2>1. UNCHANGED m_btnConnect
    BY <1>4 DEF OnReconnectTimer, ui
  <2>2. CASE UNCHANGED <<socketVars, toUi>>
    BY <2>1, <2>2, NothingToTell DEF socketVars, Up
  <2>3. CASE Reopen(FALSE, m_host, FALSE)
    BY <2>1, <2>3, ReopenTells
  <2>4. QED BY <1>4, <2>2, <2>3 DEF OnReconnectTimer
<1>5. CASE OnReadyRead
  BY <1>5, NothingToTell DEF OnReadyRead, socketVars, ui, Up
<1>6. CASE SocketConnects
  <2>1. Append(toUi, "connected") \in Seq(News)
    BY DEF UiInv, News
  <2>2. CASE pendingClose
    BY <1>6, <2>1, <2>2, EventIsTold DEF SocketConnects, OnDisconnected, Up
  <2>3. CASE ~pendingClose
    BY <1>6, <2>3, EventIsTold DEF SocketConnects, UiInv, Up
  <2>4. QED BY <2>2, <2>3
<1>7. CASE SocketFails
  BY <1>7, ErrorIsPosted DEF SocketFails, ui, Up
<1>8. CASE SocketLost
  <2> DEFINE signals == IF m_intentionalDisconnect THEN toUi ELSE Append(toUi, "error")
  <2>1. signals \in Seq(News)
    BY DEF UiInv, News
  <2>2. QED BY <1>8, <2>1, EventIsTold DEF SocketLost, OnDisconnected, Up
<1>9. CASE SocketFlushes
  <2>1. CASE socket = "Closing"
    BY <1>9, <2>1, EventIsTold DEF SocketFlushes, OnDisconnected, UiInv, Up
  <2>2. CASE socket # "Closing"
    BY <1>9, <2>2, NothingToTell DEF SocketFlushes, ui, Up
  <2>3. QED BY <2>1, <2>2
<1>10. CASE UiHandles
  <2>1. Up' = Up /\ Up \in BOOLEAN
    BY <1>10 DEF UiHandles, socketVars, Up
  <2>2. toUi # <<>> /\ toUi' = Tail(toUi) /\ toUi \in Seq(News) /\ Tells(toUi, m_btnConnect, Up)
    BY <1>10 DEF UiHandles, UiInv
  <2>3. Head(toUi) \in News
    BY <2>2
  <2>4. /\ Head(toUi) = "connected" => m_btnConnect' = FALSE
        /\ Head(toUi) = "disconnected" => m_btnConnect' = TRUE
        /\ Head(toUi) = "error" => m_btnConnect' = m_btnConnect
    BY <1>10, <2>3 DEF UiHandles, News
  <2>5. Tail(toUi) \in Seq(News) /\ Tells(Tail(toUi), m_btnConnect', Up)
    BY <2>1, <2>2, <2>4, HandledIsShown, ZenonT(60)
  <2>6. QED BY <2>1, <2>2, <2>5 DEF UiInv, Tells
<1>11. CASE \E request \in {"connect", "disconnect", "frame"} : Click(request)
  BY <1>11, NothingToTell DEF Click, socketVars, Up
<1>12. CASE UNCHANGED commVars
  BY <1>12, NothingToTell DEF commVars, socketVars, ui, Up
<1>13. QED
  BY <1>1, <1>2, <1>3, <1>4, <1>5, <1>6, <1>7, <1>8, <1>9, <1>10, <1>11, <1>12
     DEF CommNext, Worker, Socket, Window

\* However many events are on their way, the last of them tells the window what
\* the socket is, so that a window with none pending shows it
\* (CommunicationWorker.cpp:81-96, MainWindow.cpp:394-421).
THEOREM ButtonsFollow == CommSpec => []UiAgrees
<1>1. CommInit => UiInv
  BY DEF CommInit, UiInv, Tells, Up
<1>2. UiInv => UiAgrees
  BY DEF UiInv, Tells, UiAgrees
<1>3. QED BY <1>1, <1>2, UiNext, PTL DEF CommSpec

\* The parser is reset in every way a connection can end or be replaced, so that
\* no frame joins the bytes of two of them (CommunicationWorker.cpp:47-59, 87-103).
THEOREM FramesStayWhole == CommSpec => []FramesOfOneConnection
<1>1. LinkInv => FramesOfOneConnection
  BY DEF LinkInv
<1>2. QED BY <1>1, LinkInit, LinkNext, PTL DEF CommSpec
====
