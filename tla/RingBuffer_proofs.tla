---- MODULE RingBuffer_proofs ----
(***************************************************************************)
(* For every capacity, window and size of blocks, a reader that is not     *)
(* lapped copies exactly the most recent samples.                          *)
(***************************************************************************)
EXTENDS RingBuffer, TLAPS

Types ==
    /\ DOMAIN m_buffer = Slots
    /\ m_buffer = [s \in Slots |-> m_buffer[s]]
    /\ m_writePos \in Nat
    /\ block \in 0 .. Capacity /\ copied \in SUBSET (0 .. block - 1)
    /\ pos \in Nat /\ count \in Nat
    /\ count <= pos /\ count <= Capacity /\ pos <= m_writePos
    /\ DOMAIN result \subseteq 1 .. count

\* A sample is in the ring once it is copied, until one a round later may be.
Entered(n) == n < m_writePos \/ n - m_writePos \in copied
Kept == \A n \in Nat : Entered(n) /\ m_writePos + block <= n + Capacity => m_buffer[n % Capacity] = n

Inv == Types /\ Kept /\ WindowExact

-----------------------------------------------------------------------------
(* Arithmetic of the slots *)

\* What the sizes amount to.
LEMMA CapacityType == Capacity \in Nat /\ Capacity > 0 /\ Count \in Nat /\ MaxBlock \in 1 .. Capacity
  BY SizeAssumption

\* Division with a remainder.
LEMMA Remainder ==
  ASSUME NEW C \in Nat, C > 0, NEW n \in Int
  PROVE  /\ n % C \in 0 .. C - 1
         /\ n \div C \in Int
         /\ n = C * (n \div C) + (n % C)
  OBVIOUS

\* Numbers of different rounds differ by a round at least.
LEMMA Apart ==
  ASSUME NEW C \in Nat, C > 0, NEW p \in Int, NEW q \in Int, p > q
  PROVE  C * p >= C * q + C
  OBVIOUS

\* Two samples less than a round apart are in different slots.
LEMMA SlotsDiffer ==
  ASSUME NEW C \in Nat, C > 0, NEW a \in Nat, NEW b \in Nat, a < b, b < a + C
  PROVE  a % C # b % C
<1> DEFINE p == a \div C
           q == b \div C
           r == a % C
<1> SUFFICES ASSUME b % C = r PROVE FALSE
  OBVIOUS
<1>1. p \in Int /\ q \in Int /\ r \in 0 .. C - 1
  BY Remainder
<1>2. a = C * p + r /\ b = C * q + r
  BY Remainder
<1>3. CASE q > p
  <2>1. C * q >= C * p + C
    BY <1>1, <1>3, Apart
  <2> QED BY <2>1, <1>2, <1>1, SMT
<1>4. CASE q <= p
  <2>1. C * q <= C * p
    BY <1>1, <1>4, Apart
  <2> QED BY <2>1, <1>2, <1>1, SMT
<1> HIDE DEF p, q, r
<1> QED BY <1>1, <1>3, <1>4

\* A number has one remainder.
LEMMA RemainderUnique ==
  ASSUME NEW C \in Nat, C > 0, NEW q \in Int, NEW r \in 0 .. C - 1, NEW n \in Nat, n = C * q + r
  PROVE  n % C = r
  OBVIOUS

\* The element k places after sample n is in the slot of sample n + k.
LEMMA WrapIsSlot ==
  ASSUME NEW n \in Nat, NEW k \in Nat, k < Capacity
  PROVE  /\ Wrap((n % Capacity) + k) = (n + k) % Capacity
         /\ (n + k) % Capacity \in Slots
<1> DEFINE q == n \div Capacity
           r == n % Capacity
<1>0. Capacity \in Nat /\ Capacity > 0
  BY CapacityType
<1>1. q \in Int /\ r \in 0 .. Capacity - 1 /\ n = Capacity * q + r
  BY <1>0, Remainder
<1>2. (n + k) % Capacity \in Slots
  BY <1>0, Remainder DEF Slots
<1> HIDE DEF q, r
<1>3. CASE r + k < Capacity
  <2>1. n + k = Capacity * q + (r + k) /\ r + k \in 0 .. Capacity - 1
    BY <1>0, <1>1, <1>3, SMT
  <2>2. (n + k) % Capacity = r + k
    BY <2>1, <1>0, <1>1, RemainderUnique
  <2> QED BY <2>2, <1>2, <1>3 DEF Wrap, r
<1>4. CASE r + k >= Capacity
  <2>1. n + k = Capacity * (q + 1) + (r + k - Capacity) /\ r + k - Capacity \in 0 .. Capacity - 1
    BY <1>0, <1>1, <1>4, SMT
  <2>2. (n + k) % Capacity = r + k - Capacity
    <3>1. q + 1 \in Int /\ n + k \in Nat
      BY <1>1
    <3> DEFINE p == q + 1
    <3>2. n + k = Capacity * p + (r + k - Capacity) /\ p \in Int
      BY <2>1, <3>1
    <3> HIDE DEF p
    <3> QED BY <3>1, <3>2, <2>1, <1>0, RemainderUnique, SMTT(60)
  <2>3. Wrap(r + k) = r + k - Capacity
    BY <1>0, <1>1, <1>4 DEF Wrap
  <2> QED BY <2>2, <2>3, <1>2 DEF r
<1> QED
  <2>1. r + k < Capacity \/ r + k >= Capacity
    BY <1>0, <1>1
  <2> QED BY <2>1, <1>3, <1>4

-----------------------------------------------------------------------------
\* An empty ring, and nobody at work on it.
LEMMA InitInv == Init => Inv
  BY SizeAssumption DEF Init, Inv, Types, Kept, Entered, WindowExact, Slots, Nothing

\* A block begins; what it will overwrite is still there.
LEMMA AppendBeginInv == Inv /\ AppendBegin => Inv'
<1> SUFFICES ASSUME Inv, AppendBegin PROVE Inv'
  OBVIOUS
<1> USE CapacityType DEF Inv
<1>1. Types'
  BY DEF AppendBegin, Types, reader
<1>2. Kept'
  BY DEF AppendBegin, Types, Kept, Entered, reader
<1>3. WindowExact'
  BY DEF AppendBegin, Types, WindowExact, Lapped, reader
<1> QED BY <1>1, <1>2, <1>3

\* An element goes to a slot that no sample of the last round after the block needs.
LEMMA CopyInInv == Inv /\ CopyIn => Inv'
<1> SUFFICES ASSUME Inv,
                    NEW k \in (0 .. block - 1) \ copied,
                    m_buffer' = [m_buffer EXCEPT ![Wrap((m_writePos % Capacity) + k)] = m_writePos + k],
                    copied' = copied \cup {k},
                    UNCHANGED <<m_writePos, block, reader>>
             PROVE Inv'
  BY DEF CopyIn
<1> USE CapacityType DEF Inv
<1> DEFINE slot == (m_writePos + k) % Capacity
<1>1. k \in Nat /\ block \in Nat /\ k < block /\ block <= Capacity /\ m_writePos \in Nat
  BY DEF Types
<1>2. Wrap((m_writePos % Capacity) + k) = slot /\ slot \in Slots
  BY <1>1, WrapIsSlot
<1>3. m_buffer' = [m_buffer EXCEPT ![slot] = m_writePos + k]
  BY <1>2
<1>4. Types'
  BY <1>1, <1>2, <1>3 DEF Types, reader
<1>5. Kept'
  <2> SUFFICES ASSUME NEW n \in Nat, Entered(n)', m_writePos + block <= n + Capacity
               PROVE  m_buffer'[n % Capacity] = n
    BY DEF Kept, reader
  <2>1. n % Capacity \in Slots
    BY Remainder DEF Slots
  <2>2. CASE n = m_writePos + k
    BY <2>2, <1>2, <1>3 DEF Types
  <2>3. CASE n # m_writePos + k
    <3>1. Entered(n)
      BY <2>3, <1>1 DEF Entered, Types
    <3>2. n < m_writePos + block
      BY <3>1, <1>1 DEF Entered, Types
    <3>3. n % Capacity # slot
      <4> DEFINE w == m_writePos + k
      <4>0. w \in Nat /\ w < n + Capacity /\ n < w + Capacity /\ Capacity \in Nat /\ Capacity > 0
        BY <3>2, <1>1
      <4> HIDE DEF w
      <4>1. CASE n < w
        <5>1. n % Capacity # w % Capacity
          BY <4>0, <4>1, SlotsDiffer
        <5> QED BY <5>1 DEF w
      <4>2. CASE w < n
        <5>1. n % Capacity # w % Capacity
          BY <4>0, <4>2, SlotsDiffer
        <5> QED BY <5>1 DEF w
      <4> QED BY <4>0, <4>1, <4>2, <2>3 DEF w
    <3> QED BY <3>1, <3>3, <2>1, <1>3 DEF Kept, Types
  <2> QED BY <2>2, <2>3
<1>6. WindowExact'
  BY DEF WindowExact, Lapped, reader
<1> QED BY <1>4, <1>5, <1>6

\* The release of m_writePos makes the block's elements the newest samples.
LEMMA PublishInv == Inv /\ Publish => Inv'
<1> SUFFICES ASSUME Inv, Publish PROVE Inv'
  OBVIOUS
<1> USE CapacityType DEF Inv
<1>1. Types'
  BY DEF Publish, Types, reader
<1>2. Kept'
  <2> SUFFICES ASSUME NEW n \in Nat, Entered(n)', m_writePos' + block' <= n + Capacity
               PROVE  m_buffer'[n % Capacity] = n
    BY DEF Kept
  <2>1. m_writePos' = m_writePos + block /\ block' = 0 /\ copied' = {} /\ m_buffer' = m_buffer
    BY DEF Publish
  <2>2. m_writePos \in Nat /\ block \in Nat
    BY DEF Types
  <2>3. n < m_writePos + block /\ m_writePos + block <= n + Capacity
    BY <2>1, <2>2 DEF Entered
  <2>4. copied = 0 .. block - 1
    BY DEF Publish
  <2>5. Entered(n)
    BY <2>2, <2>3, <2>4 DEF Entered
  <2> QED BY <2>1, <2>3, <2>5 DEF Kept
<1>3. WindowExact'
  BY SMTT(60) DEF Publish, Types, WindowExact, Lapped, reader
<1> QED BY <1>1, <1>2, <1>3

\* The reader's window is the newest samples of this moment.
LEMMA RecentBeginInv == Inv /\ RecentBegin => Inv'
<1> SUFFICES ASSUME Inv, RecentBegin PROVE Inv'
  OBVIOUS
<1> USE CapacityType DEF Inv
<1>1. DOMAIN result = {}
  <2>1. count = 0 /\ DOMAIN result \subseteq 1 .. count
    BY DEF RecentBegin, Types
  <2>2. 1 .. 0 = {}
    OBVIOUS
  <2> QED BY <2>1, <2>2
<1>0. /\ m_writePos \in Nat /\ m_writePos > 0 /\ pos' = m_writePos
      /\ count' = Least(Least(Count, m_writePos), Capacity)
      /\ UNCHANGED <<m_buffer, m_writePos, block, copied, result>>
  BY DEF RecentBegin, writer, Types
<1>9. count' \in Nat /\ count' <= m_writePos /\ count' <= Capacity
  BY <1>0 DEF Least
<1>2. Types'
  BY <1>0, <1>1, <1>9 DEF Types
<1>3. Kept'
  BY DEF RecentBegin, Kept, Entered, writer
<1>4. WindowExact'
  BY <1>1 DEF RecentBegin, WindowExact
<1> QED BY <1>2, <1>3, <1>4

\* What the reader takes from a slot is its sample, unless it has been lapped.
LEMMA CopyOutInv == Inv /\ CopyOut => Inv'
<1> SUFFICES ASSUME Inv,
                    NEW i \in (1 .. count) \ DOMAIN result,
                    result' = Copied(i, m_buffer[Wrap(((pos - count) % Capacity) + i - 1)]),
                    UNCHANGED <<writer, pos, count>>
             PROVE Inv'
  BY DEF CopyOut
<1> USE CapacityType DEF Inv
<1> DEFINE n == pos - count + i - 1
<1>1. i \in Nat /\ pos \in Nat /\ count \in Nat /\ 1 <= i /\ i <= count /\ count <= Capacity /\ pos - count \in Nat /\ n \in Nat
  BY DEF Types
<1>2. Wrap(((pos - count) % Capacity) + i - 1) = n % Capacity
  <2>1. (pos - count) % Capacity \in Int
    BY <1>1, Remainder
  <2>2. ((pos - count) % Capacity) + i - 1 = ((pos - count) % Capacity) + (i - 1)
    BY <1>1, <2>1
  <2>3. Wrap(((pos - count) % Capacity) + (i - 1)) = ((pos - count) + (i - 1)) % Capacity
    <3>1. pos - count \in Nat /\ i - 1 \in Nat /\ i - 1 < Capacity
      BY <1>1
    <3> QED BY <3>1, WrapIsSlot
  <2>4. (pos - count) + (i - 1) = n
    BY <1>1
  <2> QED BY <2>2, <2>3, <2>4
<1>3. /\ DOMAIN result' = DOMAIN result \cup {i}
      /\ result'[i] = m_buffer[n % Capacity]
      /\ \A j \in DOMAIN result : result'[j] = result[j]
  BY <1>2 DEF Copied
<1>4. Types'
  BY <1>3 DEF Types, writer
<1>5. Kept'
  BY DEF Kept, Entered, writer
<1>6. WindowExact'
  <2> SUFFICES ASSUME ~Lapped PROVE result'[i] = n
    BY <1>3 DEF WindowExact, Lapped, writer
  <2>1. Entered(n) /\ m_writePos + block <= n + Capacity
    BY <1>1 DEF Entered, Lapped, Types
  <2> QED BY <2>1, <1>1, <1>3 DEF Kept
<1> QED BY <1>4, <1>5, <1>6

\* The reader is done and asks no more.
LEMMA RecentEndInv == Inv /\ RecentEnd => Inv'
<1> SUFFICES ASSUME Inv, RecentEnd PROVE Inv'
  OBVIOUS
<1> USE CapacityType DEF Inv
<1>1. DOMAIN result' = {}
  BY DEF RecentEnd, Nothing
<1>2. Types'
  BY <1>1 DEF RecentEnd, Types, writer
<1>3. Kept'
  BY DEF RecentEnd, Kept, Entered, writer
<1>4. WindowExact'
  BY <1>1 DEF RecentEnd, WindowExact
<1> QED BY <1>2, <1>3, <1>4

\* Nothing happens.
LEMMA StutterInv == Inv /\ UNCHANGED vars => Inv'
  BY DEF vars, writer, reader, Inv, Types, Kept, Entered, WindowExact, Lapped

\* A reader that is not lapped returns the most recent samples, whatever the
\* two copies do in between (RingBuffer.h, getRecent against append).
THEOREM ReadersGetTheWindow == Spec => []WindowExact
<1>1. Init => Inv
  BY InitInv
<1>2. Inv /\ [Next]_vars => Inv'
  BY AppendBeginInv, CopyInInv, PublishInv, RecentBeginInv, CopyOutInv, RecentEndInv,
     StutterInv DEF Next
<1>3. Inv => WindowExact
  BY DEF Inv
<1> QED BY <1>1, <1>2, <1>3, PTL DEF Spec
====
