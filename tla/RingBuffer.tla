---- MODULE RingBuffer ----
(***************************************************************************)
(* The lock-free ring between the data thread, which appends blocks of     *)
(* samples (DataProcessor::onStreamData), and the GUI thread, which copies *)
(* the most recent ones for the plot (MainWindow::updatePlot):             *)
(* host/src/RingBuffer.h.  Each copies while the other goes on, and all    *)
(* they share is the slots and m_writePos.  std::copy promises a concurrent *)
(* reader no order, so a copy takes its elements in any.  A sample is its  *)
(* number.  clear() and append of one value have no caller; a block is     *)
(* never longer than the ring (a frame has some hundred samples, a ring    *)
(* 5000000).                                                               *)
(***************************************************************************)
EXTENDS Integers

CONSTANTS
    Capacity,       \* m_capacity
    Count,          \* what updatePlot asks for
    MaxBlock,       \* samples in a frame
    MaxSamples      \* bound: samples in a behaviour

ASSUME SizeAssumption ==
    /\ Capacity \in Nat \ {0} /\ Count \in Nat \ {0}
    /\ MaxBlock \in 1 .. Capacity /\ MaxSamples \in Nat

VARIABLES
    m_buffer, m_writePos,
    block,              \* length of the block being appended, 0 for none
    copied,             \* which of its elements are in the ring
    pos, count,         \* getRecent's locals; count is 0 outside of it
    result              \* what is copied of the window so far, from 1 to count

writer == <<m_buffer, m_writePos, block, copied>>
reader == <<pos, count, result>>
vars == <<writer, reader>>

Slots == 0 .. Capacity - 1
NoSample == -1
Nothing == [i \in {} |-> NoSample]

Copied(i, sample) == [j \in DOMAIN result \cup {i} |-> IF j = i THEN sample ELSE result[j]]

Init ==
    /\ m_buffer = [i \in Slots |-> NoSample] /\ m_writePos = 0
    /\ block = 0 /\ copied = {}
    /\ pos = 0 /\ count = 0 /\ result = Nothing

\* A copy that meets the end of the ring goes on at its beginning: firstPart
\* and the rest.
Wrap(i) == IF i < Capacity THEN i ELSE i - Capacity

-----------------------------------------------------------------------------
(* append, by the data thread *)

AppendBegin ==
    /\ block = 0
    /\ \E len \in 1 .. MaxBlock : m_writePos + len <= MaxSamples /\ block' = len
    /\ UNCHANGED <<m_buffer, m_writePos, copied, reader>>

CopyIn ==
    /\ \E k \in (0 .. block - 1) \ copied :
        /\ m_buffer' = [m_buffer EXCEPT ![Wrap((m_writePos % Capacity) + k)] = m_writePos + k]
        /\ copied' = copied \cup {k}
    /\ UNCHANGED <<m_writePos, block, reader>>

\* fetch_add, when the block is in.
Publish ==
    /\ block > 0 /\ copied = 0 .. block - 1
    /\ m_writePos' = m_writePos + block
    /\ block' = 0 /\ copied' = {}
    /\ UNCHANGED <<m_buffer, reader>>

(* getRecent, by the GUI thread *)

Least(a, b) == IF a <= b THEN a ELSE b

RecentBegin ==
    /\ count = 0 /\ m_writePos > 0
    /\ pos' = m_writePos
    /\ count' = Least(Least(Count, m_writePos), Capacity)
    /\ UNCHANGED <<writer, result>>

\* Mutant: the window's start is taken from a second load of m_writePos.
CopyOutLatest ==
    /\ \E i \in (1 .. count) \ DOMAIN result :
        result' = Copied(i, m_buffer[Wrap(((m_writePos - count) % Capacity) + i - 1)])
    /\ UNCHANGED <<writer, pos, count>>

CopyOut ==
    /\ \E i \in (1 .. count) \ DOMAIN result :
        result' = Copied(i, m_buffer[Wrap(((pos - count) % Capacity) + i - 1)])
    /\ UNCHANGED <<writer, pos, count>>

RecentEnd ==
    /\ count > 0 /\ DOMAIN result = 1 .. count
    /\ count' = 0 /\ result' = Nothing /\ pos' = 0
    /\ UNCHANGED writer

Next ==
    \/ AppendBegin \/ CopyIn \/ Publish
    \/ RecentBegin \/ CopyOut \/ RecentEnd

Spec == Init /\ [][Next]_vars

-----------------------------------------------------------------------------
(* Properties *)

\* The block being appended reaches round into the window the reader copies.
Lapped == m_writePos + block > pos - count + Capacity

\* A reader that is not lapped gets the window that ends with the last sample
\* published when it began, without gap or repetition, whatever the writer
\* does meanwhile and wherever the ring's end falls.  (updatePlot copies 10000
\* of 5000000 samples.)
WindowExact ==
    count > 0 /\ ~Lapped => \A i \in DOMAIN result : result[i] = pos - count + i - 1
====
