-------------------------- MODULE IpcBufferProofs --------------------------
(***************************************************************************)
(* Proofs about IpcBuffer for every number of blocks, every set of writers *)
(* and every number of messages.                                           *)
(***************************************************************************)
EXTENDS IpcBuffer, TLAPS

\* The link of a block in ipc_buffer_init leads to a block.
LEMMA NextIndexType == nextIndex \in [Blocks -> Blocks]
  BY RingAssumption DEF nextIndex, Blocks

\* A message of a writer that is inside ipc_buffer_write is a message.
LEMMA MessageType ==
  ASSUME TypeOK, NEW w \in Writers, pc[w] # "idle"
  PROVE  Message(w) \in Messages
  BY RingAssumption DEF TypeOK, Message, Messages

\* Every step of a writer or of the reader preserves the types.
LEMMA TypeStep == TypeOK /\ [Next]_vars => TypeOK'
  <1> SUFFICES ASSUME TypeOK, [Next]_vars PROVE TypeOK'
    OBVIOUS
  <1> USE RingAssumption, NextIndexType
  <1>1. ASSUME NEW w \in Writers, BeginWrite(w) PROVE TypeOK'
    BY <1>1 DEF TypeOK, BeginWrite, At, Goto, Labels, cursorVars, readerVars
  <1>2. ASSUME NEW w \in Writers, LoadWriteEnd(w) PROVE TypeOK'
    BY <1>2 DEF TypeOK, LoadWriteEnd, At, Goto, Labels, cursorVars, readerVars
  <1>3. ASSUME NEW w \in Writers, CheckFull(w) PROVE TypeOK'
    BY <1>3 DEF TypeOK, CheckFull, At, Goto, Labels, cursorVars, readerVars
  <1>4. ASSUME NEW w \in Writers, ClaimBlock(w) PROVE TypeOK'
    <2> Message(w) \in Messages
      BY <1>4, MessageType DEF ClaimBlock, At
    <2>1. claimed' \in Seq(Messages)
      BY <1>4 DEF ClaimBlock, TypeOK
    <2>2. lapped' \in BOOLEAN
      BY <1>4 DEF ClaimBlock, TypeOK
    <2> QED
      BY <1>4, <2>1, <2>2 DEF TypeOK, ClaimBlock, At, Goto, Labels, readerVars
  <1>5. ASSUME NEW w \in Writers, ClaimFails(w) PROVE TypeOK'
    BY <1>5 DEF TypeOK, ClaimFails, At, Goto, Labels, cursorVars, readerVars
  <1>6. ASSUME NEW w \in Writers, WriteBlock(w) PROVE TypeOK'
    <2> Message(w) \in Messages
      BY <1>6, MessageType DEF WriteBlock, At
    <2> QED
      BY <1>6 DEF TypeOK, WriteBlock, At, Goto, Labels, cursorVars, readerVars
  <1>7. ASSUME NEW w \in Writers, StoreWritten(w) PROVE TypeOK'
    BY <1>7 DEF TypeOK, StoreWritten, At, Goto, Labels, cursorVars, readerVars
  <1>8. ASSUME NEW w \in Writers, LoadWriteStart(w) PROVE TypeOK'
    BY <1>8 DEF TypeOK, LoadWriteStart, At, Goto, Labels, cursorVars, readerVars
  <1>9. ASSUME NEW w \in Writers, ClearWritten(w) PROVE TypeOK'
    BY <1>9 DEF TypeOK, ClearWritten, At, Goto, Labels, cursorVars, readerVars
  <1>10. ASSUME NEW w \in Writers, FoundCleared(w) PROVE TypeOK'
    BY <1>10 DEF TypeOK, FoundCleared, At, Goto, Labels, cursorVars, readerVars
  <1>11. ASSUME NEW w \in Writers, AdvanceWriteStart(w) PROVE TypeOK'
    BY <1>11 DEF TypeOK, AdvanceWriteStart, At, Goto, Labels, readerVars
  <1>12. ASSUME NEW w \in Writers, Trigger(w) PROVE TypeOK'
    BY <1>12 DEF TypeOK, Trigger, At, Goto, Labels, cursorVars, readerVars
  <1>13. ASSUME NEW w \in Writers, Kill(w) PROVE TypeOK'
    BY <1>13 DEF TypeOK, Kill, cursorVars, readerVars
  <1>14. CASE SemaphoreWait
    BY <1>14 DEF TypeOK, SemaphoreWait, cursorVars, writerVars
  <1>15. CASE NothingToRead
    BY <1>15 DEF TypeOK, NothingToRead, cursorVars, writerVars
  <1>16. CASE ClaimRead
    BY <1>16 DEF TypeOK, ClaimRead, writerVars
  <1>17. CASE CopyOut
    BY <1>17 DEF TypeOK, CopyOut, cursorVars, writerVars
  <1>18. CASE MarkRead
    BY <1>18 DEF TypeOK, MarkRead, cursorVars, writerVars
  <1>19. CASE AdvanceReadStart
    BY <1>19 DEF TypeOK, AdvanceReadStart, writerVars, readerVars
  <1>20. CASE FinishRead
    BY <1>20 DEF TypeOK, FinishRead, cursorVars, writerVars
  <1>21. CASE UNCHANGED vars
    BY <1>21 DEF TypeOK, vars, cursorVars, writerVars, readerVars
  <1> QED
    BY <1>1, <1>2, <1>3, <1>4, <1>5, <1>6, <1>7, <1>8, <1>9, <1>10, <1>11,
       <1>12, <1>13, <1>14, <1>15, <1>16, <1>17, <1>18, <1>19, <1>20, <1>21
    DEF Next, Write, Read

\* The ring starts with the types it keeps.
LEMMA TypeInit == Init => TypeOK
  <1> SUFFICES ASSUME Init PROVE TypeOK
    OBVIOUS
  <1>1. 0 \in Blocks
    BY RingAssumption DEF Blocks
  <1>2. /\ hasBeenRead \in [Blocks -> BOOLEAN]
        /\ hasBeenWritten \in [Blocks -> BOOLEAN]
    BY DEF Init
  <1>3. /\ data \in [Blocks -> Messages \cup {NoMessage}]
        /\ sent \in [Writers -> 0 .. MaxWrites]
        /\ pc \in [Writers -> Labels]
    BY RingAssumption DEF Init, Labels
  <1> QED
    BY <1>1, <1>2, <1>3 DEF Init, TypeOK

\* Cursors, flags, payloads and locals always have their types.
THEOREM TypeCorrect == Spec => []TypeOK
  BY TypeInit, TypeStep, PTL DEF Spec

-----------------------------------------------------------------------------
(* Arithmetic of the ring. *)

\* Going forward around the ring: a distance is less than N, is zero only for
\* the block itself, and grows or shrinks by one with either of its ends.
LEMMA DistFacts ==
  ASSUME NEW a \in Blocks, NEW b \in Blocks
  PROVE  /\ Dist(a, b) \in 0 .. N - 1
         /\ Dist(a, b) = 0 <=> a = b
         /\ nextIndex[b] # a => Dist(a, nextIndex[b]) = Dist(a, b) + 1
         /\ a # b => Dist(nextIndex[a], b) = Dist(a, b) - 1
  BY RingAssumption DEF Dist, nextIndex, Blocks

\* Distances measured from a common block tell blocks apart and add up.
LEMMA DistAdds ==
  ASSUME NEW a \in Blocks, NEW b \in Blocks, NEW c \in Blocks
  PROVE  /\ Dist(a, b) = Dist(a, c) => b = c
         /\ Dist(a, b) <= Dist(a, c) <=> Dist(a, c) = Dist(a, b) + Dist(b, c)
  BY RingAssumption DEF Dist, Blocks

\* Of a stretch a, u, s, e of the ring the part from s to e lies behind s.
LEMMA Stretch ==
  ASSUME NEW a \in Blocks, NEW u \in Blocks, NEW s \in Blocks, NEW e \in Blocks,
         Dist(a, u) <= Dist(a, s), Dist(a, s) <= Dist(a, e)
  PROVE  /\ Dist(u, s) <= Dist(u, e)
         /\ \A b \in Blocks : InRange(b, s, e) => InRange(b, u, e) /\ ~InRange(b, u, s)
  BY RingAssumption DEF Dist, InRange, Blocks

\* Unless the ring is full, moving its end lengthens every stretch up to it.
LEMMA Longer ==
  ASSUME NEW a \in Blocks, NEW u \in Blocks, NEW e \in Blocks,
         Dist(a, u) <= Dist(a, e), nextIndex[e] # a
  PROVE  Dist(u, nextIndex[e]) = Dist(u, e) + 1
  BY RingAssumption DEF Dist, nextIndex, Blocks

\* The blocks from writeStart on lie behind the first undelivered one.
LEMMA Undelivered ==
  ASSUME TypeOK, CursorOrder, ReaderPosition
  PROVE  /\ FirstUndelivered \in Blocks
         /\ Dist(FirstUndelivered, writeStart) <= Dist(FirstUndelivered, writeEnd)
         /\ \A b \in Blocks : InRange(b, writeStart, writeEnd) =>
                /\ InRange(b, FirstUndelivered, writeEnd)
                /\ ~InRange(b, FirstUndelivered, writeStart)
  <1>1. FirstUndelivered \in Blocks
    BY DEF TypeOK, FirstUndelivered
  <1>2. Dist(readStart, FirstUndelivered) <= Dist(readStart, writeStart)
    <2>1. Dist(readStart, readStart) = 0 /\ Dist(readStart, writeStart) >= 0
      BY RingAssumption DEF TypeOK, Dist, Blocks
    <2> QED
      BY <2>1 DEF CursorOrder, FirstUndelivered
  <1>3. readStart \in Blocks /\ writeStart \in Blocks /\ writeEnd \in Blocks
    BY DEF TypeOK
  <1> QED
    BY <1>1, <1>2, <1>3, Stretch DEF CursorOrder

\* A step that moves neither the reader nor the end of the ring keeps every
\* entry.
LEMMA EntryFrame ==
  ASSUME UNCHANGED <<rpc, readStart, readEnd, claimed, delivered>>
  PROVE  /\ FirstUndelivered' = FirstUndelivered
         /\ \A b \in Blocks : Entry(b)' = Entry(b)
  BY DEF FirstUndelivered, Entry, Dist

-----------------------------------------------------------------------------
(* The inductive step, action by action. *)

Fixed == UNCHANGED <<cursorVars, hasBeenRead, hasBeenWritten, data, block,
                     rpc, rblock, claimed, delivered>>

\* A step of one writer that only moves its own pc, index and count, and neither
\* enters nor leaves the parts of ipc_buffer_write that own a block.
LEMMA QuietStep ==
  ASSUME TypeOK, TypeOK', RingState, Fixed, NEW w \in Writers,
         \A v \in Writers \ {w} : pc'[v] = pc[v] /\ index'[v] = index[v] /\ sent'[v] = sent[v],
         ~Filling(w), ~Filling(w)', pc[w] # "advance", pc'[w] # "advance",
         pc'[w] = "claim" => nextIndex[index'[w]] # readStart,
         pc'[w] = "clear" => index'[w] = writeStart
  PROVE  RingState'
  <1>1. /\ FirstUndelivered' = FirstUndelivered
        /\ \A b \in Blocks : Entry(b)' = Entry(b)
    BY EntryFrame DEF Fixed, cursorVars
  <1>2. CursorOrder' /\ ReaderPosition' /\ Accounted' /\ DeliveredSoFar'
    BY <1>1 DEF RingState, Fixed, cursorVars, CursorOrder, ReaderPosition,
                Accounted, DeliveredSoFar, Dist
  <1>3. Published'
    BY <1>1 DEF RingState, Fixed, cursorVars, Published, InRange, Dist
  <1>4. FillingBlocks'
    <2>1. \A v \in Writers : Filling(v)' => /\ v # w /\ Filling(v)
                                            /\ pc'[v] = pc[v] /\ Message(v)' = Message(v)
      BY DEF Filling, Message
    <2>2. \A b \in Blocks : InRange(b, writeStart, writeEnd)' <=> InRange(b, writeStart, writeEnd)
      BY DEF Fixed, cursorVars, InRange, Dist
    <2> QED
      BY <1>1, <2>1, <2>2 DEF RingState, Fixed, FillingBlocks
  <1>5. WrittenBlocks'
    BY <1>1 DEF RingState, Fixed, cursorVars, WrittenBlocks, InRange, Dist
  <1>6. AdvancingWriter'
    BY <1>1 DEF RingState, Fixed, cursorVars, AdvancingWriter, Filling, TypeOK
  <1>7. FreshIndices'
    BY DEF RingState, Fixed, cursorVars, FreshIndices, InRange, Dist, TypeOK
  <1> QED
    BY <1>2, <1>3, <1>4, <1>5, <1>6, <1>7 DEF RingState

\* ipc_buffer_write claims the block at writeEnd.
LEMMA ClaimBlockStep ==
  ASSUME TypeOK, TypeOK', RingState, NEW w \in Writers, ClaimBlock(w), ~lapped'
  PROVE  RingState'
  <1> USE RingAssumption
  <1>1. /\ index[w] = writeEnd /\ writeEnd' = nextIndex[writeEnd]
        /\ nextIndex[writeEnd] # readStart
    BY DEF ClaimBlock, At, RingState, FreshIndices
  <1>2. /\ pc[w] = "claim" /\ pc' = [pc EXCEPT ![w] = "write"]
        /\ block' = [block EXCEPT ![w] = writeEnd] /\ index' = index /\ sent' = sent
        /\ claimed' = Append(claimed, Message(w))
        /\ UNCHANGED <<readStart, readEnd, writeStart, hasBeenRead, hasBeenWritten,
                       data, rpc, rblock, delivered>>
    BY <1>1 DEF ClaimBlock, At, Goto, readerVars
  <1>3. ~Laps(w, writeEnd)
    BY <1>1 DEF ClaimBlock
  <1>4. /\ FirstUndelivered' = FirstUndelivered
        /\ FirstUndelivered \in Blocks
        /\ Dist(FirstUndelivered, writeStart) <= Dist(FirstUndelivered, writeEnd)
        /\ \A b \in Blocks : InRange(b, writeStart, writeEnd) =>
                InRange(b, FirstUndelivered, writeEnd)
    BY <1>2, Undelivered DEF RingState, FirstUndelivered
  <1>c. /\ readStart \in Blocks /\ readEnd \in Blocks
        /\ writeStart \in Blocks /\ writeEnd \in Blocks
    BY DEF TypeOK
  <1>5. /\ Dist(readStart, writeEnd') = Dist(readStart, writeEnd) + 1
        /\ Dist(writeStart, writeEnd') = Dist(writeStart, writeEnd) + 1
        /\ Dist(FirstUndelivered, writeEnd') = Dist(FirstUndelivered, writeEnd) + 1
    <2>2. Dist(readStart, readStart) = 0 /\ Dist(readStart, writeEnd) \in Nat
      BY <1>c, DistFacts
    <2>3. Dist(readStart, writeStart) <= Dist(readStart, writeEnd)
      BY DEF RingState, CursorOrder
    <2>4. Dist(readStart, FirstUndelivered) <= Dist(readStart, writeEnd)
      <3>1. Dist(readStart, readEnd) <= Dist(readStart, writeEnd)
        BY <1>c, DistFacts DEF RingState, CursorOrder
      <3> QED
        BY <2>2, <3>1 DEF FirstUndelivered
    <2> QED
      BY <1>1, <1>4, <1>c, <2>2, <2>3, <2>4, Longer
  <1>6. \A b \in Blocks : InRange(b, FirstUndelivered, writeEnd) => Entry(b)' = Entry(b)
    <2> SUFFICES ASSUME NEW b \in Blocks, InRange(b, FirstUndelivered, writeEnd)
                 PROVE  Entry(b)' = Entry(b)
      OBVIOUS
    <2>1. Dist(FirstUndelivered, b) \in Nat
      BY <1>4, DistFacts
    <2>2. Len(delivered) + 1 + Dist(FirstUndelivered, b) \in 1 .. Len(claimed)
      BY <2>1 DEF InRange, RingState, Accounted, TypeOK
    <2>3. Dist(FirstUndelivered, b)' = Dist(FirstUndelivered, b)
      BY <1>4 DEF Dist
    <2> QED
      BY <1>2, <2>2, <2>3, MessageType DEF Entry, TypeOK
  <1>e. PICK e \in Blocks : e = writeEnd
    BY DEF TypeOK
  <1>7. Entry(e)' = Message(w)
    <2>1. Dist(FirstUndelivered, e)' = Len(claimed) - Len(delivered)
      BY <1>4, <1>e DEF RingState, Accounted, Dist
    <2>2. Entry(e)' = claimed'[Len(delivered) + 1 + Dist(FirstUndelivered, e)']
      BY <1>2 DEF Entry
    <2> QED
      BY <1>2, <2>1, <2>2, MessageType DEF TypeOK
  <1>8. CursorOrder'
    <2>1. CursorOrder /\ UNCHANGED <<readStart, readEnd, writeStart>>
      BY <1>2 DEF RingState
    <2> QED
      BY <1>5, <1>c, <2>1 DEF CursorOrder, Dist, Blocks
  <1>9. ReaderPosition'
    BY <1>2 DEF RingState, ReaderPosition
  <1>10. Accounted' /\ DeliveredSoFar'
    <2>1. Accounted'
      BY <1>2, <1>4, <1>5 DEF RingState, Accounted, TypeOK
    <2>2. DeliveredSoFar'
      BY <1>2 DEF RingState, DeliveredSoFar, TypeOK
    <2> QED
      BY <2>1, <2>2
  <1>11. Published'
    <2> SUFFICES ASSUME NEW b \in Blocks, InRange(b, FirstUndelivered, writeStart)
                 PROVE  data[b] = Entry(b)'
      BY <1>2, <1>4 DEF Published, InRange, Dist
    <2>1. InRange(b, FirstUndelivered, writeEnd)
      BY <1>4 DEF InRange, Dist, Blocks, TypeOK
    <2> QED
      BY <1>6, <2>1 DEF RingState, Published
  <1>12. FillingBlocks'
    <2>1. InRange(e, writeStart, writeEnd') /\ ~hasBeenWritten[e]
      <3>1. InRange(e, writeStart, writeEnd') /\ ~InRange(e, writeStart, writeEnd)
        BY <1>5, <1>c, <1>e, DistFacts DEF InRange
      <3> QED
        BY <3>1 DEF RingState, WrittenBlocks
    <2>2. ASSUME NEW v \in Writers, NEW b \in Blocks, Filling(v)', block'[v] = b, v # w
          PROVE  /\ Filling(v) /\ block[v] = b /\ b # e
                 /\ InRange(b, writeStart, writeEnd')
                 /\ ~hasBeenWritten[b]
                 /\ Entry(b)' = Message(v)
                 /\ pc'[v] = "store" => data[b] = Message(v)
                 /\ \A x \in Writers : Filling(x) /\ block[x] = b => x = v
      <3>1. Filling(v) /\ block[v] = b /\ pc'[v] = pc[v]
        BY <1>2, <2>2 DEF Filling, TypeOK
      <3>2. /\ InRange(b, writeStart, writeEnd) /\ ~hasBeenWritten[b]
            /\ Entry(b) = Message(v)
            /\ pc[v] = "store" => data[b] = Message(v)
            /\ \A x \in Writers : Filling(x) /\ block[x] = b => x = v
        BY <3>1 DEF RingState, FillingBlocks
      <3>3. InRange(b, writeStart, writeEnd') /\ b # e
        BY <1>5, <1>c, <1>e, <3>2, DistFacts DEF InRange
      <3> QED
        BY <1>4, <1>6, <3>1, <3>2, <3>3
    <2>3. /\ Filling(w)' /\ pc'[w] = "write" /\ block'[w] = e
          /\ \A v \in Writers \ {w} : Filling(v)' => block'[v] = block[v] /\ Filling(v)
      BY <1>2, <1>e DEF Filling, TypeOK
    <2>4. \A v \in Writers : Message(v)' = Message(v)
      BY <1>2 DEF Message
    <2>5. \A b \in Blocks : InRange(b, writeStart, writeEnd)' <=> InRange(b, writeStart, writeEnd')
      BY <1>2 DEF InRange, Dist
    <2>6. \A v \in Writers : block'[v] \in Blocks
      BY DEF TypeOK
    <2> QED
      BY <1>2, <1>7, <2>1, <2>2, <2>3, <2>4, <2>5, <2>6 DEF FillingBlocks
  <1>13. WrittenBlocks'
    <2> SUFFICES ASSUME NEW b \in Blocks, hasBeenWritten[b]
                 PROVE  InRange(b, writeStart, writeEnd') /\ data[b] = Entry(b)'
      BY <1>2 DEF WrittenBlocks, InRange, Dist
    <2>1. InRange(b, writeStart, writeEnd) /\ data[b] = Entry(b)
      BY DEF RingState, WrittenBlocks
    <2> QED
      <3>1. InRange(b, writeStart, writeEnd')
        BY <1>5, <1>c, <2>1, DistFacts DEF InRange
      <3> QED
        BY <1>4, <1>6, <2>1, <3>1
  <1>14. AdvancingWriter'
    <2> SUFFICES ASSUME NEW v \in Writers, NEW b \in Blocks, pc'[v] = "advance", index'[v] = b
                 PROVE  /\ b = writeStart /\ b # writeEnd' /\ ~hasBeenWritten[b]
                        /\ data[b] = Entry(b)'
                        /\ \A x \in Writers : pc'[x] = "advance" => x = v
                        /\ \A x \in Writers : Filling(x)' => block'[x] # b
      BY <1>2 DEF AdvancingWriter
    <2>1. pc[v] = "advance" /\ index[v] = b
      BY <1>2 DEF TypeOK
    <2>2. /\ b = writeStart /\ b # writeEnd /\ ~hasBeenWritten[b] /\ data[b] = Entry(b)
          /\ \A x \in Writers : pc[x] = "advance" => x = v
          /\ \A x \in Writers : Filling(x) => block[x] # b
      BY <2>1 DEF RingState, AdvancingWriter
    <2>3. InRange(b, writeStart, writeEnd) /\ b # writeEnd'
      BY <1>5, <1>c, <2>2, DistFacts DEF InRange
    <2>4. \A x \in Writers : (pc'[x] = "advance" => x = v) /\ (Filling(x)' => block'[x] # b)
      BY <1>2, <2>2 DEF TypeOK, Filling
    <2> QED
      BY <1>4, <1>6, <2>2, <2>3, <2>4
  <1>15. FreshIndices'
    <2> SUFFICES ASSUME NEW v \in Writers
                 PROVE  /\ pc'[v] = "claim" /\ index'[v] = writeEnd' => nextIndex[writeEnd'] # readStart
                        /\ pc'[v] = "clear" /\ index'[v] # writeStart =>
                               ~InRange(index'[v], writeStart, writeEnd')
      BY <1>2 DEF FreshIndices, InRange, Dist
    <2>1. pc'[v] = "claim" => index'[v] # writeEnd'
      BY <1>1, <1>2, <1>3 DEF Laps, TypeOK
    <2>2. ASSUME pc'[v] = "clear", index'[v] # writeStart
          PROVE  ~InRange(index'[v], writeStart, writeEnd')
      <3>1. pc[v] = "clear" /\ index'[v] = index[v] /\ v # w
        BY <1>2, <2>2 DEF TypeOK
      <3>2. ~InRange(index[v], writeStart, writeEnd)
        BY <2>2, <3>1 DEF RingState, FreshIndices
      <3>3. index[v] # writeEnd
        BY <1>3, <2>2, <3>1 DEF Laps
      <3>4. index[v] \in Blocks
        BY DEF TypeOK
      <3>5. Dist(writeStart, index[v]) # Dist(writeStart, writeEnd)
        BY <1>c, <3>3, <3>4, DistAdds
      <3>6. Dist(writeStart, index[v]) \in Nat /\ Dist(writeStart, writeEnd) \in Nat
        BY <1>c, <3>4, DistFacts
      <3> QED
        BY <1>5, <3>1, <3>2, <3>5, <3>6 DEF InRange
    <2> QED
      BY <2>1, <2>2
  <1> QED
    BY <1>8, <1>9, <1>10, <1>11, <1>12, <1>13, <1>14, <1>15 DEF RingState

\* ipc_buffer_do_write fills the block it owns.
LEMMA WriteBlockStep ==
  ASSUME TypeOK, TypeOK', RingState, NEW w \in Writers, WriteBlock(w)
  PROVE  RingState'
  <1>1. PICK b \in Blocks : b = block[w]
    BY DEF TypeOK
  <1>2. /\ pc[w] = "write" /\ pc' = [pc EXCEPT ![w] = "store"]
        /\ data' = [data EXCEPT ![b] = Message(w)]
        /\ UNCHANGED <<readStart, readEnd, writeStart, writeEnd, hasBeenRead, hasBeenWritten,
                       index, block, sent, rpc, rblock, claimed, delivered>>
    BY <1>1 DEF WriteBlock, At, Goto, cursorVars, readerVars
  <1>3. /\ FirstUndelivered' = FirstUndelivered
        /\ \A c \in Blocks : Entry(c)' = Entry(c)
    BY <1>2, EntryFrame
  <1>4. Filling(w) /\ \A v \in Writers : Filling(v)' <=> Filling(v)
    BY <1>2 DEF Filling, TypeOK
  <1>5. /\ InRange(b, writeStart, writeEnd) /\ ~hasBeenWritten[b]
        /\ Entry(b) = Message(w)
        /\ \A v \in Writers : Filling(v) /\ block[v] = b => v = w
    BY <1>1, <1>4 DEF RingState, FillingBlocks
  <1>6. ~InRange(b, FirstUndelivered, writeStart)
    BY <1>5, Undelivered DEF RingState
  <1>7. CursorOrder' /\ ReaderPosition' /\ Accounted' /\ DeliveredSoFar'
    BY <1>2, <1>3 DEF RingState, CursorOrder, ReaderPosition, Accounted, DeliveredSoFar, Dist
  <1>8. Published'
    BY <1>2, <1>3, <1>6 DEF RingState, Published, InRange, Dist, TypeOK
  <1>9. FillingBlocks'
    <2>1. ASSUME NEW v \in Writers, NEW c \in Blocks, Filling(v), block[v] = c
          PROVE  /\ InRange(c, writeStart, writeEnd) /\ ~hasBeenWritten[c]
                 /\ Entry(c) = Message(v)
                 /\ pc'[v] = "store" => data'[c] = Message(v)
                 /\ \A x \in Writers : Filling(x) /\ block[x] = c => x = v
      <3>1. /\ InRange(c, writeStart, writeEnd) /\ ~hasBeenWritten[c]
            /\ Entry(c) = Message(v)
            /\ pc[v] = "store" => data[c] = Message(v)
            /\ \A x \in Writers : Filling(x) /\ block[x] = c => x = v
        BY <2>1 DEF RingState, FillingBlocks
      <3> QED
        BY <1>1, <1>2, <1>4, <1>5, <2>1, <3>1 DEF TypeOK
    <2>2. /\ \A v \in Writers : Message(v)' = Message(v)
          /\ \A c \in Blocks : InRange(c, writeStart, writeEnd)' <=> InRange(c, writeStart, writeEnd)
      BY <1>2 DEF Message, InRange, Dist
    <2> QED
      BY <1>2, <1>3, <1>4, <2>1, <2>2 DEF FillingBlocks
  <1>10. WrittenBlocks'
    BY <1>2, <1>3, <1>5 DEF RingState, WrittenBlocks, InRange, Dist, TypeOK
  <1>11. AdvancingWriter'
    <2>1. ASSUME NEW v \in Writers, pc'[v] = "advance"
          PROVE  pc[v] = "advance"
      BY <1>2, <2>1 DEF TypeOK
    <2> QED
      BY <1>1, <1>2, <1>3, <1>4, <2>1 DEF RingState, AdvancingWriter, TypeOK
  <1>12. FreshIndices'
    BY <1>2 DEF RingState, FreshIndices, InRange, Dist, TypeOK
  <1> QED
    BY <1>7, <1>8, <1>9, <1>10, <1>11, <1>12 DEF RingState

\* ipc_buffer_do_write marks its block as written.
LEMMA StoreWrittenStep ==
  ASSUME TypeOK, TypeOK', RingState, NEW w \in Writers, StoreWritten(w)
  PROVE  RingState'
  <1>1. PICK b \in Blocks : b = block[w]
    BY DEF TypeOK
  <1>2. /\ pc[w] = "store" /\ pc' = [pc EXCEPT ![w] = "loadStart"]
        /\ hasBeenWritten' = [hasBeenWritten EXCEPT ![b] = TRUE]
        /\ UNCHANGED <<readStart, readEnd, writeStart, writeEnd, hasBeenRead, data,
                       index, block, sent, rpc, rblock, claimed, delivered>>
    BY <1>1 DEF StoreWritten, At, Goto, cursorVars, readerVars
  <1>3. /\ FirstUndelivered' = FirstUndelivered
        /\ \A c \in Blocks : Entry(c)' = Entry(c)
    BY <1>2, EntryFrame
  <1>4. /\ Filling(w) /\ \A v \in Writers : Filling(v)' => Filling(v) /\ v # w
    BY <1>2 DEF Filling, TypeOK
  <1>5. /\ InRange(b, writeStart, writeEnd)
        /\ data[b] = Entry(b)
        /\ \A v \in Writers : Filling(v) /\ block[v] = b => v = w
    BY <1>1, <1>2, <1>4 DEF RingState, FillingBlocks
  <1>6. \A c \in Blocks : hasBeenWritten'[c] <=> (c = b \/ hasBeenWritten[c])
    BY <1>2 DEF TypeOK
  <1>7. CursorOrder' /\ ReaderPosition' /\ Accounted' /\ DeliveredSoFar' /\ Published'
    BY <1>2, <1>3 DEF RingState, CursorOrder, ReaderPosition, Accounted, DeliveredSoFar,
                      Published, InRange, Dist
  <1>8. FillingBlocks'
    <2>1. /\ \A v \in Writers : Message(v)' = Message(v)
          /\ \A v \in Writers : Filling(v)' => pc'[v] = pc[v]
          /\ \A c \in Blocks : InRange(c, writeStart, writeEnd)' <=> InRange(c, writeStart, writeEnd)
      BY <1>2, <1>4 DEF Message, InRange, Dist, TypeOK
    <2>2. FillingBlocks
      BY DEF RingState
    <2> QED
      BY <1>2, <1>3, <1>4, <1>5, <1>6, <2>1, <2>2 DEF FillingBlocks
  <1>9. WrittenBlocks'
    BY <1>2, <1>3, <1>5, <1>6 DEF RingState, WrittenBlocks, InRange, Dist
  <1>10. AdvancingWriter'
    <2>1. \A v \in Writers : pc'[v] = "advance" => pc[v] = "advance"
      BY <1>2 DEF TypeOK
    <2> QED
      BY <1>1, <1>2, <1>3, <1>4, <1>6, <2>1 DEF RingState, AdvancingWriter
  <1>11. FreshIndices'
    BY <1>2 DEF RingState, FreshIndices, InRange, Dist, TypeOK
  <1> QED
    BY <1>7, <1>8, <1>9, <1>10, <1>11 DEF RingState

\* The flag that ipc_buffer_do_write clears is the one at writeStart: its index
\* cannot be out of date without a lap.
LEMMA ClearWrittenStep ==
  ASSUME TypeOK, TypeOK', RingState, NEW w \in Writers, ClearWritten(w)
  PROVE  RingState'
  <1>1. PICK b \in Blocks : b = index[w]
    BY DEF TypeOK
  <1>2. /\ pc[w] = "clear" /\ pc' = [pc EXCEPT ![w] = "advance"]
        /\ hasBeenWritten[b]
        /\ hasBeenWritten' = [hasBeenWritten EXCEPT ![b] = FALSE]
        /\ UNCHANGED <<readStart, readEnd, writeStart, writeEnd, hasBeenRead, data,
                       index, block, sent, rpc, rblock, claimed, delivered>>
    BY <1>1 DEF ClearWritten, At, Goto, cursorVars, readerVars
  <1>3. /\ FirstUndelivered' = FirstUndelivered
        /\ \A c \in Blocks : Entry(c)' = Entry(c)
    BY <1>2, EntryFrame
  <1>4. InRange(b, writeStart, writeEnd) /\ data[b] = Entry(b)
    BY <1>2 DEF RingState, WrittenBlocks
  <1>5. b = writeStart
    BY <1>1, <1>2, <1>4 DEF RingState, FreshIndices
  <1>6. b # writeEnd
    <2>1. Dist(writeStart, writeEnd) > 0
      BY <1>4, <1>5, DistFacts DEF InRange, TypeOK
    <2> QED
      BY <1>5, <2>1, DistFacts DEF TypeOK
  <1>7. \A c \in Blocks : hasBeenWritten'[c] <=> (c # b /\ hasBeenWritten[c])
    BY <1>2 DEF TypeOK
  <1>8. \A v \in Writers : (Filling(v)' <=> Filling(v)) /\ (Filling(v) => pc'[v] = pc[v])
    BY <1>2 DEF Filling, TypeOK
  <1>9. CursorOrder' /\ ReaderPosition' /\ Accounted' /\ DeliveredSoFar' /\ Published'
    BY <1>2, <1>3 DEF RingState, CursorOrder, ReaderPosition, Accounted, DeliveredSoFar,
                      Published, InRange, Dist
  <1>10. FillingBlocks'
    <2>1. /\ \A v \in Writers : Message(v)' = Message(v)
          /\ \A c \in Blocks : InRange(c, writeStart, writeEnd)' <=> InRange(c, writeStart, writeEnd)
      BY <1>2 DEF Message, InRange, Dist
    <2>2. FillingBlocks
      BY DEF RingState
    <2> QED
      BY <1>2, <1>3, <1>7, <1>8, <2>1, <2>2 DEF FillingBlocks
  <1>11. WrittenBlocks'
    BY <1>2, <1>3, <1>7 DEF RingState, WrittenBlocks, InRange, Dist
  <1>12. AdvancingWriter'
    <2>1. \A v \in Writers : pc'[v] = "advance" => v = w
      <3>1. \A v \in Writers : pc[v] # "advance"
        BY <1>2, <1>5 DEF RingState, AdvancingWriter, TypeOK
      <3> QED
        BY <1>2, <3>1 DEF TypeOK
    <2>2. \A v \in Writers : Filling(v) => block[v] # b
      BY <1>2 DEF RingState, FillingBlocks
    <2>3. ASSUME NEW v \in Writers, NEW c \in Blocks, pc'[v] = "advance", index'[v] = c
          PROVE  v = w /\ c = b
      BY <1>1, <1>2, <2>1, <2>3
    <2>4. /\ b = writeStart' /\ b # writeEnd' /\ ~hasBeenWritten'[b] /\ data'[b] = Entry(b)'
      BY <1>2, <1>3, <1>4, <1>5, <1>6, <1>7
    <2>5. \A v \in Writers : Filling(v)' => block'[v] # b
      BY <1>2, <1>8, <2>2
    <2> QED
      BY Zenon, <2>1, <2>3, <2>4, <2>5 DEF AdvancingWriter
  <1>13. FreshIndices'
    BY <1>2 DEF RingState, FreshIndices, InRange, Dist, TypeOK
  <1> QED
    BY <1>9, <1>10, <1>11, <1>12, <1>13 DEF RingState

\* ipc_buffer_do_write publishes the block at writeStart.
LEMMA AdvanceWriteStartStep ==
  ASSUME TypeOK, TypeOK', RingState, NEW w \in Writers, AdvanceWriteStart(w)
  PROVE  RingState'
  <1>1. PICK b \in Blocks : b = index[w]
    BY DEF TypeOK
  <1>2. /\ b = writeStart /\ b # writeEnd
        /\ ~hasBeenWritten[b] /\ data[b] = Entry(b)
        /\ \A v \in Writers : pc[v] = "advance" => v = w
        /\ \A v \in Writers : Filling(v) => block[v] # b
    BY <1>1 DEF AdvanceWriteStart, At, RingState, AdvancingWriter
  <1>3. /\ pc[w] = "advance" /\ pc' = [pc EXCEPT ![w] = "loadStart"]
        /\ writeStart' = nextIndex[b]
        /\ UNCHANGED <<readStart, readEnd, writeEnd, hasBeenRead, hasBeenWritten, data,
                       index, block, sent, rpc, rblock, claimed, delivered>>
    BY <1>1, <1>2 DEF AdvanceWriteStart, At, Goto, readerVars
  <1>4. /\ FirstUndelivered' = FirstUndelivered
        /\ \A c \in Blocks : Entry(c)' = Entry(c)
    BY <1>3, EntryFrame
  <1>c. /\ readStart \in Blocks /\ readEnd \in Blocks /\ writeEnd \in Blocks
        /\ FirstUndelivered \in Blocks
    BY DEF TypeOK, FirstUndelivered
  <1>5. /\ nextIndex[b] # readStart
        /\ Dist(readStart, nextIndex[b]) = Dist(readStart, b) + 1
        /\ Dist(readStart, b) < Dist(readStart, writeEnd)
    BY <1>2, <1>c, RingAssumption DEF RingState, CursorOrder, Dist, nextIndex, Blocks
  <1>6. Dist(nextIndex[b], writeEnd) = Dist(b, writeEnd) - 1
    BY <1>2, <1>c, DistFacts
  <1>7. \A c \in Blocks :
            InRange(c, b, writeEnd) /\ c # b <=> InRange(c, writeStart', writeEnd)
    BY <1>2, <1>3, <1>c, RingAssumption DEF InRange, Dist, nextIndex, Blocks
  <1>8. \A v \in Writers :
            /\ Filling(v)' <=> Filling(v)
            /\ Filling(v) => pc'[v] = pc[v]
            /\ pc'[v] # "advance"
    BY <1>2, <1>3 DEF Filling, TypeOK
  <1>9. CursorOrder'
    <2>1. CursorOrder
      BY DEF RingState
    <2> QED
      BY <1>2, <1>3, <1>5, <1>c, <2>1, RingAssumption DEF CursorOrder, Dist, nextIndex, Blocks
  <1>10. ReaderPosition' /\ Accounted' /\ DeliveredSoFar'
    BY <1>3, <1>4, <1>5 DEF RingState, ReaderPosition, Accounted, DeliveredSoFar, Dist
  <1>11. Published'
    <2> SUFFICES ASSUME NEW c \in Blocks, InRange(c, FirstUndelivered, writeStart')
                 PROVE  data[c] = Entry(c)
      BY <1>3, <1>4 DEF Published, InRange, Dist
    <2>1. Dist(FirstUndelivered, nextIndex[b]) = Dist(FirstUndelivered, b) + 1
      <3>1. Dist(readStart, FirstUndelivered) <= Dist(readStart, b)
        <4>1. Dist(readStart, readStart) = 0 /\ Dist(readStart, b) >= 0
          BY <1>c, DistFacts
        <4> QED
          BY <1>2, <4>1 DEF RingState, CursorOrder, FirstUndelivered
      <3> QED
        BY <1>5, <1>c, <3>1, Longer
    <2>2. c = b \/ InRange(c, FirstUndelivered, b)
      <3>1. /\ Dist(FirstUndelivered, c) \in Nat /\ Dist(FirstUndelivered, b) \in Nat
            /\ Dist(FirstUndelivered, c) = Dist(FirstUndelivered, b) => c = b
        BY <1>c, DistFacts, DistAdds
      <3> QED
        BY <1>3, <2>1, <3>1 DEF InRange
    <2> QED
      BY <1>2, <2>2 DEF RingState, Published
  <1>12. FillingBlocks'
    <2>1. /\ \A v \in Writers : Message(v)' = Message(v)
          /\ \A c \in Blocks : InRange(c, writeStart, writeEnd)' <=> InRange(c, writeStart', writeEnd)
      BY <1>3 DEF Message, InRange, Dist
    <2>2. FillingBlocks
      BY DEF RingState
    <2> QED
      BY <1>2, <1>3, <1>4, <1>7, <1>8, <2>1, <2>2 DEF FillingBlocks
  <1>13. WrittenBlocks'
    <2>1. \A c \in Blocks : InRange(c, writeStart, writeEnd)' <=> InRange(c, writeStart', writeEnd)
      BY <1>3 DEF InRange, Dist
    <2> QED
      BY <1>2, <1>3, <1>4, <1>7, <2>1 DEF RingState, WrittenBlocks
  <1>14. AdvancingWriter'
    BY <1>8 DEF AdvancingWriter
  <1>15. FreshIndices'
    <2> SUFFICES ASSUME NEW v \in Writers
                 PROVE  /\ pc'[v] = "claim" /\ index[v] = writeEnd => nextIndex[writeEnd] # readStart
                        /\ pc'[v] = "clear" => ~InRange(index[v], writeStart', writeEnd)
      BY <1>3 DEF FreshIndices, InRange, Dist
    <2>1. pc'[v] \in {"claim", "clear"} => pc[v] = pc'[v]
      BY <1>3 DEF TypeOK
    <2>2. index[v] \in Blocks
      BY DEF TypeOK
    <2> QED
      BY <1>2, <1>7, <2>1, <2>2 DEF RingState, FreshIndices
  <1> QED
    BY <1>9, <1>10, <1>11, <1>12, <1>13, <1>14, <1>15 DEF RingState

-----------------------------------------------------------------------------
(* The reader. *)

\* A step of the reader that moves no writer, touches no payload and keeps the
\* first undelivered block: only the order of the cursors and the reader's own
\* position have to be looked at.
LEMMA ReaderStep ==
  ASSUME TypeOK, TypeOK', RingState,
         UNCHANGED <<writeStart, writeEnd, hasBeenWritten, data, writerVars, claimed, delivered>>,
         FirstUndelivered' = FirstUndelivered, CursorOrder', ReaderPosition',
         nextIndex[writeEnd] # readStart => nextIndex[writeEnd] # readStart'
  PROVE  RingState'
  <1>1. \A b \in Blocks : Entry(b)' = Entry(b)
    BY DEF Entry, Dist
  <1>2. Accounted' /\ DeliveredSoFar' /\ Published'
    BY <1>1 DEF RingState, Accounted, DeliveredSoFar, Published, InRange, Dist
  <1>3. FillingBlocks' /\ WrittenBlocks'
    BY <1>1 DEF RingState, FillingBlocks, WrittenBlocks, Filling, Message, InRange, Dist, writerVars
  <1>4. AdvancingWriter' /\ FreshIndices'
    BY <1>1 DEF RingState, AdvancingWriter, FreshIndices, Filling, InRange, Dist, writerVars
  <1> QED
    BY <1>2, <1>3, <1>4 DEF RingState

\* ipc_buffer_read takes the block at readEnd.
LEMMA ClaimReadStep ==
  ASSUME TypeOK, TypeOK', RingState, ClaimRead
  PROVE  RingState'
  <1>1. /\ rpc = "read" /\ rpc' = "copy" /\ readEnd = readStart /\ readStart # writeStart
        /\ rblock' = readStart /\ readEnd' = nextIndex[readStart]
        /\ UNCHANGED <<readStart, writeStart, writeEnd, hasBeenRead, hasBeenWritten, data,
                       writerVars, claimed, delivered>>
    BY DEF ClaimRead, RingState, ReaderPosition
  <1>2. CursorOrder'
    <2>1. Dist(readStart, nextIndex[readStart]) <= Dist(readStart, writeStart)
      BY <1>1, RingAssumption DEF TypeOK, Dist, nextIndex, Blocks
    <2> QED
      BY <1>1, <2>1 DEF RingState, CursorOrder, Dist
  <1>3. ReaderPosition'
    BY <1>1 DEF RingState, ReaderPosition
  <1>4. FirstUndelivered' = FirstUndelivered
    BY <1>1 DEF FirstUndelivered
  <1> QED
    BY <1>1, <1>2, <1>3, <1>4, ReaderStep

\* ipc_buffer_read copies a packet out: what it delivers was published in the
\* block, and every later entry moves up by one.
LEMMA CopyOutStep ==
  ASSUME TypeOK, TypeOK', RingState, CopyOut
  PROVE  RingState'
  <1>1. PICK b \in Blocks : b = readStart
    BY DEF TypeOK
  <1>2. /\ rpc = "copy" /\ rpc' = "mark" /\ rblock = b /\ readEnd = nextIndex[b] /\ b # writeStart
        /\ delivered' = Append(delivered, data[b])
        /\ FirstUndelivered = b /\ FirstUndelivered' = readEnd
        /\ UNCHANGED <<readStart, readEnd, writeStart, writeEnd, hasBeenRead, hasBeenWritten,
                       data, pc, index, block, sent, claimed, rblock>>
    BY <1>1 DEF CopyOut, RingState, ReaderPosition, FirstUndelivered, cursorVars, writerVars
  <1>c. writeStart \in Blocks /\ writeEnd \in Blocks /\ readEnd \in Blocks
    BY DEF TypeOK
  <1>3. /\ Dist(b, b) = 0 /\ Dist(b, writeStart) > 0
        /\ Dist(b, writeStart) <= Dist(b, writeEnd) /\ b # writeEnd
        /\ Dist(b, writeEnd) \in Nat /\ Dist(b, writeEnd) > 0
    <2>1. Dist(b, writeStart) <= Dist(b, writeEnd)
      BY <1>1 DEF RingState, CursorOrder
    <2>2. /\ Dist(b, b) \in 0 .. N - 1 /\ (Dist(b, b) = 0 <=> b = b)
          /\ Dist(b, writeStart) \in 0 .. N - 1 /\ (Dist(b, writeStart) = 0 <=> b = writeStart)
          /\ Dist(b, writeEnd) \in 0 .. N - 1 /\ (Dist(b, writeEnd) = 0 <=> b = writeEnd)
      BY <1>c, DistFacts
    <2> QED
      BY <1>2, <2>1, <2>2, RingAssumption
  <1>4. /\ data[b] = claimed[Len(delivered) + 1]
        /\ Len(delivered) + 1 <= Len(claimed)
    <2>1. data[b] = Entry(b)
      BY <1>2, <1>3 DEF RingState, Published, InRange
    <2>0. Len(claimed) \in Nat /\ Len(delivered) \in Nat
      BY DEF TypeOK
    <2>2. Entry(b) = claimed[Len(delivered) + 1]
      <3>1. Entry(b) = claimed[Len(delivered) + 1 + Dist(b, b)]
        BY <1>2 DEF Entry
      <3>2. Len(delivered) + 1 + Dist(b, b) = Len(delivered) + 1
        BY <1>3, <2>0
      <3> QED
        BY <3>1, <3>2
    <2>3. Dist(b, writeEnd) = Len(claimed) - Len(delivered)
      <3>1. Accounted
        BY DEF RingState
      <3> QED
        BY <1>2, <2>0, <3>1 DEF Accounted
    <2>4. Dist(b, writeEnd) > 0
      BY <1>3
    <2>5. Len(delivered) + 1 <= Len(claimed)
      BY <2>0, <2>3, <2>4
    <2> QED
      BY <2>1, <2>2, <2>5
  <1>5. /\ Len(delivered') = Len(delivered) + 1
        /\ delivered'[Len(delivered) + 1] = data[b]
        /\ \A i \in 1 .. Len(delivered) : delivered'[i] = delivered[i]
        /\ Len(delivered) \in Nat
    BY <1>2 DEF TypeOK
  <1>6. \A c \in Blocks : c # b => Entry(c)' = Entry(c)
    <2> SUFFICES ASSUME NEW c \in Blocks, c # b PROVE Entry(c)' = Entry(c)
      OBVIOUS
    <2>1. Dist(nextIndex[b], c) = Dist(b, c) - 1 /\ Dist(b, c) \in Nat
      BY DistFacts
    <2>2. Entry(c)' = claimed'[Len(delivered') + 1 + Dist(nextIndex[b], c)]
      BY <1>2 DEF Entry, Dist
    <2>3. Entry(c) = claimed[Len(delivered) + 1 + Dist(b, c)]
      BY <1>2 DEF Entry
    <2>4. Len(delivered') + 1 + Dist(nextIndex[b], c) = Len(delivered) + 1 + Dist(b, c)
      BY <1>5, <2>1
    <2> QED
      BY <1>2, <2>2, <2>3, <2>4
  <1>7. CursorOrder' /\ ReaderPosition'
    BY <1>2 DEF RingState, CursorOrder, ReaderPosition, Dist
  <1>8. Accounted'
    <2>1. Dist(FirstUndelivered', writeEnd') = Dist(b, writeEnd) - 1
      BY <1>2, <1>3, <1>c, DistFacts
    <2>2. Dist(b, writeEnd) = Len(claimed) - Len(delivered)
      BY <1>2 DEF RingState, Accounted
    <2> QED
      BY <1>2, <1>3, <1>5, <2>1, <2>2 DEF Accounted, TypeOK
  <1>9. DeliveredSoFar'
    BY <1>2, <1>4, <1>5 DEF RingState, DeliveredSoFar, TypeOK
  <1>10. Published'
    <2> SUFFICES ASSUME NEW c \in Blocks, InRange(c, nextIndex[b], writeStart)
                 PROVE  data[c] = Entry(c)'
      BY <1>2 DEF Published, InRange, Dist
    <2>1. c # b /\ InRange(c, b, writeStart)
      BY <1>2, <1>c, RingAssumption DEF InRange, Dist, nextIndex, Blocks
    <2> QED
      BY <1>2, <1>6, <2>1 DEF RingState, Published
  <1>11. \A c \in Blocks : InRange(c, writeStart, writeEnd) => c # b
    <2>1. FirstUndelivered = b
      BY <1>2
    <2>2. InRange(b, b, writeStart)
      BY <1>3 DEF InRange
    <2> QED
      BY <2>1, <2>2, Undelivered DEF RingState
  <1>12. \A c \in Blocks : InRange(c, writeStart, writeEnd)' <=> InRange(c, writeStart, writeEnd)
    BY <1>2 DEF InRange, Dist
  <1>13. FillingBlocks'
    BY <1>2, <1>6, <1>11, <1>12 DEF RingState, FillingBlocks, Filling, Message
  <1>14. WrittenBlocks'
    BY <1>2, <1>6, <1>11, <1>12 DEF RingState, WrittenBlocks
  <1>15. AdvancingWriter'
    BY <1>2, <1>6 DEF RingState, AdvancingWriter, Filling
  <1>16. FreshIndices'
    BY <1>2 DEF RingState, FreshIndices, InRange, Dist
  <1> QED
    BY <1>7, <1>8, <1>9, <1>10, <1>13, <1>14, <1>15, <1>16 DEF RingState

\* ipc_buffer_do_read gives the block back and moves readStart.
LEMMA AdvanceReadStartStep ==
  ASSUME TypeOK, TypeOK', RingState, AdvanceReadStart
  PROVE  RingState'
  <1>1. /\ rpc = "advance" /\ readEnd = nextIndex[readStart] /\ readStart # writeStart
        /\ readStart' = nextIndex[readStart]
        /\ hasBeenRead' = [hasBeenRead EXCEPT ![readStart] = FALSE]
        /\ UNCHANGED <<readEnd, writeStart, writeEnd, hasBeenWritten, data, writerVars,
                       claimed, delivered, rpc, rblock>>
    BY DEF AdvanceReadStart, RingState, ReaderPosition, TypeOK, readerVars
  <1>c. /\ readStart \in Blocks /\ writeStart \in Blocks /\ writeEnd \in Blocks
        /\ Dist(readStart, writeStart) <= Dist(readStart, writeEnd)
    BY DEF TypeOK, RingState, CursorOrder
  <1>2. CursorOrder'
    <2>1. /\ Dist(nextIndex[readStart], nextIndex[readStart]) = 0
          /\ Dist(nextIndex[readStart], writeStart) >= 0
          /\ Dist(nextIndex[readStart], writeStart) <= Dist(nextIndex[readStart], writeEnd)
      BY <1>1, <1>c, RingAssumption DEF Dist, nextIndex, Blocks
    <2> QED
      BY <1>1, <2>1 DEF CursorOrder, Dist
  <1>3. ReaderPosition'
    BY <1>1 DEF RingState, ReaderPosition, TypeOK
  <1>4. FirstUndelivered' = FirstUndelivered
    BY <1>1 DEF FirstUndelivered
  <1>5. nextIndex[writeEnd] # readStart'
    BY <1>1, <1>c, RingAssumption DEF Dist, nextIndex, Blocks
  <1> QED
    BY <1>1, <1>2, <1>3, <1>4, <1>5, ReaderStep

-----------------------------------------------------------------------------
(* The theorems. *)

\* Every step that laps nobody keeps the state of the ring.
LEMMA RingStep ==
  ASSUME TypeOK, TypeOK', RingState, [Next]_vars, ~lapped'
  PROVE  RingState'
  <1>1. ASSUME NEW w \in Writers, BeginWrite(w) PROVE RingState'
    BY <1>1, QuietStep DEF BeginWrite, At, Goto, Fixed, cursorVars, readerVars, Filling, TypeOK
  <1>2. ASSUME NEW w \in Writers, LoadWriteEnd(w) PROVE RingState'
    BY <1>2, QuietStep DEF LoadWriteEnd, At, Goto, Fixed, cursorVars, readerVars, Filling, TypeOK
  <1>3. ASSUME NEW w \in Writers, CheckFull(w) PROVE RingState'
    <2>1. pc'[w] \in {"load", "idle", "claim"} /\ pc[w] = "check"
      BY <1>3 DEF CheckFull, At, Goto, TypeOK
    <2>2. pc'[w] = "claim" => nextIndex[index[w]] # readStart
      BY <1>3 DEF CheckFull, At, Goto, RingFull, TypeOK
    <2>3. Fixed /\ UNCHANGED <<index, sent>> /\ \A v \in Writers \ {w} : pc'[v] = pc[v]
      BY <1>3 DEF CheckFull, Goto, Fixed, cursorVars, readerVars, TypeOK
    <2> QED
      BY <2>1, <2>2, <2>3, QuietStep DEF Filling
  <1>4. ASSUME NEW w \in Writers, ClaimFails(w) PROVE RingState'
    BY <1>4, QuietStep DEF ClaimFails, At, Goto, Fixed, cursorVars, readerVars, Filling, TypeOK
  <1>5. ASSUME NEW w \in Writers, LoadWriteStart(w) PROVE RingState'
    BY <1>5, QuietStep DEF LoadWriteStart, At, Goto, Fixed, cursorVars, readerVars, Filling, TypeOK
  <1>6. ASSUME NEW w \in Writers, FoundCleared(w) PROVE RingState'
    BY <1>6, QuietStep DEF FoundCleared, At, Goto, Fixed, cursorVars, readerVars, Filling, TypeOK
  <1>7. ASSUME NEW w \in Writers, Trigger(w) PROVE RingState'
    BY <1>7, QuietStep DEF Trigger, At, Goto, Fixed, cursorVars, readerVars, Filling, TypeOK
  <1>8. ASSUME UNCHANGED <<cursorVars, hasBeenRead, hasBeenWritten, data, pc, index, block, sent,
                           rpc, rblock, claimed, delivered>>
        PROVE  RingState'
    <2>1. /\ FirstUndelivered' = FirstUndelivered
          /\ \A b \in Blocks : Entry(b)' = Entry(b)
      BY <1>8, EntryFrame DEF cursorVars
    <2>2. CursorOrder' /\ ReaderPosition' /\ Accounted' /\ DeliveredSoFar' /\ Published'
      BY <1>8, <2>1 DEF RingState, cursorVars, CursorOrder, ReaderPosition, Accounted,
                        DeliveredSoFar, Published, InRange, Dist
    <2>3. FillingBlocks' /\ WrittenBlocks'
      BY <1>8, <2>1 DEF RingState, cursorVars, FillingBlocks, WrittenBlocks, Filling, Message,
                        InRange, Dist
    <2>4. AdvancingWriter' /\ FreshIndices'
      BY <1>8, <2>1 DEF RingState, cursorVars, AdvancingWriter, FreshIndices, Filling,
                        InRange, Dist
    <2> QED
      BY <2>2, <2>3, <2>4 DEF RingState
  <1>9. ASSUME NEW w \in Writers, Kill(w) PROVE RingState'
    BY <1>8, <1>9 DEF Kill, readerVars
  <1>10. CASE SemaphoreWait \/ NothingToRead
    <2>1. /\ rpc \in {"wait", "read"} /\ rpc' \in {"wait", "read"}
          /\ UNCHANGED <<readStart, readEnd, writeStart, writeEnd, hasBeenRead, hasBeenWritten,
                         data, writerVars, claimed, delivered, rblock>>
      BY <1>10 DEF SemaphoreWait, NothingToRead, cursorVars
    <2>2. CursorOrder' /\ ReaderPosition' /\ FirstUndelivered' = FirstUndelivered
      BY <2>1 DEF RingState, CursorOrder, ReaderPosition, FirstUndelivered, Dist
    <2> QED
      BY <2>1, <2>2, ReaderStep
  <1>11. CASE MarkRead
    <2>1. /\ rpc = "mark" /\ rpc' = "advance" /\ rblock = readStart
          /\ hasBeenRead' = [hasBeenRead EXCEPT ![readStart] = TRUE]
          /\ UNCHANGED <<readStart, readEnd, writeStart, writeEnd, hasBeenWritten,
                         data, writerVars, claimed, delivered, rblock>>
      BY <1>11 DEF MarkRead, RingState, ReaderPosition, cursorVars
    <2>2. readEnd # readStart
      BY <2>1, RingAssumption DEF RingState, ReaderPosition, TypeOK, nextIndex, Blocks
    <2>3. ReaderPosition'
      BY <2>1, <2>2 DEF RingState, ReaderPosition, TypeOK
    <2>4. CursorOrder' /\ FirstUndelivered' = FirstUndelivered
      BY <2>1 DEF RingState, CursorOrder, FirstUndelivered, Dist
    <2> QED
      BY <2>1, <2>3, <2>4, ReaderStep
  <1>12. CASE FinishRead
    <2>1. /\ rpc = "advance" /\ rpc' = "read" /\ readEnd = readStart
          /\ UNCHANGED <<readStart, readEnd, writeStart, writeEnd, hasBeenRead, hasBeenWritten,
                         data, writerVars, claimed, delivered, rblock>>
      BY <1>12 DEF FinishRead, RingState, ReaderPosition, cursorVars, TypeOK
    <2>2. CursorOrder' /\ ReaderPosition' /\ FirstUndelivered' = FirstUndelivered
      BY <2>1 DEF RingState, CursorOrder, ReaderPosition, FirstUndelivered, Dist
    <2> QED
      BY <2>1, <2>2, ReaderStep
  <1>13. CASE UNCHANGED vars
    BY <1>8, <1>13 DEF vars, writerVars, readerVars
  <1> QED
    BY <1>1, <1>2, <1>3, <1>4, <1>5, <1>6, <1>7, <1>9, <1>10, <1>11, <1>12, <1>13,
       ClaimBlockStep, WriteBlockStep, StoreWrittenStep, ClearWrittenStep,
       AdvanceWriteStartStep, ClaimReadStep, CopyOutStep, AdvanceReadStartStep
    DEF Next, Write, Read

\* Once the ring has been lapped it stays so.
LEMMA LappedStays ==
  ASSUME [Next]_vars, ~lapped'
  PROVE  ~lapped
  BY DEF Next, Write, Read, vars, BeginWrite, LoadWriteEnd, CheckFull, ClaimBlock, ClaimFails,
         WriteBlock, StoreWritten, LoadWriteStart, ClearWritten, FoundCleared,
         AdvanceWriteStart, Trigger, Kill, SemaphoreWait, NothingToRead, ClaimRead, CopyOut,
         MarkRead, AdvanceReadStart, FinishRead

\* The ring of ipc_buffer_init is in the state the invariant describes.
LEMMA RingInit == Init => RingState
  <1> SUFFICES ASSUME Init PROVE RingState
    OBVIOUS
  <1>1. 0 \in Blocks /\ Dist(0, 0) = 0
    BY RingAssumption DEF Blocks, Dist
  <1>2. \A b \in Blocks : ~hasBeenRead[b] /\ ~hasBeenWritten[b] /\ Dist(0, b) \in Nat
    BY <1>1, DistFacts DEF Init
  <1>3. CursorOrder /\ ReaderPosition /\ Accounted /\ DeliveredSoFar
    BY <1>1, <1>2 DEF Init, CursorOrder, ReaderPosition, Accounted, DeliveredSoFar, FirstUndelivered
  <1>4. Published
    BY <1>1, <1>2 DEF Init, Published, InRange, FirstUndelivered
  <1>5. FillingBlocks /\ WrittenBlocks /\ AdvancingWriter /\ FreshIndices
    BY <1>2 DEF Init, FillingBlocks, WrittenBlocks, AdvancingWriter, FreshIndices, Filling
  <1> QED
    BY <1>3, <1>4, <1>5 DEF RingState

\* As long as no writer sleeps through a whole lap, the cursors stay in order,
\* every block from the first undelivered one on holds what was claimed for it
\* or is owned by exactly one writer, and no stale index can be used.
THEOREM RingCorrect == Spec => []RingInv
  <1>1. Init => RingInv
    BY RingInit DEF RingInv
  <1>2. TypeOK /\ TypeOK' /\ RingInv /\ [Next]_vars => RingInv'
    BY RingStep, LappedStays DEF RingInv
  <1> QED
    BY <1>1, <1>2, TypeCorrect, PTL DEF Spec

\* The reader gets what was written, in the order the blocks were claimed.
THEOREM Fifo == Spec => []FifoDelivery
  <1>1. RingInv => FifoDelivery
    BY DEF RingInv, RingState, DeliveredSoFar, FifoDelivery
  <1> QED
    BY <1>1, RingCorrect, PTL

\* No two writers and no reader share a block that is being filled.
THEOREM Exclusive == Spec => []ExclusiveBlock
  <1>1. TypeOK /\ RingInv => ExclusiveBlock
    <2> SUFFICES ASSUME TypeOK, RingState, NEW w \in Writers, Filling(w)
                 PROVE  /\ \A v \in Writers \ {w} : Filling(v) => block[v] # block[w]
                        /\ rpc = "copy" => rblock # block[w]
      BY DEF RingInv, ExclusiveBlock, Filling
    <2>1. block[w] \in Blocks /\ readStart \in Blocks /\ writeStart \in Blocks
      BY DEF TypeOK
    <2>2. \A v \in Writers \ {w} : Filling(v) => block[v] # block[w]
      BY <2>1 DEF RingState, FillingBlocks
    <2>3. ASSUME rpc = "copy" PROVE rblock # block[w]
      <3>1. rblock = readStart /\ FirstUndelivered = readStart /\ readStart # writeStart
        BY <2>3 DEF RingState, ReaderPosition, FirstUndelivered
      <3>2. InRange(block[w], writeStart, writeEnd)
        BY <2>1 DEF RingState, FillingBlocks
      <3>3. ~InRange(block[w], readStart, writeStart)
        BY <2>1, <3>1, <3>2, Undelivered DEF RingState
      <3>4. InRange(readStart, readStart, writeStart)
        BY <2>1, <3>1, DistFacts DEF InRange
      <3> QED
        BY <3>1, <3>3, <3>4
    <2> QED
      BY <2>2, <2>3
  <1> QED
    BY <1>1, TypeCorrect, RingCorrect, PTL

-----------------------------------------------------------------------------
(* Who moves writeStart on. *)

\* A claimed block that is not published has been written, or is being filled or
\* advanced over by a writer, killed or not.
Owned ==
    \A b \in Blocks : InRange(b, writeStart, writeEnd) =>
        \/ hasBeenWritten[b]
        \/ \E w \in Writers : Filling(w) /\ block[w] = b
        \/ \E w \in Writers : pc[w] = "advance" /\ index[w] = b

\* When the block at writeStart has been written, a writer is about to see it.
Seen == \E w \in Writers : pc[w] = "loadStart" \/ (pc[w] = "clear" /\ index[w] = writeStart)
Helped == hasBeenWritten[writeStart] => Seen

OwnerState == Owned /\ Helped
OwnerInv == ~lapped => OwnerState

\* A step of one writer that owns no block and does not stop looking at writeStart.
LEMMA OwnersQuiet ==
  ASSUME TypeOK, OwnerState, NEW w \in Writers,
         UNCHANGED <<writeStart, writeEnd, hasBeenWritten, block>>,
         \A v \in Writers \ {w} : pc'[v] = pc[v] /\ index'[v] = index[v],
         ~Filling(w), pc[w] # "advance",
         pc[w] = "loadStart" => pc'[w] = "clear" /\ index'[w] = writeStart,
         pc[w] = "clear" => ~hasBeenWritten[index[w]]
  PROVE  OwnerState'
  <1>1. Owned'
    <2> SUFFICES ASSUME NEW b \in Blocks, InRange(b, writeStart, writeEnd)
                 PROVE  \/ hasBeenWritten[b]
                        \/ \E v \in Writers : Filling(v)' /\ block[v] = b
                        \/ \E v \in Writers : pc'[v] = "advance" /\ index'[v] = b
      BY DEF Owned, InRange, Dist
    <2> QED
      BY DEF OwnerState, Owned, Filling
  <1>2. Helped'
    <2> SUFFICES ASSUME hasBeenWritten[writeStart]
                 PROVE  Seen'
      BY DEF Helped
    <2>1. PICK v \in Writers : pc[v] = "loadStart" \/ (pc[v] = "clear" /\ index[v] = writeStart)
      BY DEF OwnerState, Helped, Seen
    <2>2. CASE v = w
      BY <2>1, <2>2 DEF Seen
    <2>3. CASE v # w
      BY <2>1, <2>3 DEF Seen
    <2> QED
      BY <2>2, <2>3
  <1> QED
    BY <1>1, <1>2 DEF OwnerState

\* Steps that move no writer and neither end of the stretch of claimed blocks
LEMMA OwnersSame ==
  ASSUME OwnerState, UNCHANGED <<writeStart, writeEnd, hasBeenWritten, block, pc, index>>
  PROVE  OwnerState'
  <1>1. Owned'
    BY DEF OwnerState, Owned, Filling, InRange, Dist
  <1>2. Helped'
    BY DEF OwnerState, Helped, Seen
  <1> QED
    BY <1>1, <1>2 DEF OwnerState

\* ipc_buffer_write becomes the owner of the block it claims.
LEMMA OwnersClaim ==
  ASSUME TypeOK, RingState, OwnerState, NEW w \in Writers, ClaimBlock(w)
  PROVE  OwnerState'
  <1>1. /\ pc[w] = "claim" /\ writeEnd = index[w] /\ writeEnd' = nextIndex[writeEnd]
        /\ pc' = [pc EXCEPT ![w] = "write"] /\ block' = [block EXCEPT ![w] = writeEnd]
        /\ UNCHANGED <<writeStart, hasBeenWritten, index>>
    BY DEF ClaimBlock, At, Goto
  <1>2. writeStart \in Blocks /\ writeEnd \in Blocks /\ readStart \in Blocks
    BY DEF TypeOK
  <1>3. nextIndex[writeEnd] # readStart
    BY <1>1 DEF RingState, FreshIndices
  <1>4. /\ Dist(writeStart, writeEnd') = Dist(writeStart, writeEnd) + 1
        /\ Dist(writeStart, writeEnd) \in Nat
    BY <1>1, <1>2, <1>3, Longer, DistFacts DEF RingState, CursorOrder
  <1>5. Owned'
    <2> SUFFICES ASSUME NEW b \in Blocks, InRange(b, writeStart, writeEnd')
                 PROVE  \/ hasBeenWritten[b]
                        \/ \E v \in Writers : Filling(v)' /\ block'[v] = b
                        \/ \E v \in Writers : pc'[v] = "advance" /\ index[v] = b
      BY <1>1 DEF Owned, InRange, Dist
    <2>1. b = writeEnd \/ InRange(b, writeStart, writeEnd)
      <3>1. /\ Dist(writeStart, b) \in Nat
            /\ Dist(writeStart, b) = Dist(writeStart, writeEnd) => b = writeEnd
        BY <1>2, DistFacts, DistAdds
      <3> QED
        BY <1>4, <3>1 DEF InRange
    <2>2. CASE b = writeEnd
      <3>1. pc'[w] = "write" /\ block'[w] = b
        BY <1>1, <2>2 DEF TypeOK
      <3> QED
        BY <3>1 DEF Filling
    <2>3. CASE InRange(b, writeStart, writeEnd)
      <3>1. \A v \in Writers \ {w} : pc'[v] = pc[v] /\ block'[v] = block[v]
        BY <1>1 DEF TypeOK
      <3>2. ~Filling(w) /\ pc[w] # "advance"
        BY <1>1 DEF Filling
      <3> QED
        BY <2>3, <3>1, <3>2 DEF OwnerState, Owned, Filling
    <2> QED
      BY <2>1, <2>2, <2>3
  <1>6. Helped'
    <2>1. \A v \in Writers : v # w => pc'[v] = pc[v]
      BY <1>1 DEF TypeOK
    <2> QED
      BY <1>1, <2>1 DEF OwnerState, Helped, Seen
  <1> QED
    BY <1>5, <1>6 DEF OwnerState

\* The payload is stored: the block keeps its owner.
LEMMA OwnersWrite ==
  ASSUME TypeOK, OwnerState, NEW w \in Writers, WriteBlock(w)
  PROVE  OwnerState'
  <1>1. /\ pc[w] = "write" /\ pc' = [pc EXCEPT ![w] = "store"]
        /\ UNCHANGED <<writeStart, writeEnd, hasBeenWritten, index, block>>
    BY DEF WriteBlock, At, Goto, cursorVars
  <1>2. \A v \in Writers : pc'[v] = IF v = w THEN "store" ELSE pc[v]
    BY <1>1 DEF TypeOK
  <1>3. \A v \in Writers : Filling(v) => Filling(v)'
    BY <1>2 DEF Filling
  <1>4. Owned'
    <2>1. \A b \in Blocks : InRange(b, writeStart, writeEnd)' <=> InRange(b, writeStart, writeEnd)
      BY <1>1 DEF InRange, Dist
    <2> QED
      BY <1>1, <1>2, <1>3, <2>1 DEF OwnerState, Owned
  <1>5. Helped'
    BY <1>1, <1>2 DEF OwnerState, Helped, Seen
  <1> QED
    BY <1>4, <1>5 DEF OwnerState

\* The writer that sets hasBeenWritten goes on to look at writeStart.
LEMMA OwnersStore ==
  ASSUME TypeOK, OwnerState, NEW w \in Writers, StoreWritten(w)
  PROVE  OwnerState'
  <1>1. PICK b \in Blocks : b = block[w]
    BY DEF TypeOK
  <1>2. /\ pc[w] = "store" /\ pc' = [pc EXCEPT ![w] = "loadStart"]
        /\ hasBeenWritten' = [hasBeenWritten EXCEPT ![b] = TRUE]
        /\ UNCHANGED <<writeStart, writeEnd, index, block>>
    BY <1>1 DEF StoreWritten, At, Goto, cursorVars
  <1>3. \A v \in Writers : pc'[v] = IF v = w THEN "loadStart" ELSE pc[v]
    BY <1>2 DEF TypeOK
  <1>4. \A c \in Blocks : hasBeenWritten'[c] <=> (c = b \/ hasBeenWritten[c])
    BY <1>2 DEF TypeOK
  <1>5. Owned'
    <2>1. \A c \in Blocks : InRange(c, writeStart, writeEnd)' <=> InRange(c, writeStart, writeEnd)
      BY <1>2 DEF InRange, Dist
    <2>2. \A v \in Writers : Filling(v) => v = w \/ Filling(v)'
      BY <1>3 DEF Filling
    <2>3. \A v \in Writers : pc[v] = "advance" => pc'[v] = "advance"
      BY <1>2, <1>3
    <2> QED
      BY <1>1, <1>2, <1>4, <2>1, <2>2, <2>3 DEF OwnerState, Owned
  <1>6. Helped'
    BY <1>3 DEF Helped, Seen
  <1> QED
    BY <1>5, <1>6 DEF OwnerState

\* The writer that clears hasBeenWritten takes the block at writeStart over.
LEMMA OwnersClear ==
  ASSUME TypeOK, RingState, OwnerState, NEW w \in Writers, ClearWritten(w)
  PROVE  OwnerState'
  <1>1. PICK b \in Blocks : b = index[w]
    BY DEF TypeOK
  <1>2. /\ pc[w] = "clear" /\ pc' = [pc EXCEPT ![w] = "advance"] /\ hasBeenWritten[b]
        /\ hasBeenWritten' = [hasBeenWritten EXCEPT ![b] = FALSE]
        /\ UNCHANGED <<writeStart, writeEnd, index, block>>
    BY <1>1 DEF ClearWritten, At, Goto, cursorVars
  <1>3. b = writeStart
    BY <1>1, <1>2 DEF RingState, WrittenBlocks, FreshIndices
  <1>4. \A v \in Writers : pc'[v] = IF v = w THEN "advance" ELSE pc[v]
    BY <1>2 DEF TypeOK
  <1>5. \A c \in Blocks : hasBeenWritten'[c] <=> (c # b /\ hasBeenWritten[c])
    BY <1>2 DEF TypeOK
  <1>6. Owned'
    <2>1. \A c \in Blocks : InRange(c, writeStart, writeEnd)' <=> InRange(c, writeStart, writeEnd)
      BY <1>2 DEF InRange, Dist
    <2>2. \A v \in Writers : Filling(v) => Filling(v)'
      BY <1>2, <1>4 DEF Filling
    <2>3. \A v \in Writers : pc[v] = "advance" => pc'[v] = "advance"
      BY <1>4
    <2>4. pc'[w] = "advance" /\ index'[w] = b
      BY <1>1, <1>2, <1>4
    <2> QED
      BY <1>2, <1>5, <2>1, <2>2, <2>3, <2>4 DEF OwnerState, Owned
  <1>7. Helped'
    BY <1>2, <1>3, <1>5 DEF Helped
  <1> QED
    BY <1>6, <1>7 DEF OwnerState

\* The writer that has moved writeStart looks at it again.
LEMMA OwnersAdvance ==
  ASSUME TypeOK, RingState, OwnerState, NEW w \in Writers, AdvanceWriteStart(w)
  PROVE  OwnerState'
  <1>1. PICK b \in Blocks : b = index[w]
    BY DEF TypeOK
  <1>2. b = writeStart /\ b # writeEnd
    BY <1>1 DEF AdvanceWriteStart, At, RingState, AdvancingWriter
  <1>3. /\ pc[w] = "advance" /\ pc' = [pc EXCEPT ![w] = "loadStart"]
        /\ writeStart' = nextIndex[b]
        /\ UNCHANGED <<writeEnd, hasBeenWritten, index, block>>
    BY <1>1, <1>2 DEF AdvanceWriteStart, At, Goto
  <1>4. writeEnd \in Blocks
    BY DEF TypeOK
  <1>5. \A c \in Blocks :
            InRange(c, b, writeEnd) /\ c # b <=> InRange(c, writeStart', writeEnd)
    BY <1>2, <1>3, <1>4, RingAssumption DEF InRange, Dist, nextIndex, Blocks
  <1>6. \A v \in Writers : pc'[v] = IF v = w THEN "loadStart" ELSE pc[v]
    BY <1>3 DEF TypeOK
  <1>7. Owned'
    <2> SUFFICES ASSUME NEW c \in Blocks, InRange(c, writeStart', writeEnd)
                 PROVE  \/ hasBeenWritten[c]
                        \/ \E v \in Writers : Filling(v)' /\ block[v] = c
                        \/ \E v \in Writers : pc'[v] = "advance" /\ index[v] = c
      BY <1>3 DEF Owned, InRange, Dist
    <2>1. InRange(c, writeStart, writeEnd) /\ c # b
      BY <1>2, <1>5
    <2>2. \A v \in Writers : Filling(v) => Filling(v)'
      BY <1>3, <1>6 DEF Filling
    <2>3. \A v \in Writers : pc[v] = "advance" /\ index[v] = c => pc'[v] = "advance"
      BY <1>1, <1>6, <2>1
    <2> QED
      BY <2>1, <2>2, <2>3 DEF OwnerState, Owned
  <1>8. Helped'
    BY <1>6 DEF Helped, Seen
  <1> QED
    BY <1>7, <1>8 DEF OwnerState

LEMMA OwnersStep ==
  ASSUME TypeOK, RingState, OwnerState, [Next]_vars
  PROVE  OwnerState'
  <1>1. ASSUME NEW w \in Writers,
               BeginWrite(w) \/ LoadWriteEnd(w) \/ CheckFull(w) \/ ClaimFails(w) \/ Trigger(w)
        PROVE  OwnerState'
    <2>1. /\ pc[w] \in {"idle", "load", "check", "claim", "trigger"}
          /\ UNCHANGED <<writeStart, writeEnd, hasBeenWritten, block>>
          /\ \A v \in Writers \ {w} : pc'[v] = pc[v] /\ index'[v] = index[v]
      BY <1>1 DEF BeginWrite, LoadWriteEnd, CheckFull, ClaimFails, Trigger, At, Goto,
                  cursorVars, TypeOK
    <2>2. ~Filling(w) /\ pc[w] \notin {"advance", "loadStart", "clear"}
      BY <2>1 DEF Filling
    <2> QED
      BY <2>1, <2>2, OwnersQuiet
  <1>2. ASSUME NEW w \in Writers, LoadWriteStart(w) PROVE OwnerState'
    <2>1. /\ pc[w] = "loadStart" /\ pc'[w] = "clear" /\ index'[w] = writeStart
          /\ UNCHANGED <<writeStart, writeEnd, hasBeenWritten, block>>
          /\ \A v \in Writers \ {w} : pc'[v] = pc[v] /\ index'[v] = index[v]
      BY <1>2 DEF LoadWriteStart, At, Goto, cursorVars, TypeOK
    <2> QED
      BY <2>1, OwnersQuiet DEF Filling
  <1>3. ASSUME NEW w \in Writers, FoundCleared(w) PROVE OwnerState'
    <2>1. /\ pc[w] = "clear" /\ ~hasBeenWritten[index[w]]
          /\ UNCHANGED <<writeStart, writeEnd, hasBeenWritten, block>>
          /\ \A v \in Writers \ {w} : pc'[v] = pc[v] /\ index'[v] = index[v]
      BY <1>3 DEF FoundCleared, At, Goto, cursorVars, TypeOK
    <2> QED
      BY <2>1, OwnersQuiet DEF Filling
  <1>4. ASSUME NEW w \in Writers, Kill(w) PROVE OwnerState'
    BY <1>4, OwnersSame DEF Kill, cursorVars
  <1>5. CASE Read
    BY <1>5, OwnersSame DEF Read, SemaphoreWait, NothingToRead, ClaimRead, CopyOut, MarkRead,
                            AdvanceReadStart, FinishRead, cursorVars, writerVars
  <1>6. CASE UNCHANGED vars
    BY <1>6, OwnersSame DEF vars, cursorVars, writerVars
  <1> QED
    BY <1>1, <1>2, <1>3, <1>4, <1>5, <1>6, OwnersClaim, OwnersWrite, OwnersStore, OwnersClear,
       OwnersAdvance DEF Next, Write

\* Each claimed block has been written or belongs to a writer that is still at
\* it, and a written block at writeStart has a writer that will move writeStart
\* past it: ipc_buffer_do_write never leaves the block to nobody.
THEOREM OwnersCorrect == Spec => []OwnerInv
  <1>1. Init => OwnerInv
    <2> SUFFICES ASSUME Init PROVE OwnerState
      BY DEF OwnerInv
    <2>1. 0 \in Blocks /\ Dist(0, 0) = 0
      BY RingAssumption DEF Blocks, Dist
    <2>2. \A b \in Blocks : ~InRange(b, 0, 0)
      BY <2>1, DistFacts DEF InRange
    <2> QED
      BY <2>1, <2>2 DEF Init, OwnerState, Owned, Helped
  <1>2. TypeOK /\ RingInv /\ OwnerInv /\ [Next]_vars => OwnerInv'
    BY OwnersStep, LappedStays DEF RingInv, OwnerInv
  <1> QED
    BY <1>1, <1>2, TypeCorrect, RingCorrect, PTL DEF Spec

\* When every surviving writer has returned from ipc_buffer_write, only a writer
\* that was killed inside ipc_buffer_do_write can hold up the packets that are
\* claimed and not published.
THEOREM Stuck == Spec => []StuckOnlyBehindTheDead
  <1>1. TypeOK /\ OwnerInv => StuckOnlyBehindTheDead
    <2> SUFFICES ASSUME TypeOK, OwnerState, \A w \in alive : pc[w] = "idle",
                        writeStart # writeEnd
                 PROVE  \E w \in Writers \ alive :
                          \/ pc[w] \in {"write", "store"} /\ block[w] = writeStart
                          \/ pc[w] \in {"loadStart", "clear", "advance"}
      BY DEF OwnerInv, StuckOnlyBehindTheDead
    <2>1. writeStart \in Blocks /\ writeEnd \in Blocks
      BY DEF TypeOK
    <2>2. InRange(writeStart, writeStart, writeEnd)
      BY <2>1, DistFacts DEF InRange
    <2>3. CASE hasBeenWritten[writeStart]
      BY <2>3 DEF OwnerState, Helped, Seen
    <2>4. CASE ~hasBeenWritten[writeStart]
      BY <2>1, <2>2, <2>4 DEF OwnerState, Owned, Filling
    <2> QED
      BY <2>3, <2>4
  <1> QED
    BY <1>1, TypeCorrect, OwnersCorrect, PTL

-----------------------------------------------------------------------------
(* The ring as a queue. *)

\* Every step of the ring is a step of the bounded queue, or changes nothing
\* the queue shows: a block is claimed only when fewer than N - 1 messages are
\* under way, and a packet copied out is the oldest one not yet delivered.
THEOREM Refinement == Spec => ImplementsQueue
  <1>1. Init => Queue!Init
    BY DEF Init, Queue!Init
  <1>2. ASSUME TypeOK, TypeOK', RingInv, RingInv', [Next]_vars
        PROVE  [Queue!Next]_(Queue!vars)
    <2>1. CASE lapped'
      BY <2>1 DEF Queue!Next
    <2> SUFFICES ASSUME ~lapped' PROVE [Queue!Next]_(Queue!vars)
      BY <2>1
    <2>2. ~lapped /\ RingState /\ RingState'
      BY <1>2, LappedStays DEF RingInv
    <2>3. lapped' = lapped
      BY <1>2, <2>2 DEF TypeOK
    <2>4. ASSUME NEW w \in Writers, ClaimBlock(w) PROVE Queue!Accept
      <3>1. /\ claimed' = Append(claimed, Message(w)) /\ UNCHANGED delivered
            /\ Message(w) \in Messages
        BY <1>2, <2>4, MessageType DEF ClaimBlock, At, readerVars
      <3>2. Len(claimed') = Len(claimed) + 1 /\ Len(claimed) \in Nat /\ Len(delivered) \in Nat
        BY <1>2, <3>1 DEF TypeOK
      <3>3. Dist(FirstUndelivered', writeEnd') = Len(claimed') - Len(delivered)
        BY <2>2, <3>1 DEF RingState, Accounted
      <3>4. Dist(FirstUndelivered', writeEnd') <= N - 1
        <4>1. FirstUndelivered' \in Blocks /\ writeEnd' \in Blocks
          BY <1>2 DEF TypeOK, FirstUndelivered
        <4> QED
          BY <4>1, DistFacts, RingAssumption
      <3>5. Len(claimed) - Len(delivered) < N - 1
        BY <3>2, <3>3, <3>4, RingAssumption
      <3> QED
        BY <2>3, <3>1, <3>5 DEF Queue!Accept
    <2>5. CASE CopyOut
      <3>1. /\ delivered' = Append(delivered, data[rblock]) /\ UNCHANGED claimed
            /\ delivered \in Seq(Messages \cup {NoMessage})
            /\ data[rblock] \in Messages \cup {NoMessage}
        BY <1>2, <2>5 DEF CopyOut, TypeOK
      <3>2. \A i \in 1 .. Len(delivered') : i <= Len(claimed) /\ delivered'[i] = claimed[i]
        BY <2>2, <3>1 DEF RingState, DeliveredSoFar
      <3>3. /\ Len(delivered) + 1 \in 1 .. Len(delivered')
            /\ delivered'[Len(delivered) + 1] = data[rblock]
        BY <3>1
      <3>4. Len(delivered) < Len(claimed) /\ data[rblock] = claimed[Len(delivered) + 1]
        <4>1. Len(delivered) \in Nat /\ Len(claimed) \in Nat
          BY <1>2 DEF TypeOK
        <4>2. /\ Len(delivered) + 1 <= Len(claimed)
              /\ data[rblock] = claimed[Len(delivered) + 1]
          BY <3>2, <3>3
        <4> QED
          BY <4>1, <4>2
      <3> QED
        BY <2>3, <3>1, <3>4 DEF Queue!Next, Queue!Take
    <2>6. ASSUME UNCHANGED <<claimed, delivered>> PROVE UNCHANGED Queue!vars
      BY <2>3, <2>6 DEF Queue!vars
    <2>7. \/ \E w \in Writers : ClaimBlock(w)
          \/ CopyOut
          \/ UNCHANGED <<claimed, delivered>>
      BY <1>2 DEF Next, Write, Read, vars, readerVars, BeginWrite, LoadWriteEnd, CheckFull,
             ClaimFails, WriteBlock, StoreWritten, LoadWriteStart, ClearWritten, FoundCleared,
             AdvanceWriteStart, Trigger, Kill, SemaphoreWait, NothingToRead, ClaimRead,
             MarkRead, AdvanceReadStart, FinishRead
    <2> QED
      BY <2>4, <2>5, <2>6, <2>7 DEF Queue!Next
  <1> QED
    BY <1>1, <1>2, TypeCorrect, RingCorrect, PTL DEF Spec, ImplementsQueue, Queue!Spec
=============================================================================
