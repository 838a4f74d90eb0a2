----------------------------- MODULE CodecProofs -----------------------------
(***************************************************************************)
(* Safety of a compressed connection for any number of writers and any     *)
(* timeouts, block size and window: the wire stays decodable and a healthy *)
(* stream is never declared broken.  Both rest on who may touch the wire   *)
(* (Exclusion), and the second on how the ages the pollers look at bound   *)
(* the time the transport was really quiet (Ages).                         *)
(***************************************************************************)
EXTENDS CodecStream, TLAPS

\* A write in progress has bytes left; outside conn.Write none are in flight;
\* gc()'s goroutine starts with the reader's end.
Bytes ==
    /\ \A e \in Emitters :
          /\ epc[e] \in {"flush", "arm", "write", "late", "ask", "raw"} => acc[e] < todo[e]
          /\ epc[e] \notin {"write", "raw"} => acc[e] = 0
    /\ rpc # "finished" => epc["gc"] = "idle"

\* The encoder runs under the flusher's lock and not after a failure; raw bytes
\* are written only on a connection that never gets a codec.
Exclusion ==
    \A e \in Emitters :
       /\ Polling(e) => flusher = {e} /\ latched = "none" /\ codecEnabled
       /\ epc[e] \in {"unlock", "broke", "error"} => flusher = {e} /\ codecEnabled
       /\ epc[e] = "flush" => codecEnabled
       /\ epc[e] = "raw" => ~codecEnabled /\ streamStarted

\* An incomplete block belongs to the holder of the flusher's lock, or the
\* encoder has latched an error.
Decodable ==
    /\ wire.whole
    /\ wire.format = "raw" => ~codecEnabled /\ streamStarted
    /\ wire.format = "codec" => codecEnabled
    /\ wire.open # "nobody" =>
          /\ wire.format = "codec"
          /\ \/ latched # "none"
             \/ Polling(wire.open) \/ epc[wire.open] \in {"broke", "error"}

\* The decoder holds part of a block whenever codecPollingReader says so, and
\* the reader fails a stream for a reason.
Reading ==
    /\ shown <= fed
    /\ progress => shown < fed
    /\ rpc = "fail" => codecBroken \/ done \/ ReadStalled
    /\ brokenBy = "reader" =>
          /\ rpc \in {"exit", "stopping", "locking", "finished"}
          /\ codecStallTimeout > 0 /\ shown < fed /\ silence >= codecStallTimeout

Silent == codecStallTimeout > 0 /\ quiet >= codecStallTimeout
Cause == closing \/ done \/ codecBroken \/ Silent

\* lastProgress is no older than the transport's silence, unless the write in
\* progress has already put bytes on the wire; a write is given up for a reason,
\* which lasts as long as the encoder repeats the error.
Ages ==
    /\ codecStallTimeout > 0 => codecEnabled
    /\ \A e \in Emitters :
          /\ Polling(e) /\ acc[e] = 0 => idle[e] <= quiet
          /\ epc[e] = "broke" => Cause
          /\ epc[e] = "ioerror" => Cause /\ latched # "none"
    /\ latched = "timeout" => Cause
    /\ brokenBy \in Writers => latched # "none" /\ (closing \/ done \/ Silent)

Inv == TypeOK /\ Bytes /\ Exclusion /\ Decodable /\ Reading /\ Ages

USE DEF confVars, connVars, peerVars, decVars, readVars, wireVars, emitVars, writeVars,
    sessVars, GotoR, Goto

\* Types and byte counts are preserved.
LEMMA TypesStep ==
    ASSUME TypeOK, Bytes, [Next]_vars
    PROVE  TypeOK' /\ Bytes'
<1> USE StreamParameters DEF TypeOK, Bytes, Emitters, Closers, ReaderLabels, EmitLabels
<1>1. CASE SetCompressType
  BY <1>1 DEF SetCompressType
<1>2. CASE Close
  BY <1>2 DEF Close
<1>3. CASE ReadLoop
  BY <1>3 DEF ReadLoop
<1>4. CASE recv
  <2>1. streamStarted' \in BOOLEAN
    BY <1>4 DEF recv, begin
  <2>2. QED  BY <1>4, <2>1 DEF recv, begin
<1>5. CASE ArmRead
  BY <1>5 DEF ArmRead, ReadWait, Least, Most
<1>6. CASE PollData
  BY <1>6 DEF PollData
<1>7. CASE PollFails
  BY <1>7 DEF PollFails
<1>8. CASE PollTimeout
  BY <1>8 DEF PollTimeout
<1>9. CASE ReadLate
  BY <1>9 DEF ReadLate
<1>10. CASE ReadAsk
  BY <1>10 DEF ReadAsk, ReadStalled
<1>11. CASE codecReadError
  <2>1. codecBroken' \in BOOLEAN /\ closing' \in BOOLEAN /\ sockOpen' \in BOOLEAN
    BY <1>11 DEF codecReadError, Break
  <2>2. QED  BY <1>11, <2>1 DEF codecReadError, Break
<1>12. CASE Feed
  BY <1>12 DEF Feed, Least
<1>13. CASE ReaderStops
  BY <1>13 DEF ReaderStops
<1>14. CASE ReaderLock
  BY <1>14 DEF ReaderLock
<1>15. CASE ReaderGC
  <2>1. /\ epc["gc"] = "idle" /\ epc' = [epc EXCEPT !["gc"] = "once"]
        /\ acc' = acc /\ todo' = todo /\ rpc' = "finished"
    BY <1>15 DEF ReaderGC
  <2>2. Bytes'
    BY <2>1
  <2>3. epc' \in [Emitters -> EmitLabels]
    BY <2>1
  <2>4. QED  BY <1>15, <2>2, <2>3 DEF ReaderGC
<1>16. CASE StopArm
  BY <1>16 DEF StopArm
<1>17. CASE StopClose
  BY <1>17 DEF StopClose
<1>18. CASE StopLock
  BY <1>18 DEF StopLock
<1>19. CASE StopHeartbeat
  BY <1>19 DEF StopHeartbeat
<1>20. CASE PeerSends
  BY <1>20 DEF PeerSends
<1>21. CASE PeerCloses
  BY <1>21 DEF PeerCloses
<1>22. CASE PeerReads
  BY <1>22 DEF PeerReads
<1>23. CASE Tick
  BY <1>23 DEF Tick, Older, Sooner, Polling, Least
<1>24. ASSUME NEW w \in Writers, Send(w) PROVE TypeOK' /\ Bytes'
  <2>1. streamStarted' \in BOOLEAN
    BY <1>24 DEF Send, begin
  <2>2. QED  BY <1>24, <2>1 DEF Send, begin
<1>25. ASSUME NEW w \in Writers, codecIOError(w) PROVE TypeOK' /\ Bytes'
  <2>1. codecBroken' \in BOOLEAN /\ closing' \in BOOLEAN /\ sockOpen' \in BOOLEAN
    BY <1>25 DEF codecIOError, Break
  <2>2. QED  BY <1>25, <2>1 DEF codecIOError, Break
<1>26. ASSUME NEW e \in Emitters, LockFlusher(e) PROVE TypeOK' /\ Bytes'
  BY <1>26 DEF LockFlusher, Encode
<1>27. ASSUME NEW e \in Emitters, ArmWrite(e) PROVE TypeOK' /\ Bytes'
  BY <1>27 DEF ArmWrite, Least, Most
<1>28. ASSUME NEW e \in Emitters, Accept(e) PROVE TypeOK' /\ Bytes'
  BY <1>28 DEF Accept, Put
<1>29. ASSUME NEW e \in Emitters, Unlock(e) PROVE TypeOK' /\ Bytes'
  BY <1>29 DEF Unlock
<1>30. ASSUME NEW e \in Emitters, WriteTimeout(e) PROVE TypeOK' /\ Bytes'
  BY <1>30 DEF WriteTimeout
<1>31. ASSUME NEW e \in Emitters, WriteFails(e) PROVE TypeOK' /\ Bytes'
  BY <1>31 DEF WriteFails
<1>32. ASSUME NEW e \in Emitters, WriteLate(e) PROVE TypeOK' /\ Bytes'
  BY <1>32 DEF WriteLate
<1>33. ASSUME NEW e \in Emitters, WriteAsk(e) PROVE TypeOK' /\ Bytes'
  BY <1>33 DEF WriteAsk, WriteStalled
<1>34. ASSUME NEW e \in Emitters, Abandon(e) PROVE TypeOK' /\ Bytes'
  BY <1>34 DEF Abandon
<1>35. ASSUME NEW c \in Closers, CloseOnce(c) PROVE TypeOK' /\ Bytes'
  <2>1. closing' \in BOOLEAN
    BY <1>35 DEF CloseOnce
  <2>2. QED  BY <1>35, <2>1 DEF CloseOnce
<1>36. ASSUME NEW c \in Closers, CloseWriter(c) PROVE TypeOK' /\ Bytes'
  BY <1>36 DEF CloseWriter
<1>37. ASSUME NEW c \in Closers, CloseSocket(c) PROVE TypeOK' /\ Bytes'
  <2>1. sockOpen' \in BOOLEAN
    BY <1>37 DEF CloseSocket
  <2>2. QED  BY <1>37, <2>1 DEF CloseSocket
<1>38. ASSUME NEW c \in Closers, CloseReturn(c) PROVE TypeOK' /\ Bytes'
  BY <1>38 DEF CloseReturn
<1>39. CASE UNCHANGED vars
  BY <1>39 DEF vars
<1>40. QED
  BY <1>1, <1>2, <1>3, <1>4, <1>5, <1>6, <1>7, <1>8, <1>9, <1>10, <1>11, <1>12, <1>13,
      <1>14, <1>15, <1>16, <1>17, <1>18, <1>19, <1>20, <1>21, <1>22, <1>23, <1>24,
      <1>25, <1>26, <1>27, <1>28, <1>29, <1>30, <1>31, <1>32, <1>33, <1>34, <1>35,
      <1>36, <1>37, <1>38, <1>39
    DEF Next, ReaderStep, StopStep, PeerStep, EmitStep, CloseStep

\* The flusher's lock keeps the encoder to one writer.
LEMMA ExclusionStep ==
    ASSUME TypeOK, Exclusion, Bytes, [Next]_vars
    PROVE  Exclusion'
<1> USE StreamParameters DEF TypeOK, Exclusion, Bytes, Polling, Emitters, Closers
<1>1. CASE SetCompressType
  BY <1>1 DEF SetCompressType
<1>2. CASE Close
  BY <1>2 DEF Close
<1>3. CASE ReadLoop
  BY <1>3 DEF ReadLoop
<1>4. CASE recv
  BY <1>4 DEF recv, begin
<1>5. CASE ArmRead
  BY <1>5 DEF ArmRead, ReadWait, Least, Most
<1>6. CASE PollData
  BY <1>6 DEF PollData
<1>7. CASE PollFails
  BY <1>7 DEF PollFails
<1>8. CASE PollTimeout
  BY <1>8 DEF PollTimeout
<1>9. CASE ReadLate
  BY <1>9 DEF ReadLate
<1>10. CASE ReadAsk
  BY <1>10 DEF ReadAsk, ReadStalled
<1>11. CASE codecReadError
  BY <1>11 DEF codecReadError, Break
<1>12. CASE Feed
  BY <1>12 DEF Feed, Least
<1>13. CASE ReaderStops
  BY <1>13 DEF ReaderStops
<1>14. CASE ReaderLock
  BY <1>14 DEF ReaderLock
<1>15. CASE ReaderGC
  BY <1>15 DEF ReaderGC
<1>16. CASE StopArm
  BY <1>16 DEF StopArm
<1>17. CASE StopClose
  BY <1>17 DEF StopClose
<1>18. CASE StopLock
  BY <1>18 DEF StopLock
<1>19. CASE StopHeartbeat
  BY <1>19 DEF StopHeartbeat
<1>20. CASE PeerSends
  BY <1>20 DEF PeerSends
<1>21. CASE PeerCloses
  BY <1>21 DEF PeerCloses
<1>22. CASE PeerReads
  BY <1>22 DEF PeerReads
<1>23. CASE Tick
  BY <1>23 DEF Tick, Older, Sooner, Least
<1>24. ASSUME NEW w \in Writers, Send(w) PROVE Exclusion'
  BY <1>24 DEF Send, begin
<1>25. ASSUME NEW w \in Writers, codecIOError(w) PROVE Exclusion'
  BY <1>25 DEF codecIOError, Break
<1>26. ASSUME NEW e \in Emitters, LockFlusher(e) PROVE Exclusion'
  BY <1>26 DEF LockFlusher, Encode
<1>27. ASSUME NEW e \in Emitters, ArmWrite(e) PROVE Exclusion'
  BY <1>27 DEF ArmWrite, Least, Most
<1>28. ASSUME NEW e \in Emitters, Accept(e) PROVE Exclusion'
  BY <1>28 DEF Accept, Put
<1>29. ASSUME NEW e \in Emitters, Unlock(e) PROVE Exclusion'
  BY <1>29 DEF Unlock
<1>30. ASSUME NEW e \in Emitters, WriteTimeout(e) PROVE Exclusion'
  BY <1>30 DEF WriteTimeout
<1>31. ASSUME NEW e \in Emitters, WriteFails(e) PROVE Exclusion'
  BY <1>31 DEF WriteFails
<1>32. ASSUME NEW e \in Emitters, WriteLate(e) PROVE Exclusion'
  BY <1>32 DEF WriteLate
<1>33. ASSUME NEW e \in Emitters, WriteAsk(e) PROVE Exclusion'
  BY <1>33 DEF WriteAsk, WriteStalled
<1>34. ASSUME NEW e \in Emitters, Abandon(e) PROVE Exclusion'
  BY <1>34 DEF Abandon
<1>35. ASSUME NEW c \in Closers, CloseOnce(c) PROVE Exclusion'
  BY <1>35 DEF CloseOnce
<1>36. ASSUME NEW c \in Closers, CloseWriter(c) PROVE Exclusion'
  BY <1>36 DEF CloseWriter
<1>37. ASSUME NEW c \in Closers, CloseSocket(c) PROVE Exclusion'
  BY <1>37 DEF CloseSocket
<1>38. ASSUME NEW c \in Closers, CloseReturn(c) PROVE Exclusion'
  BY <1>38 DEF CloseReturn
<1>39. CASE UNCHANGED vars
  BY <1>39 DEF vars
<1>40. QED
  BY <1>1, <1>2, <1>3, <1>4, <1>5, <1>6, <1>7, <1>8, <1>9, <1>10, <1>11, <1>12, <1>13,
      <1>14, <1>15, <1>16, <1>17, <1>18, <1>19, <1>20, <1>21, <1>22, <1>23, <1>24,
      <1>25, <1>26, <1>27, <1>28, <1>29, <1>30, <1>31, <1>32, <1>33, <1>34, <1>35,
      <1>36, <1>37, <1>38, <1>39
    DEF Next, ReaderStep, StopStep, PeerStep, EmitStep, CloseStep

\* No step puts a byte on the wire that does not belong there.
LEMMA DecodableStep ==
    ASSUME TypeOK, Bytes, Exclusion, Decodable, [Next]_vars
    PROVE  Decodable'
<1> USE StreamParameters DEF TypeOK, Exclusion, Decodable, Polling, Emitters, Closers
<1>1. CASE SetCompressType
  BY <1>1 DEF SetCompressType
<1>2. CASE Close
  BY <1>2 DEF Close
<1>3. CASE ReadLoop
  BY <1>3 DEF ReadLoop
<1>4. CASE recv
  BY <1>4 DEF recv, begin
<1>5. CASE ArmRead
  BY <1>5 DEF ArmRead, ReadWait, Least, Most
<1>6. CASE PollData
  BY <1>6 DEF PollData
<1>7. CASE PollFails
  BY <1>7 DEF PollFails
<1>8. CASE PollTimeout
  BY <1>8 DEF PollTimeout
<1>9. CASE ReadLate
  BY <1>9 DEF ReadLate
<1>10. CASE ReadAsk
  BY <1>10 DEF ReadAsk, ReadStalled
<1>11. CASE codecReadError
  BY <1>11 DEF codecReadError, Break
<1>12. CASE Feed
  BY <1>12 DEF Feed, Least
<1>13. CASE ReaderStops
  BY <1>13 DEF ReaderStops
<1>14. CASE ReaderLock
  BY <1>14 DEF ReaderLock
<1>15. CASE ReaderGC
  BY <1>15 DEF ReaderGC, Bytes
<1>16. CASE StopArm
  BY <1>16 DEF StopArm
<1>17. CASE StopClose
  BY <1>17 DEF StopClose
<1>18. CASE StopLock
  BY <1>18 DEF StopLock
<1>19. CASE StopHeartbeat
  BY <1>19 DEF StopHeartbeat
<1>20. CASE PeerSends
  BY <1>20 DEF PeerSends
<1>21. CASE PeerCloses
  BY <1>21 DEF PeerCloses
<1>22. CASE PeerReads
  BY <1>22 DEF PeerReads
<1>23. CASE Tick
  BY <1>23 DEF Tick, Older, Sooner, Least
<1>24. ASSUME NEW w \in Writers, Send(w) PROVE Decodable'
  BY <1>24 DEF Send, begin
<1>25. ASSUME NEW w \in Writers, codecIOError(w) PROVE Decodable'
  BY <1>25 DEF codecIOError, Break
<1>26. ASSUME NEW e \in Emitters, LockFlusher(e) PROVE Decodable'
  BY <1>26 DEF LockFlusher, Encode
<1>27. ASSUME NEW e \in Emitters, ArmWrite(e) PROVE Decodable'
  BY <1>27 DEF ArmWrite, Least, Most
<1>28. ASSUME NEW e \in Emitters, Accept(e) PROVE Decodable'
  <2> DEFINE format == IF epc[e] = "raw" THEN "raw" ELSE "codec"
             last == todo[e] = acc[e] + 1
  <2>1. wire' = Put(e, format, last)
    BY <1>28 DEF Accept
  <2>2. wire.format \in {"none", format}
    BY <1>28 DEF Accept
  <2>3. wire.open \in {"nobody", e}
    BY <1>28 DEF Accept
  <2>4. wire'.whole /\ wire'.format = format
    BY <2>1, <2>2, <2>3 DEF Put
  <2>5. wire'.open = IF last \/ format = "raw" THEN "nobody" ELSE e
    BY <2>1 DEF Put
  <2>6. format = "codec" /\ ~last => epc'[e] = "write"
    BY <1>28 DEF Accept
  <2>7. QED
    BY <1>28, <2>4, <2>5, <2>6 DEF Accept
<1>29. ASSUME NEW e \in Emitters, Unlock(e) PROVE Decodable'
  BY <1>29 DEF Unlock
<1>30. ASSUME NEW e \in Emitters, WriteTimeout(e) PROVE Decodable'
  BY <1>30 DEF WriteTimeout
<1>31. ASSUME NEW e \in Emitters, WriteFails(e) PROVE Decodable'
  BY <1>31 DEF WriteFails
<1>32. ASSUME NEW e \in Emitters, WriteLate(e) PROVE Decodable'
  BY <1>32 DEF WriteLate
<1>33. ASSUME NEW e \in Emitters, WriteAsk(e) PROVE Decodable'
  BY <1>33 DEF WriteAsk, WriteStalled
<1>34. ASSUME NEW e \in Emitters, Abandon(e) PROVE Decodable'
  BY <1>34 DEF Abandon
<1>35. ASSUME NEW c \in Closers, CloseOnce(c) PROVE Decodable'
  BY <1>35 DEF CloseOnce
<1>36. ASSUME NEW c \in Closers, CloseWriter(c) PROVE Decodable'
  BY <1>36 DEF CloseWriter
<1>37. ASSUME NEW c \in Closers, CloseSocket(c) PROVE Decodable'
  BY <1>37 DEF CloseSocket
<1>38. ASSUME NEW c \in Closers, CloseReturn(c) PROVE Decodable'
  BY <1>38 DEF CloseReturn
<1>39. CASE UNCHANGED vars
  BY <1>39 DEF vars
<1>40. QED
  BY <1>1, <1>2, <1>3, <1>4, <1>5, <1>6, <1>7, <1>8, <1>9, <1>10, <1>11, <1>12, <1>13,
      <1>14, <1>15, <1>16, <1>17, <1>18, <1>19, <1>20, <1>21, <1>22, <1>23, <1>24,
      <1>25, <1>26, <1>27, <1>28, <1>29, <1>30, <1>31, <1>32, <1>33, <1>34, <1>35,
      <1>36, <1>37, <1>38, <1>39
    DEF Next, ReaderStep, StopStep, PeerStep, EmitStep, CloseStep

\* The reader fails the stream only inside a block.
LEMMA ReadingStep ==
    ASSUME TypeOK, Reading, Ages, [Next]_vars
    PROVE  Reading'
<1> USE StreamParameters DEF TypeOK, Reading, ReadStalled, Ages
<1>1. CASE SetCompressType
  BY <1>1 DEF SetCompressType
<1>2. CASE Close
  BY <1>2 DEF Close
<1>3. CASE ReadLoop
  BY <1>3 DEF ReadLoop
<1>4. CASE recv
  BY <1>4 DEF recv, begin
<1>5. CASE ArmRead
  BY <1>5 DEF ArmRead, ReadWait, Least, Most
<1>6. CASE PollData
  BY <1>6 DEF PollData
<1>7. CASE PollFails
  BY <1>7 DEF PollFails
<1>8. CASE PollTimeout
  BY <1>8 DEF PollTimeout
<1>9. CASE ReadLate
  BY <1>9 DEF ReadLate
<1>10. CASE ReadAsk
  BY <1>10 DEF ReadAsk
<1>11. CASE codecReadError
  BY <1>11 DEF codecReadError, Break
<1>12. CASE Feed
  <2>1. PICK k \in 1 .. Least(buf, BlockLen - fed), full \in BOOLEAN :
           LET at == IF fed + k = BlockLen THEN 0 ELSE fed + k
           IN /\ fed' = at
              /\ progress' = ~(at = 0 \/ full)
              /\ shown' = IF at = 0 \/ full THEN at ELSE shown
    BY <1>12 DEF Feed
  <2>2. shown' <= fed' /\ (progress' => shown' < fed')
    <3> DEFINE at == IF fed + k = BlockLen THEN 0 ELSE fed + k
    <3>1. at \in Nat /\ (at # 0 => at > shown)
      BY DEF Least
    <3>2. CASE at = 0 \/ full
      <4>1. ~progress'
        BY <2>1, <3>2, Zenon
      <4>2. QED  BY <2>1, <3>1, <3>2, <4>1
    <3>3. CASE ~(at = 0 \/ full)
      BY <2>1, <3>1, <3>3
    <3>4. QED  BY <3>2, <3>3
  <2>3. rpc = "feed" /\ rpc' # "fail" /\ brokenBy' = brokenBy
    BY <1>12 DEF Feed
  <2>4. QED
    BY <2>2, <2>3
<1>13. CASE ReaderStops
  BY <1>13 DEF ReaderStops
<1>14. CASE ReaderLock
  BY <1>14 DEF ReaderLock
<1>15. CASE ReaderGC
  BY <1>15 DEF ReaderGC
<1>16. CASE StopArm
  BY <1>16 DEF StopArm
<1>17. CASE StopClose
  BY <1>17 DEF StopClose
<1>18. CASE StopLock
  BY <1>18 DEF StopLock
<1>19. CASE StopHeartbeat
  BY <1>19 DEF StopHeartbeat
<1>20. CASE PeerSends
  BY <1>20 DEF PeerSends
<1>21. CASE PeerCloses
  BY <1>21 DEF PeerCloses
<1>22. CASE PeerReads
  BY <1>22 DEF PeerReads
<1>23. CASE Tick
  BY <1>23 DEF Tick, Older, Sooner, Polling, Least
<1>24. ASSUME NEW w \in Writers, Send(w) PROVE Reading'
  BY <1>24 DEF Send, begin, Emitters, Closers
<1>25. ASSUME NEW w \in Writers, codecIOError(w) PROVE Reading'
  BY <1>25 DEF codecIOError, Break
<1>26. ASSUME NEW e \in Emitters, LockFlusher(e) PROVE Reading'
  BY <1>26 DEF LockFlusher, Encode
<1>27. ASSUME NEW e \in Emitters, ArmWrite(e) PROVE Reading'
  BY <1>27 DEF ArmWrite, Least, Most
<1>28. ASSUME NEW e \in Emitters, Accept(e) PROVE Reading'
  BY <1>28 DEF Accept, Put
<1>29. ASSUME NEW e \in Emitters, Unlock(e) PROVE Reading'
  BY <1>29 DEF Unlock
<1>30. ASSUME NEW e \in Emitters, WriteTimeout(e) PROVE Reading'
  BY <1>30 DEF WriteTimeout
<1>31. ASSUME NEW e \in Emitters, WriteFails(e) PROVE Reading'
  BY <1>31 DEF WriteFails
<1>32. ASSUME NEW e \in Emitters, WriteLate(e) PROVE Reading'
  BY <1>32 DEF WriteLate
<1>33. ASSUME NEW e \in Emitters, WriteAsk(e) PROVE Reading'
  BY <1>33 DEF WriteAsk, WriteStalled
<1>34. ASSUME NEW e \in Emitters, Abandon(e) PROVE Reading'
  BY <1>34 DEF Abandon
<1>35. ASSUME NEW c \in Closers, CloseOnce(c) PROVE Reading'
  BY <1>35 DEF CloseOnce
<1>36. ASSUME NEW c \in Closers, CloseWriter(c) PROVE Reading'
  BY <1>36 DEF CloseWriter
<1>37. ASSUME NEW c \in Closers, CloseSocket(c) PROVE Reading'
  BY <1>37 DEF CloseSocket
<1>38. ASSUME NEW c \in Closers, CloseReturn(c) PROVE Reading'
  BY <1>38 DEF CloseReturn
<1>39. CASE UNCHANGED vars
  BY <1>39 DEF vars
<1>40. QED
  BY <1>1, <1>2, <1>3, <1>4, <1>5, <1>6, <1>7, <1>8, <1>9, <1>10, <1>11, <1>12, <1>13,
      <1>14, <1>15, <1>16, <1>17, <1>18, <1>19, <1>20, <1>21, <1>22, <1>23, <1>24,
      <1>25, <1>26, <1>27, <1>28, <1>29, <1>30, <1>31, <1>32, <1>33, <1>34, <1>35,
      <1>36, <1>37, <1>38, <1>39
    DEF Next, ReaderStep, StopStep, PeerStep, EmitStep, CloseStep

\* A writer fails the stream only when the transport was silent or is closed.
LEMMA AgesStep ==
    ASSUME TypeOK, Bytes, Exclusion, Ages, [Next]_vars
    PROVE  Ages'
<1>0. /\ codecStallTimeout \in Nat /\ quiet \in Nat
      /\ epc \in [Emitters -> EmitLabels] /\ acc \in [Emitters -> Nat]
      /\ idle \in [Emitters -> Nat]
  BY DEF TypeOK
<1> USE StreamParameters, <1>0
    DEF Bytes, Exclusion, Ages, Polling, Cause, Silent, Emitters, Closers
<1>1. CASE SetCompressType
  BY <1>1 DEF SetCompressType
<1>2. CASE Close
  BY <1>2 DEF Close
<1>3. CASE ReadLoop
  BY <1>3 DEF ReadLoop
<1>4. CASE recv
  BY <1>4 DEF recv, begin
<1>5. CASE ArmRead
  BY <1>5 DEF ArmRead, ReadWait, Least, Most
<1>6. CASE PollData
  BY <1>6 DEF PollData
<1>7. CASE PollFails
  BY <1>7 DEF PollFails
<1>8. CASE PollTimeout
  BY <1>8 DEF PollTimeout
<1>9. CASE ReadLate
  BY <1>9 DEF ReadLate
<1>10. CASE ReadAsk
  BY <1>10 DEF ReadAsk, ReadStalled
<1>11. CASE codecReadError
  BY <1>11 DEF codecReadError, Break
<1>12. CASE Feed
  BY <1>12 DEF Feed, Least
<1>13. CASE ReaderStops
  BY <1>13 DEF ReaderStops
<1>14. CASE ReaderLock
  BY <1>14 DEF ReaderLock
<1>15. CASE ReaderGC
  BY <1>15 DEF ReaderGC
<1>16. CASE StopArm
  BY <1>16 DEF StopArm
<1>17. CASE StopClose
  BY <1>17 DEF StopClose
<1>18. CASE StopLock
  BY <1>18 DEF StopLock
<1>19. CASE StopHeartbeat
  BY <1>19 DEF StopHeartbeat
<1>20. CASE PeerSends
  BY <1>20 DEF PeerSends
<1>21. CASE PeerCloses
  BY <1>21 DEF PeerCloses
<1>22. CASE PeerReads
  BY <1>22 DEF PeerReads
<1>23. CASE Tick
  BY <1>23 DEF Tick, Older, Sooner, Least
<1>24. ASSUME NEW w \in Writers, Send(w) PROVE Ages'
  BY <1>24 DEF Send, begin
<1>25. ASSUME NEW w \in Writers, codecIOError(w) PROVE Ages'
  BY <1>25 DEF codecIOError, Break
<1>26. ASSUME NEW e \in Emitters, LockFlusher(e) PROVE Ages'
  BY <1>26 DEF LockFlusher, Encode
<1>27. ASSUME NEW e \in Emitters, ArmWrite(e) PROVE Ages'
  BY <1>27 DEF ArmWrite, Least, Most
<1>28. ASSUME NEW e \in Emitters, Accept(e) PROVE Ages'
  <2>1. Silent => epc[e] = "write"
    BY <1>28 DEF Accept
  <2>2. latched # "none" => epc[e] = "raw" /\ ~Silent
    BY <1>28, <2>1 DEF Accept
  <2>3. ASSUME NEW f \in Emitters, Polling(f)' /\ acc'[f] = 0 PROVE FALSE
    BY <1>28, <2>3 DEF Accept
  <2>4. /\ UNCHANGED <<latched, closing, done, codecBroken, brokenBy, codecStallTimeout,
                       codecEnabled>>
        /\ epc' \in {epc, [epc EXCEPT ![e] = "idle"], [epc EXCEPT ![e] = "unlock"]}
        /\ epc[e] = "write" => flusher = {e} /\ latched = "none"
    BY <1>28 DEF Accept
  <2>5. \A f \in Emitters : epc'[f] \in {"broke", "ioerror"} => epc[f] = epc'[f]
    BY <2>4
  <2> HIDE DEF Polling
  <2>6. QED
    BY <2>1, <2>2, <2>3, <2>4, <2>5
<1>29. ASSUME NEW e \in Emitters, Unlock(e) PROVE Ages'
  BY <1>29 DEF Unlock
<1>30. ASSUME NEW e \in Emitters, WriteTimeout(e) PROVE Ages'
  BY <1>30 DEF WriteTimeout
<1>31. ASSUME NEW e \in Emitters, WriteFails(e) PROVE Ages'
  BY <1>31 DEF WriteFails
<1>32. ASSUME NEW e \in Emitters, WriteLate(e) PROVE Ages'
  BY <1>32 DEF WriteLate
<1>33. ASSUME NEW e \in Emitters, WriteAsk(e) PROVE Ages'
  BY <1>33 DEF WriteAsk, WriteStalled
<1>34. ASSUME NEW e \in Emitters, Abandon(e) PROVE Ages'
  BY <1>34 DEF Abandon
<1>35. ASSUME NEW c \in Closers, CloseOnce(c) PROVE Ages'
  BY <1>35 DEF CloseOnce
<1>36. ASSUME NEW c \in Closers, CloseWriter(c) PROVE Ages'
  BY <1>36 DEF CloseWriter
<1>37. ASSUME NEW c \in Closers, CloseSocket(c) PROVE Ages'
  BY <1>37 DEF CloseSocket
<1>38. ASSUME NEW c \in Closers, CloseReturn(c) PROVE Ages'
  BY <1>38 DEF CloseReturn
<1>39. CASE UNCHANGED vars
  BY <1>39 DEF vars
<1>40. QED
  BY <1>1, <1>2, <1>3, <1>4, <1>5, <1>6, <1>7, <1>8, <1>9, <1>10, <1>11, <1>12, <1>13,
      <1>14, <1>15, <1>16, <1>17, <1>18, <1>19, <1>20, <1>21, <1>22, <1>23, <1>24,
      <1>25, <1>26, <1>27, <1>28, <1>29, <1>30, <1>31, <1>32, <1>33, <1>34, <1>35,
      <1>36, <1>37, <1>38, <1>39
    DEF Next, ReaderStep, StopStep, PeerStep, EmitStep, CloseStep

\* The connection starts in the invariant.
LEMMA InvInit == Init => Inv
<1> SUFFICES ASSUME Init PROVE Inv
  OBVIOUS
<1> USE StreamParameters DEF Init, Emitters, Closers, EmptyWire, Polling
<1>1. TypeOK
  <2>1. wire \in [format : {"none", "raw", "codec"}, open : Emitters \cup {"nobody"},
                  whole : BOOLEAN]
    OBVIOUS
  <2>2. /\ codecEnabled \in BOOLEAN /\ streamStarted \in BOOLEAN /\ codecBroken \in BOOLEAN
        /\ closing \in BOOLEAN /\ sockOpen \in BOOLEAN /\ peerClosed \in BOOLEAN
        /\ progress \in BOOLEAN /\ done \in BOOLEAN
    OBVIOUS
  <2>3. /\ epc \in [Emitters -> EmitLabels] /\ calls \in [Writers -> Nat]
        /\ todo \in [Emitters -> Nat] /\ acc \in [Emitters -> Nat]
        /\ idle \in [Emitters -> Nat]
    BY DEF EmitLabels
  <2>4. QED  BY <2>1, <2>2, <2>3 DEF TypeOK, ReaderLabels
<1>2. Bytes
  BY DEF Bytes
<1>3. Exclusion
  BY DEF Exclusion
<1>4. Decodable
  BY DEF Decodable
<1>5. Reading /\ Ages
  BY DEF Reading, ReadStalled, Ages, Cause, Silent
<1>6. QED  BY <1>1, <1>2, <1>3, <1>4, <1>5 DEF Inv

\* Every step preserves it.
LEMMA InvStep == Inv /\ [Next]_vars => Inv'
  BY TypesStep, ExclusionStep, DecodableStep, ReadingStep, AgesStep DEF Inv

\* So every reachable state satisfies it.
LEMMA InvAlways == Spec => []Inv
  BY InvInit, InvStep, PTL DEF Spec

\* Every reachable state of a connection is well typed: a block is never
\* longer than its bytes and no count or age becomes negative.
THEOREM CodecTyped == Spec => []TypeOK
<1>1. Inv => TypeOK
  BY DEF Inv
<1>2. QED  BY <1>1, InvAlways, PTL

\* Nothing follows a block that Send or CloseConn gave up in the middle, and a
\* stream never changes its format, for any number of writers.
THEOREM CodecWireWhole == Spec => []WireWhole
<1>1. Inv => WireWhole
  BY DEF Inv, Decodable, WireWhole
<1>2. QED  BY <1>1, InvAlways, PTL

\* codecIOError is reached only for a block that really stalled, a transport
\* that really took nothing for codecStallTimeout, or a connection being closed.
THEOREM CodecBrokenForCause == Spec => []BrokenForCause
<1>1. Inv => BrokenForCause
  BY DEF Inv, TypeOK, Reading, Ages, Silent, BrokenForCause
<1>2. QED  BY <1>1, InvAlways, PTL

=============================================================================
