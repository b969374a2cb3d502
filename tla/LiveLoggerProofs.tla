--------------------------- MODULE LiveLoggerProofs ---------------------------
(***************************************************************************)
(* Proofs about LiveLogger, for any finite set of goroutines, any sizes of *)
(* buffer and batch, and any number of messages and failed sends.          *)
(***************************************************************************)
EXTENDS LiveLogger, SequenceTheorems, FiniteSetTheorems, TLAPS

(* The buffer holds the newest entries, without a gap.                     *)
NewestWait ==
  /\ Len(buffer) <= Len(messages)
  /\ \A k \in DOMAIN buffer : buffer[k] = Len(messages) - Len(buffer) + k

Flushing == {t \in Threads : pc[t] = "flush"}

BufferInv == LoggerInv /\ NewestWait

LEMMA QueueFollows == TypeOK /\ NewestWait => OldestFirst
<1> SUFFICES ASSUME TypeOK, NewestWait, NEW e \in Entries, NEW k \in DOMAIN buffer,
                    e \notin ToSet(buffer)
             PROVE  e < buffer[k]
  BY DEF OldestFirst
<1> DEFINE older == Len(messages) - Len(buffer)
<1>1. /\ Len(messages) \in Nat /\ Len(buffer) \in Nat /\ Len(buffer) <= Len(messages)
      /\ DOMAIN buffer = 1..Len(buffer) /\ e \in 1..Len(messages)
  BY LenProperties DEF TypeOK, NewestWait, Entries
<1>2. CASE e > older
  <2>1. e - older \in DOMAIN buffer
    BY <1>1, <1>2
  <2>2. buffer[e - older] = e
    BY <1>1, <2>1 DEF NewestWait
  <2> QED BY <2>1, <2>2 DEF ToSet
<1>3. CASE e <= older
  <2>1. buffer[k] = older + k
    BY DEF NewestWait
  <2> QED BY <1>1, <1>3, <2>1
<1> QED BY <1>1, <1>2, <1>3
-----------------------------------------------------------------------------
LEMMA FlushingIsFinite ==
  IsFiniteSet(Flushing) /\ Cardinality(Flushing) \in Nat
BY LoggerAssumption, FS_Subset, FS_CardinalityType DEF Flushing

(* Entries stay entries when a message is added.                           *)
LEMMA Grows ==
  ASSUME NEW n \in Nat, NEW m \in Nat, n <= m
  PROVE  Seq(1..n) \subseteq Seq(1..m)
<1> SUFFICES ASSUME NEW s \in Seq(1..n) PROVE s \in Seq(1..m)
  OBVIOUS
<1>1. Len(s) \in Nat /\ DOMAIN s = 1..Len(s) /\ \A k \in 1..Len(s) : s[k] \in 1..n
  BY LenProperties, ElementOfSeq
<1>2. s = [k \in 1..Len(s) |-> s[k]] /\ \A k \in 1..Len(s) : s[k] \in 1..m
  BY <1>1, LenProperties
<1> QED BY <1>1, <1>2, IsASeq

LEMMA ToSetType == ASSUME NEW S, NEW s \in Seq(S) PROVE ToSet(s) \subseteq S
BY ElementOfSeq, LenProperties DEF ToSet

LEMMA LoggerInit == Init => BufferInv
<1> SUFFICES ASSUME Init PROVE BufferInv
  OBVIOUS
<1>1. <<>> \in Seq(Threads) /\ <<>> \in Seq(Entries)
  BY EmptySeq
<1>2. {due, hook, closing} \subseteq BOOLEAN
  BY Zenon DEF Init
<1>3. batch \in [Threads -> Seq(Entries)]
  BY <1>1 DEF Init
<1>4. TypeOK
  BY <1>1, <1>2, <1>3 DEF Init, TypeOK, Labels
<1>5. BufferStaysShort
  <2>1. Len(buffer) = 0
    BY DEF Init
  <2>2. Len(buffer) < BatchSize + Cardinality(Flushing)
    BY <2>1, FlushingIsFinite, LoggerAssumption
  <2> QED BY <2>2 DEF BufferStaysShort, Flushing
<1> QED BY <1>4, <1>5 DEF Init, BufferInv, LoggerInv, NewestWait
-----------------------------------------------------------------------------
(* A goroutine moves: the number of those about to flush follows.          *)
LEMMA FlushCount ==
  ASSUME TypeOK, NEW t \in Threads, NEW label, Goto(t, label)
  PROVE  /\ label = "flush" /\ pc[t] # "flush"
              => Cardinality(Flushing') = Cardinality(Flushing) + 1
         /\ label # "flush" /\ pc[t] = "flush"
              => Cardinality(Flushing') = Cardinality(Flushing) - 1
         /\ label # "flush" /\ pc[t] # "flush" => Flushing' = Flushing
<1>1. pc' = [pc EXCEPT ![t] = label] /\ pc \in [Threads -> Labels]
  BY DEF Goto, TypeOK
<1>2. ASSUME label = "flush", pc[t] # "flush" PROVE Cardinality(Flushing') = Cardinality(Flushing) + 1
  <2>1. Flushing' = Flushing \cup {t} /\ t \notin Flushing
    BY <1>1, <1>2 DEF Flushing
  <2> QED BY <2>1, FlushingIsFinite, FS_AddElement
<1>3. ASSUME label # "flush", pc[t] = "flush" PROVE Cardinality(Flushing') = Cardinality(Flushing) - 1
  <2>1. Flushing' = Flushing \ {t} /\ t \in Flushing
    BY <1>1, <1>3 DEF Flushing
  <2> QED BY <2>1, FlushingIsFinite, FS_RemoveElement
<1>4. ASSUME label # "flush", pc[t] # "flush" PROVE Flushing' = Flushing
  BY <1>1, <1>4 DEF Flushing
<1> QED BY <1>2, <1>3, <1>4

LEMMA EmitKeeps == ASSUME BufferInv, NEW t \in Threads, Emit(t) PROVE BufferInv'
<1>1. TypeOK /\ NewestWait /\ Len(buffer) < BatchSize + Cardinality(Flushing)
  BY DEF BufferInv, LoggerInv, BufferStaysShort, Flushing
<1>2. /\ pc[t] = "emit" /\ messages' = Append(messages, t)
      /\ buffer' = Append(buffer, Len(messages) + 1)
      /\ Goto(t, IF MustFlush THEN "flush" ELSE "ready")
      /\ UNCHANGED <<due, batch, hook, closing, received, dropped, faults>>
  BY DEF Emit
<1>3. messages \in Seq(Threads) /\ buffer \in Seq(Entries)
  BY <1>1 DEF TypeOK
<1>4. Len(messages) \in Nat /\ Len(buffer) \in Nat
  BY <1>3, LenProperties
<1>5. messages' \in Seq(Threads) /\ Len(messages') = Len(messages) + 1
  BY <1>2, <1>3, AppendProperties
<1>6. Seq(Entries) \subseteq Seq(Entries')
  BY <1>4, <1>5, Grows DEF Entries
<1>7. Entries \subseteq Entries' /\ Len(messages) + 1 \in Entries'
  BY <1>4, <1>5 DEF Entries
<1>8. buffer \in Seq(Entries')
  BY <1>3, <1>6
<1>9. /\ buffer' \in Seq(Entries') /\ Len(buffer') = Len(buffer) + 1
      /\ \A k \in 1..Len(buffer) : buffer'[k] = buffer[k]
      /\ buffer'[Len(buffer) + 1] = Len(messages) + 1
  BY <1>2, <1>7, <1>8, AppendProperties
<1>10. TypeOK'
  <2>1. batch' \in [Threads -> Seq(Entries')] /\ received' \in Seq(Entries') /\ dropped' \subseteq Entries'
    BY <1>1, <1>2, <1>6, <1>7 DEF TypeOK
  <2>2. pc' \in [Threads -> Labels]
    BY <1>1, <1>2 DEF TypeOK, Goto, Labels
  <2>3. {due', hook', closing'} \subseteq BOOLEAN /\ faults' \in Nat
    BY <1>1, <1>2 DEF TypeOK
  <2> QED BY <1>5, <1>9, <2>1, <2>2, <2>3 DEF TypeOK
<1>11. NewestWait'
  <2>1. Len(buffer') <= Len(messages')
    BY <1>1, <1>4, <1>5, <1>9 DEF NewestWait
  <2>2. ASSUME NEW k \in DOMAIN buffer' PROVE buffer'[k] = Len(messages') - Len(buffer') + k
    <3>1. k \in 1..(Len(buffer) + 1)
      BY <1>9, LenProperties
    <3>2. CASE k \in 1..Len(buffer)
      <4>1. buffer[k] = Len(messages) - Len(buffer) + k
        BY <1>1, <1>3, <3>2, LenProperties DEF NewestWait
      <4> QED BY <1>4, <1>5, <1>9, <3>2, <4>1
    <3>3. CASE k = Len(buffer) + 1
      BY <1>4, <1>5, <1>9, <3>3
    <3> QED BY <1>4, <3>1, <3>2, <3>3
  <2> QED BY <2>1, <2>2 DEF NewestWait
<1>12. BufferStaysShort'
  <2>1. Cardinality(Flushing) \in Nat /\ BatchSize \in Nat
    BY FlushingIsFinite, LoggerAssumption
  <2>2. CASE MustFlush
    <3>1. Cardinality(Flushing') = Cardinality(Flushing) + 1
      BY <1>1, <1>2, <2>2, FlushCount
    <3> QED BY <1>1, <1>4, <1>9, <2>1, <3>1 DEF BufferStaysShort, Flushing
  <2>3. CASE ~MustFlush
    <3>1. Flushing' = Flushing
      BY <1>1, <1>2, <2>3, FlushCount
    <3>2. Len(buffer') < BatchSize
      BY <1>4, <1>9, <2>1, <2>3 DEF MustFlush
    <3>3. Len(buffer') \in Nat /\ Cardinality(Flushing') \in Nat
      BY <1>4, <1>9, <2>1, <3>1
    <3>4. Len(buffer') < BatchSize + Cardinality(Flushing')
      BY <2>1, <3>2, <3>3
    <3> QED BY <3>4 DEF BufferStaysShort, Flushing
  <2> QED BY <2>2, <2>3
<1> QED BY <1>10, <1>11, <1>12 DEF BufferInv, LoggerInv

LEMMA TakingKeeps ==
  ASSUME BufferInv, NEW t \in Threads, Flush(t), buffer # <<>>
  PROVE  /\ batch' \in [Threads -> Seq(Entries')] /\ buffer' \in Seq(Entries')
         /\ NewestWait' /\ Len(buffer') <= Len(buffer) - 1
         /\ \E c \in 1..Len(buffer) : /\ batch' = [batch EXCEPT ![t] = SubSeq(buffer, 1, c)]
                                    /\ Len(buffer') = Len(buffer) - c
<1>1. /\ TypeOK /\ NewestWait /\ buffer \in Seq(Entries) /\ batch \in [Threads -> Seq(Entries)]
      /\ messages \in Seq(Threads)
  BY DEF BufferInv, LoggerInv, TypeOK
<1>2. /\ batch' = [batch EXCEPT ![t] = SubSeq(buffer, 1, Cut)]
      /\ buffer' = SubSeq(buffer, Cut + 1, Len(buffer)) /\ messages' = messages
  BY DEF Flush, TakesOldest
<1> DEFINE n == Len(buffer)
           c == Cut
<1>3. n \in Nat /\ n > 0 /\ DOMAIN buffer = 1..n /\ Len(messages) \in Nat
  BY <1>1, LenProperties, EmptySeq
<1>4. c \in 1..n
  BY <1>3, LoggerAssumption DEF Cut
<1> HIDE DEF n, c
<1>5. SubSeq(buffer, 1, c) \in Seq(Entries)
  BY <1>1, <1>3, <1>4, SubSeqProperties DEF n
<1>6. /\ SubSeq(buffer, c + 1, n) \in Seq(Entries)
      /\ Len(SubSeq(buffer, c + 1, n)) = n - c
      /\ \A k \in 1..(n - c) : SubSeq(buffer, c + 1, n)[k] = buffer[c + k]
  <2>1. c + 1 \in Int /\ n \in Int /\ n - (c + 1) + 1 = n - c /\ n - c \in Nat
    BY <1>3, <1>4
  <2>2. \A k \in (c + 1)..n : buffer[k] \in Entries
    BY <1>1, <1>3, <1>4, ElementOfSeq DEF n
  <2>3. /\ SubSeq(buffer, c + 1, n) \in Seq(Entries)
        /\ Len(SubSeq(buffer, c + 1, n)) = (IF c + 1 <= n THEN n - (c + 1) + 1 ELSE 0)
        /\ \A k \in 1..(n - (c + 1) + 1) : SubSeq(buffer, c + 1, n)[k] = buffer[(c + 1) + k - 1]
    BY <2>1, <2>2, SubSeqProperties
  <2>4. \A k \in 1..(n - c) : (c + 1) + k - 1 = c + k
    BY <2>1, <1>4
  <2>5. ~(c + 1 <= n) => n - c = 0
    BY <1>3, <1>4
  <2> QED BY <2>1, <2>3, <2>4, <2>5
<1>7. batch' = [batch EXCEPT ![t] = SubSeq(buffer, 1, c)] /\ buffer' = SubSeq(buffer, c + 1, n)
  BY <1>2 DEF n, c
<1>8. Entries' = Entries
  BY <1>2 DEF Entries
<1>9. batch' \in [Threads -> Seq(Entries')] /\ buffer' \in Seq(Entries')
  BY <1>1, <1>5, <1>6, <1>7, <1>8
<1>10. Len(buffer') = n - c /\ DOMAIN buffer' = 1..(n - c)
  BY <1>6, <1>7, <1>9, LenProperties
<1>11. NewestWait'
  <2>1. Len(buffer') <= Len(messages')
    <3>1. n <= Len(messages)
      BY <1>1 DEF NewestWait, n
    <3>2. n - c <= Len(messages)
      BY <1>3, <1>4, <3>1
    <3> QED BY <1>2, <1>10, <3>2
  <2>2. ASSUME NEW k \in 1..(n - c) PROVE buffer'[k] = Len(messages') - Len(buffer') + k
    <3>1. buffer'[k] = buffer[c + k] /\ c + k \in 1..n
      BY <1>3, <1>4, <1>6, <1>7
    <3>2. buffer[c + k] = Len(messages) - n + (c + k)
      BY <1>1, <1>3, <3>1 DEF NewestWait, n
    <3>3. Len(messages) - n + (c + k) = Len(messages) - (n - c) + k
      BY <1>3, <1>4
    <3> QED BY <1>2, <1>10, <3>1, <3>2, <3>3
  <2> QED BY <1>10, <2>1, <2>2 DEF NewestWait
<1>12. Len(buffer') <= Len(buffer) - 1
  BY <1>3, <1>4, <1>10 DEF n
<1>13. \E k \in 1..Len(buffer) : /\ batch' = [batch EXCEPT ![t] = SubSeq(buffer, 1, k)]
                               /\ Len(buffer') = Len(buffer) - k
  BY <1>4, <1>7, <1>10 DEF n
<1> QED BY <1>9, <1>11, <1>12, <1>13

LEMMA FlushKeeps == ASSUME BufferInv, NEW t \in Threads, Flush(t) PROVE BufferInv'
<1>1. TypeOK /\ NewestWait /\ Len(buffer) < BatchSize + Cardinality(Flushing)
  BY DEF BufferInv, LoggerInv, BufferStaysShort, Flushing
<1>2. /\ pc[t] = "flush" /\ due' = FALSE
      /\ UNCHANGED <<messages, hook, closing, received, dropped, faults>>
  BY DEF Flush
<1>3. /\ Len(buffer) \in Nat /\ Cardinality(Flushing) \in Nat /\ BatchSize \in Nat \ {0}
      /\ Cardinality(Flushing') \in Nat
  <2>1. Flushing' \subseteq Threads
    BY DEF Flushing
  <2> QED BY <1>1, <2>1, LenProperties, FlushingIsFinite, LoggerAssumption, FS_Subset, FS_CardinalityType
          DEF TypeOK
<1>4. {due', hook', closing'} \subseteq BOOLEAN
  <2>1. hook' \in BOOLEAN /\ closing' \in BOOLEAN
    BY <1>1, <1>2 DEF TypeOK
  <2>2. due' \in BOOLEAN
    BY <1>2, Zenon
  <2> QED BY <2>1, <2>2
<1>5. Entries' = Entries
  BY <1>2 DEF Entries
<1>6. CASE buffer = <<>>
  <2>1. Goto(t, "ready") /\ UNCHANGED <<buffer, batch>>
    BY <1>6 DEF Flush
  <2>2. pc' \in [Threads -> Labels]
    BY <1>1, <2>1 DEF TypeOK, Goto, Labels
  <2>3. TypeOK'
    BY <1>1, <1>2, <1>4, <1>5, <2>1, <2>2 DEF TypeOK
  <2>4. Len(buffer') = 0
    BY <1>6, <2>1
  <2>5. BufferStaysShort'
    BY <1>3, <2>4 DEF BufferStaysShort, Flushing
  <2>6. NewestWait'
    BY <1>1, <1>2, <2>1 DEF NewestWait
  <2> QED BY <2>3, <2>5, <2>6 DEF BufferInv, LoggerInv
<1>7. CASE buffer # <<>>
  <2>1. Goto(t, "send")
    BY <1>7 DEF Flush
  <2>2. pc' \in [Threads -> Labels]
    BY <1>1, <2>1 DEF TypeOK, Goto, Labels
  <2>3. /\ batch' \in [Threads -> Seq(Entries')] /\ buffer' \in Seq(Entries')
        /\ NewestWait' /\ Len(buffer') <= Len(buffer) - 1
    BY <1>7, TakingKeeps
  <2>4. TypeOK'
    BY <1>1, <1>2, <1>4, <1>5, <2>2, <2>3 DEF TypeOK
  <2>5. Cardinality(Flushing') = Cardinality(Flushing) - 1
    BY <1>1, <1>2, <2>1, FlushCount
  <2>6. Len(buffer') \in Nat
    BY <2>3, LenProperties
  <2>7. Len(buffer') < BatchSize + Cardinality(Flushing')
    BY <1>1, <1>3, <2>3, <2>5, <2>6
  <2> QED BY <2>3, <2>4, <2>7 DEF BufferInv, LoggerInv, BufferStaysShort, Flushing
<1> QED BY <1>6, <1>7

(* The steps that leave messages and buffer alone.                         *)
LEMMA OthersKeep ==
  ASSUME BufferInv, UNCHANGED <<messages, buffer>>, TypeOK',
         Cardinality(Flushing') >= Cardinality(Flushing), Cardinality(Flushing') \in Nat
  PROVE  BufferInv'
<1>1. /\ TypeOK /\ NewestWait /\ Len(buffer) < BatchSize + Cardinality(Flushing)
      /\ Len(buffer) \in Nat
  BY LenProperties DEF BufferInv, LoggerInv, BufferStaysShort, Flushing, TypeOK
<1>2. Len(buffer') < BatchSize + Cardinality(Flushing')
  BY <1>1, FlushingIsFinite, LoggerAssumption
<1>3. NewestWait'
  BY <1>1 DEF NewestWait
<1> QED BY <1>2, <1>3 DEF BufferInv, LoggerInv, BufferStaysShort, Flushing

LEMMA SendTypes ==
  ASSUME TypeOK, NEW t \in Threads, Sent(t) \/ \E stored \in BOOLEAN : SendFails(t, stored)
  PROVE  TypeOK'
<1>1. UNCHANGED <<messages, buffer, due, hook, closing>> /\ batch' = [batch EXCEPT ![t] = <<>>]
  BY DEF Sent, SendFails, GivesUp
<1>2. Entries' = Entries
  BY <1>1 DEF Entries
<1>3. batch[t] \in Seq(Entries) /\ received \in Seq(Entries) /\ <<>> \in Seq(Entries)
  BY EmptySeq DEF TypeOK
<1>4. received \o batch[t] \in Seq(Entries) /\ ToSet(batch[t]) \subseteq Entries
  BY <1>3, ConcatProperties, ToSetType
<1>5. received' \in Seq(Entries') /\ dropped' \subseteq Entries'
  BY <1>2, <1>3, <1>4 DEF Sent, SendFails, TypeOK
<1>6. batch' \in [Threads -> Seq(Entries')]
  BY <1>1, <1>2, <1>3 DEF TypeOK
<1>7. pc' \in [Threads -> Labels] /\ faults' \in Nat
  <2>1. pc' = [pc EXCEPT ![t] = "flush"] \/ pc' = [pc EXCEPT ![t] = "ready"]
    BY DEF Sent, SendFails, Goto
  <2>2. faults' = faults \/ faults' = faults + 1
    BY DEF Sent, SendFails
  <2>3. pc \in [Threads -> Labels] /\ faults \in Nat
    BY DEF TypeOK
  <2>4. faults' \in Nat
    BY <2>2, <2>3
  <2>5. pc' \in [Threads -> Labels]
    BY <2>1, <2>3 DEF Labels
  <2> QED BY <2>4, <2>5
<1>8. {due', hook', closing'} \subseteq BOOLEAN /\ messages' \in Seq(Threads) /\ buffer' \in Seq(Entries')
  BY <1>1, <1>2 DEF TypeOK
<1> QED BY <1>5, <1>6, <1>7, <1>8 DEF TypeOK

LEMMA LoggerStep == BufferInv /\ [Next]_vars => BufferInv'
<1> SUFFICES ASSUME BufferInv, [Next]_vars PROVE BufferInv'
  OBVIOUS
<1> DEFINE n == Cardinality(Flushing)
<1>1. TypeOK /\ n \in Nat /\ n >= n
  BY FlushingIsFinite DEF BufferInv, LoggerInv
<1>2. ASSUME NEW t \in Threads, Emit(t) \/ Flush(t) PROVE BufferInv'
  BY <1>2, EmitKeeps, FlushKeeps
<1>3. ASSUME NEW t \in Threads, Sent(t) \/ \E stored \in BOOLEAN : SendFails(t, stored)
      PROVE  BufferInv'
  <2>1. TypeOK' /\ UNCHANGED <<messages, buffer>> /\ pc[t] = "send"
    BY <1>1, <1>3, SendTypes DEF Sent, SendFails, GivesUp
  <2>2. CASE Goto(t, "flush")
    <3>1. Cardinality(Flushing') = n + 1
      BY <1>1, <2>1, <2>2, FlushCount
    <3> QED BY <1>1, <2>1, <3>1, OthersKeep
  <2>3. CASE Goto(t, "ready")
    <3>1. Flushing' = Flushing
      BY <1>1, <2>1, <2>3, FlushCount
    <3> QED BY <1>1, <2>1, <3>1, OthersKeep
  <2> QED BY <1>3, <2>2, <2>3 DEF Sent, SendFails
<1>4. ASSUME NEW t \in Threads, TestHook(t) \/ LoadHook(t) PROVE BufferInv'
  <2> PICK label \in {"tested", "emit", "panicked"} : Goto(t, label)
    BY <1>4 DEF TestHook, LoadHook
  <2>1. /\ pc[t] \in {"ready", "tested"}
        /\ UNCHANGED <<messages, buffer, due, batch, hook, closing, received, dropped, faults>>
    BY <1>4 DEF TestHook, LoadHook
  <2>2. TypeOK'
    BY <1>1, <2>1 DEF TypeOK, Goto, Labels, Entries
  <2>3. Flushing' = Flushing
    BY <1>1, <2>1, FlushCount
  <2> QED BY <1>1, <2>1, <2>2, <2>3, OthersKeep
<1>5. ASSUME NEW last \in BOOLEAN, FlushNow(last) PROVE BufferInv'
  <2>1. /\ Goto(Main, "flush") /\ pc[Main] = "ready" /\ closing' = last /\ Main \in Threads
        /\ UNCHANGED <<messages, buffer, due, batch, hook, received, dropped, faults>>
    BY <1>5, LoggerAssumption DEF FlushNow
  <2>2. TypeOK'
    BY <1>1, <2>1 DEF TypeOK, Goto, Labels, Entries
  <2>3. Cardinality(Flushing') = n + 1
    BY <1>1, <2>1, FlushCount
  <2> QED BY <1>1, <2>1, <2>2, <2>3, OthersKeep
<1>6. CASE Finish
  <2>1. /\ Goto(Main, "done") /\ pc[Main] = "ready" /\ hook' = FALSE /\ Main \in Threads
        /\ UNCHANGED <<messages, buffer, due, batch, closing, received, dropped, faults>>
    BY <1>6, LoggerAssumption DEF Finish
  <2>2. TypeOK'
    <3>1. hook' \in BOOLEAN
      BY <2>1, Zenon
    <3> QED BY <1>1, <2>1, <3>1 DEF TypeOK, Goto, Labels, Entries
  <2>3. Flushing' = Flushing
    BY <1>1, <2>1, FlushCount
  <2> QED BY <1>1, <2>1, <2>2, <2>3, OthersKeep
<1>7. CASE TimePasses \/ UNCHANGED vars
  <2>1. UNCHANGED <<messages, buffer, pc, batch, hook, closing, received, dropped, faults>>
    BY <1>7 DEF TimePasses, vars
  <2>2. due' \in BOOLEAN
    <3>1. CASE TimePasses
      BY <3>1, Zenon DEF TimePasses
    <3>2. CASE UNCHANGED vars
      BY <1>1, <3>2 DEF TypeOK, vars
    <3> QED BY <1>7, <3>1, <3>2
  <2>3. TypeOK'
    BY <1>1, <2>1, <2>2 DEF TypeOK, Entries
  <2>4. Flushing' = Flushing
    BY <2>1 DEF Flushing
  <2> QED BY <1>1, <2>1, <2>3, <2>4, OthersKeep
<1> QED BY <1>2, <1>3, <1>4, <1>5, <1>6, <1>7 DEF Next, Proceed, CallFlush, End

(* The inductive invariant: types, the bound of the buffer, and that it      *)
(* holds the newest messages without a gap.                                *)
THEOREM BufferInvariant == Spec => []BufferInv
BY LoggerInit, LoggerStep, PTL DEF Spec

(* However goroutines and failed sends interleave, the buffer is never more *)
(* than BatchSize - 1 entries and one for each goroutine about to flush.   *)
THEOREM BufferIsShort == Spec => []LoggerInv
<1>1. BufferInv => LoggerInv
  BY DEF BufferInv
<1> QED BY <1>1, BufferInvariant, PTL

(* Flush takes the oldest entries first: what waits is newer than all that  *)
(* has left the buffer.                                                    *)
THEOREM BufferIsQueue == Spec => []OldestFirst
<1>1. BufferInv => OldestFirst
  BY QueueFollows DEF BufferInv, LoggerInv
<1> QED BY <1>1, BufferInvariant, PTL
-----------------------------------------------------------------------------
(* Where the entries are that have left the buffer: every one of them was  *)
(* received, was dropped or is in a batch, in one of these and once.        *)
Left == 1..(Len(messages) - Len(buffer))

Sending(t) == ToSet(batch[t])

Covered == Left = ToSet(received) \cup dropped \cup UNION {Sending(t) : t \in Threads}

Apart ==
  /\ ToSet(received) \cap dropped = {}
  /\ \A t \in Threads : Sending(t) \cap (ToSet(received) \cup dropped) = {}
  /\ \A t, u \in Threads : t # u => Sending(t) \cap Sending(u) = {}

NotRepeated == IsInjective(received) /\ \A t \in Threads : IsInjective(batch[t])

IdleHoldNone == \A t \in Threads : pc[t] # "send" => batch[t] = <<>>

OutOnce == Covered /\ Apart /\ NotRepeated /\ IdleHoldNone

OnceInv == BufferInv /\ OutOnce

LEMMA NothingIn == ToSet(<<>>) = {} /\ IsInjective(<<>>)
BY DEF ToSet, IsInjective

(* What is known of two sequences put together.                            *)
LEMMA Together ==
  ASSUME NEW S, NEW r \in Seq(S), NEW s \in Seq(S)
  PROVE  /\ ToSet(r \o s) = ToSet(r) \cup ToSet(s)
         /\ IsInjective(r) /\ IsInjective(s) /\ ToSet(r) \cap ToSet(s) = {}
              => IsInjective(r \o s)
<1> PICK m \in Nat, n \in Nat : m = Len(r) /\ n = Len(s)
  BY LenProperties
<1>1. /\ DOMAIN r = 1..m /\ DOMAIN s = 1..n /\ DOMAIN (r \o s) = 1..(m + n)
      /\ \A k \in 1..(m + n) : (r \o s)[k] = IF k <= m THEN r[k] ELSE s[k - m]
  <2>1. r \o s \in Seq(S) /\ Len(r \o s) = m + n
    BY ConcatProperties
  <2> QED BY <2>1, ConcatProperties, LenProperties
<1> PICK w : w = r \o s
  OBVIOUS
<1>2. /\ DOMAIN w = 1..(m + n)
      /\ \A k \in 1..m : k \in 1..(m + n) /\ w[k] = r[k]
      /\ \A k \in 1..n : m + k \in 1..(m + n) /\ w[m + k] = s[k]
      /\ \A k \in 1..(m + n) : k \notin 1..m => k - m \in 1..n /\ w[k] = s[k - m]
  <2>1. \A k \in 1..n : ~(m + k <= m) /\ m + k - m = k
    OBVIOUS
  <2>2. ASSUME NEW k \in 1..n PROVE m + k \in 1..(m + n) /\ w[m + k] = s[k]
    BY <1>1, <2>1
  <2> QED BY <1>1, <2>2
<1>3. ToSet(w) = ToSet(r) \cup ToSet(s)
  <2>1. ASSUME NEW e \in ToSet(w) PROVE e \in ToSet(r) \cup ToSet(s)
    <3> PICK k \in 1..(m + n) : w[k] = e
      BY <1>2 DEF ToSet
    <3>1. CASE k \in 1..m
      BY <1>1, <1>2, <3>1 DEF ToSet
    <3>2. CASE k \notin 1..m
      BY <1>1, <1>2, <3>2 DEF ToSet
    <3> QED BY <3>1, <3>2
  <2>2. ASSUME NEW e \in ToSet(r) PROVE e \in ToSet(w)
    <3> PICK k \in 1..m : r[k] = e
      BY <1>1 DEF ToSet
    <3> QED BY <1>2 DEF ToSet
  <2>3. ASSUME NEW e \in ToSet(s) PROVE e \in ToSet(w)
    <3> PICK k \in 1..n : s[k] = e
      BY <1>1 DEF ToSet
    <3>1. w[m + k] = e /\ m + k \in DOMAIN w
      BY <1>2
    <3> QED BY <3>1 DEF ToSet
  <2> QED BY <2>1, <2>2, <2>3
<1>4. ASSUME IsInjective(r), IsInjective(s), ToSet(r) \cap ToSet(s) = {} PROVE IsInjective(w)
  <2> SUFFICES ASSUME NEW j \in 1..(m + n), NEW k \in 1..(m + n), w[j] = w[k] PROVE j = k
    BY <1>2 DEF IsInjective
  <2>1. \A i \in 1..m, l \in 1..n : r[i] # s[l]
    BY <1>1, <1>4 DEF ToSet
  <2>2. CASE j \in 1..m /\ k \in 1..m
    <3>1. r[j] = r[k]
      BY <1>2, <2>2
    <3> QED BY <1>1, <1>4, <2>2, <3>1 DEF IsInjective
  <2>3. CASE j \notin 1..m /\ k \notin 1..m
    <3>1. j - m \in 1..n /\ k - m \in 1..n /\ s[j - m] = s[k - m]
      BY <1>2, <2>3
    <3>2. j - m = k - m
      BY <1>1, <1>4, <3>1 DEF IsInjective
    <3> QED BY <3>2
  <2>4. CASE j \in 1..m /\ k \notin 1..m
    BY <1>2, <2>1, <2>4
  <2>5. CASE j \notin 1..m /\ k \in 1..m
    BY <1>2, <2>1, <2>5
  <2> QED BY <2>2, <2>3, <2>4, <2>5
<1> QED BY <1>3, <1>4

(* A batch is the oldest entries that waited, each of them once.           *)
LEMMA CutIsOldest ==
  ASSUME TypeOK, NewestWait, NEW c \in 1..Len(buffer)
  PROVE  LET older == Len(messages) - Len(buffer)
         IN  /\ ToSet(SubSeq(buffer, 1, c)) = (older + 1)..(older + c)
             /\ IsInjective(SubSeq(buffer, 1, c))
<1> PICK n \in Nat, older \in Nat : n = Len(buffer) /\ older = Len(messages) - n
  <2>1. Len(messages) \in Nat /\ Len(buffer) \in Nat /\ Len(buffer) <= Len(messages)
    BY LenProperties DEF TypeOK, NewestWait
  <2>2. Len(messages) - Len(buffer) \in Nat
    BY <2>1
  <2> QED BY <2>1, <2>2
<1> PICK w : w = SubSeq(buffer, 1, c)
  OBVIOUS
<1>1. \A k \in 1..n : buffer[k] = older + k /\ buffer[k] \in Entries
  <2>1. DOMAIN buffer = 1..n /\ \A k \in 1..n : buffer[k] \in Entries
    BY LenProperties, ElementOfSeq DEF TypeOK
  <2> QED BY <2>1 DEF NewestWait
<1>2. w \in Seq(Entries) /\ Len(w) = c /\ \A k \in 1..c : w[k] = buffer[k]
  <2>1. \A k \in 1..c : buffer[k] \in Entries
    BY <1>1
  <2>2. /\ w \in Seq(Entries) /\ Len(w) = (IF 1 <= c THEN c - 1 + 1 ELSE 0)
        /\ \A k \in 1..(c - 1 + 1) : w[k] = buffer[1 + k - 1]
    BY <2>1, SubSeqProperties
  <2>3. 1 <= c /\ c - 1 + 1 = c /\ \A k \in 1..c : 1 + k - 1 = k
    OBVIOUS
  <2> QED BY <2>2, <2>3
<1>3. DOMAIN w = 1..c /\ \A k \in 1..c : w[k] = older + k
  BY <1>1, <1>2, LenProperties
<1>4. ToSet(w) = (older + 1)..(older + c)
  <2>1. ASSUME NEW e \in (older + 1)..(older + c) PROVE e \in ToSet(w)
    <3>1. e - older \in 1..c /\ older + (e - older) = e
      OBVIOUS
    <3> QED BY <1>3, <3>1 DEF ToSet
  <2>2. ASSUME NEW k \in 1..c PROVE w[k] \in (older + 1)..(older + c)
    BY <1>3
  <2>3. ToSet(w) \subseteq (older + 1)..(older + c)
    BY <1>3, <2>2 DEF ToSet
  <2>4. (older + 1)..(older + c) \subseteq ToSet(w)
    BY <2>1
  <2> QED BY <2>3, <2>4
<1>5. IsInjective(w)
  BY <1>3 DEF IsInjective
<1> QED BY <1>4, <1>5

(* The entries that wait are those that have not left.                     *)
LEMMA WaitingAreNewest ==
  ASSUME TypeOK, NewestWait
  PROVE  /\ IsInjective(buffer)
         /\ \A e \in Entries : e \in ToSet(buffer) <=> e \notin Left
<1> PICK m \in Nat, n \in Nat : m = Len(messages) /\ n = Len(buffer)
  BY LenProperties DEF TypeOK
<1>1. /\ DOMAIN buffer = 1..n /\ Entries = 1..m /\ Left = 1..(m - n) /\ n <= m
      /\ \A k \in 1..n : buffer[k] = m - n + k
  <2>1. DOMAIN buffer = 1..n
    BY LenProperties DEF TypeOK
  <2> QED BY <2>1 DEF NewestWait, Entries, Left
<1>2. \A j, k \in 1..n : m - n + j = m - n + k => j = k
  OBVIOUS
<1>3. \A e \in 1..m : e \notin 1..(m - n) => e - (m - n) \in 1..n /\ m - n + (e - (m - n)) = e
  BY <1>1
<1>4. \A k \in 1..n : m - n + k \notin 1..(m - n)
  BY <1>1
<1>5. IsInjective(buffer)
  BY <1>1, <1>2 DEF IsInjective
<1>6. ASSUME NEW e \in Entries, e \notin Left PROVE e \in ToSet(buffer)
  <2>1. e - (m - n) \in 1..n /\ m - n + (e - (m - n)) = e
    BY <1>1, <1>3, <1>6
  <2> QED BY <1>1, <2>1 DEF ToSet
<1>7. ASSUME NEW e \in ToSet(buffer) PROVE e \notin Left
  <2> PICK k \in 1..n : e = buffer[k]
    BY <1>1 DEF ToSet
  <2>1. e = m - n + k
    BY <1>1
  <2> QED BY <1>1, <1>4, <2>1
<1> QED BY <1>5, <1>6, <1>7

LEMMA OnceInit == Init => OutOnce
<1> SUFFICES ASSUME Init PROVE OutOnce
  OBVIOUS
<1>1. /\ received = <<>> /\ dropped = {} /\ Left = {}
      /\ \A t \in Threads : batch[t] = <<>>
  <2>1. Len(messages) = 0 /\ Len(buffer) = 0
    BY DEF Init
  <2>2. Left = {}
    BY <2>1 DEF Left
  <2> QED BY <2>2 DEF Init
<1>2. ToSet(received) = {} /\ \A t \in Threads : Sending(t) = {}
  BY <1>1, NothingIn DEF Sending
<1>3. Covered /\ Apart
  BY <1>1, <1>2 DEF Covered, Apart
<1>4. NotRepeated /\ IdleHoldNone
  BY <1>1, NothingIn DEF NotRepeated, IdleHoldNone
<1> QED BY <1>3, <1>4 DEF OutOnce

(* The steps that move no entry out of the buffer or a batch.              *)
LEMMA NothingMoves ==
  ASSUME OutOnce, UNCHANGED <<batch, received, dropped>>, Left' = Left,
         \A t \in Threads : pc'[t] # "send" => pc[t] # "send"
  PROVE  OutOnce'
<1>1. Covered' /\ Apart'
  BY DEF OutOnce, Covered, Apart, Sending
<1>2. NotRepeated' /\ IdleHoldNone'
  BY DEF OutOnce, NotRepeated, IdleHoldNone
<1> QED BY <1>1, <1>2 DEF OutOnce

LEMMA FlushKeepsOnce ==
  ASSUME OnceInv, NEW t \in Threads, Flush(t), buffer # <<>> PROVE OutOnce'
<1>1. /\ TypeOK /\ NewestWait /\ Covered /\ Apart /\ NotRepeated /\ IdleHoldNone
      /\ batch \in [Threads -> Seq(Entries)]
      /\ pc \in [Threads -> Labels]
  BY DEF OnceInv, OutOnce, BufferInv, LoggerInv, TypeOK
<1>2. /\ pc[t] = "flush" /\ pc' = [pc EXCEPT ![t] = "send"]
      /\ UNCHANGED <<messages, received, dropped>>
  BY DEF Flush, Goto
<1> PICK c \in 1..Len(buffer) : /\ batch' = [batch EXCEPT ![t] = SubSeq(buffer, 1, c)]
                                /\ Len(buffer') = Len(buffer) - c
  BY TakingKeeps DEF OnceInv
<1> PICK n \in Nat, older \in Nat : n = Len(buffer) /\ older = Len(messages) - n
  <2>1. Len(messages) \in Nat /\ Len(buffer) \in Nat /\ Len(buffer) <= Len(messages)
    BY <1>1, LenProperties DEF TypeOK, NewestWait
  <2>2. Len(messages) - Len(buffer) \in Nat
    BY <2>1
  <2> QED BY <2>1, <2>2
<1> PICK w : w = SubSeq(buffer, 1, c)
  OBVIOUS
<1>3. ToSet(w) = (older + 1)..(older + c) /\ IsInjective(w)
  BY <1>1, CutIsOldest
<1>4. Left = 1..older /\ Left' = 1..(older + c)
  <2>1. Len(messages) - (n - c) = older + c
    <3>1. Len(messages) \in Nat
      BY <1>1, LenProperties DEF TypeOK
    <3> QED BY <3>1
  <2>2. Left' = 1..(Len(messages') - Len(buffer'))
    BY DEF Left
  <2> QED BY <1>2, <2>1, <2>2 DEF Left
<1>5. Left' = Left \cup ToSet(w) /\ Left \cap ToSet(w) = {}
  <2>1. c \in Nat
    OBVIOUS
  <2> QED BY <1>3, <1>4, <2>1
<1>6. /\ \A u \in Threads : u # t => batch'[u] = batch[u]
      /\ batch'[t] = w /\ Sending(t) = {}
  <2>1. batch[t] = <<>>
    BY <1>1, <1>2 DEF IdleHoldNone
  <2> QED BY <1>1, <2>1, NothingIn DEF Sending
<1>7. ToSet(received) \subseteq Left /\ dropped \subseteq Left /\ \A u \in Threads : Sending(u) \subseteq Left
  BY <1>1 DEF Covered
<1>8. \A u \in Threads : (Sending(u))' = IF u = t THEN ToSet(w) ELSE Sending(u)
  <2>1. ASSUME NEW u \in Threads PROVE (Sending(u))' = IF u = t THEN ToSet(w) ELSE Sending(u)
    <3>1. CASE u = t
      <4>1. (Sending(t))' = ToSet(batch'[t])
        BY DEF Sending
      <4> QED BY <1>6, <3>1, <4>1
    <3>2. CASE u # t
      BY <1>6, <3>2 DEF Sending
    <3> QED BY <3>1, <3>2
  <2> QED BY <2>1
<1>9. UNION {(Sending(u))' : u \in Threads} = ToSet(w) \cup UNION {Sending(u) : u \in Threads}
  BY <1>6, <1>8
<1>10. Covered'
  BY <1>1, <1>2, <1>5, <1>9 DEF Covered
<1>11. Apart'
  <2>1. ToSet(received') \cap dropped' = {}
    BY <1>1, <1>2 DEF Apart
  <2>2. ASSUME NEW u \in Threads PROVE (Sending(u))' \cap (ToSet(received') \cup dropped') = {}
    <3>1. CASE u = t
      BY <1>2, <1>5, <1>7, <1>8, <3>1
    <3>2. CASE u # t
      BY <1>1, <1>2, <1>8, <3>2 DEF Apart
    <3> QED BY <3>1, <3>2
  <2>3. \A u, v \in Threads : u # v => (Sending(u))' \cap (Sending(v))' = {}
    BY <1>1, <1>5, <1>7, <1>8 DEF Apart
  <2> QED BY <2>1, <2>2, <2>3 DEF Apart
<1>12. NotRepeated'
  BY <1>1, <1>2, <1>3, <1>6 DEF NotRepeated
<1>13. IdleHoldNone'
  BY <1>1, <1>2, <1>6 DEF IdleHoldNone
<1> QED BY <1>10, <1>11, <1>12, <1>13 DEF OutOnce

LEMMA SendingKeepsOnce ==
  ASSUME OnceInv, NEW t \in Threads, Sent(t) \/ \E stored \in BOOLEAN : SendFails(t, stored)
  PROVE  OutOnce'
<1>1. /\ TypeOK /\ Covered /\ Apart /\ NotRepeated /\ IdleHoldNone
      /\ batch \in [Threads -> Seq(Entries)] /\ received \in Seq(Entries)
      /\ pc \in [Threads -> Labels]
  BY DEF OnceInv, OutOnce, BufferInv, LoggerInv, TypeOK
<1>2. /\ \/ received' = received \o batch[t] /\ dropped' = dropped
         \/ received' = received /\ dropped' = dropped \cup ToSet(batch[t])
      /\ batch' = [batch EXCEPT ![t] = <<>>] /\ UNCHANGED <<messages, buffer>>
      /\ pc' = [pc EXCEPT ![t] = "flush"] \/ pc' = [pc EXCEPT ![t] = "ready"]
  BY DEF Sent, SendFails, GivesUp, Goto
<1>3. /\ batch[t] \in Seq(Entries) /\ Left' = Left
      /\ \A u \in Threads : u # t => batch'[u] = batch[u]
      /\ batch'[t] = <<>>
  BY <1>1, <1>2 DEF Left
<1>4. \A u \in Threads : (Sending(u))' = IF u = t THEN {} ELSE Sending(u)
  BY <1>3, NothingIn DEF Sending
<1>5. /\ \/ ToSet(received') = ToSet(received) \cup Sending(t) /\ dropped' = dropped
         \/ ToSet(received') = ToSet(received) /\ dropped' = dropped \cup Sending(t)
      /\ IsInjective(received')
  <2>1. IsInjective(received) /\ IsInjective(batch[t]) /\ ToSet(received) \cap Sending(t) = {}
    BY <1>1 DEF NotRepeated, Apart
  <2>2. /\ ToSet(received \o batch[t]) = ToSet(received) \cup Sending(t)
        /\ IsInjective(received \o batch[t])
    BY <1>1, <1>3, <2>1, Together DEF Sending
  <2>3. CASE received' = received \o batch[t] /\ dropped' = dropped
    BY <2>2, <2>3
  <2>4. CASE received' = received /\ dropped' = dropped \cup ToSet(batch[t])
    BY <2>1, <2>4 DEF Sending
  <2> QED BY <1>2, <2>3, <2>4
<1>6. Covered'
  <2>1. UNION {Sending(u) : u \in Threads} = Sending(t) \cup UNION {(Sending(u))' : u \in Threads}
    BY <1>4
  <2> QED BY <1>1, <1>3, <1>5, <2>1 DEF Covered
<1>7. Apart'
  <2>1. ToSet(received') \cap dropped' = {}
    BY <1>1, <1>5 DEF Apart
  <2>2. ASSUME NEW u \in Threads PROVE (Sending(u))' \cap (ToSet(received') \cup dropped') = {}
    <3>1. CASE u = t
      BY <1>4, <3>1
    <3>2. CASE u # t
      <4>1. Sending(u) \cap Sending(t) = {} /\ Sending(u) \cap (ToSet(received) \cup dropped) = {}
        BY <1>1, <3>2 DEF Apart
      <4> QED BY <1>4, <1>5, <3>2, <4>1
    <3> QED BY <3>1, <3>2
  <2>3. \A u, v \in Threads : u # v => (Sending(u))' \cap (Sending(v))' = {}
    BY <1>1, <1>4 DEF Apart
  <2> QED BY <2>1, <2>2, <2>3 DEF Apart
<1>8. NotRepeated'
  BY <1>1, <1>3, <1>5, NothingIn DEF NotRepeated
<1>9. IdleHoldNone'
  BY <1>1, <1>2, <1>3 DEF IdleHoldNone
<1> QED BY <1>6, <1>7, <1>8, <1>9 DEF OutOnce

LEMMA OnceStep == OnceInv /\ [Next]_vars => OutOnce'
<1> SUFFICES ASSUME OnceInv, [Next]_vars PROVE OutOnce'
  OBVIOUS
<1>1. /\ OutOnce /\ BufferInv /\ TypeOK
      /\ pc \in [Threads -> Labels]
  BY DEF OnceInv, BufferInv, LoggerInv, TypeOK
<1>2. ASSUME NEW t \in Threads, Emit(t) PROVE OutOnce'
  <2>1. /\ messages' = Append(messages, t) /\ buffer' = Append(buffer, Len(messages) + 1)
        /\ pc[t] = "emit" /\ pc' = [pc EXCEPT ![t] = IF MustFlush THEN "flush" ELSE "ready"]
        /\ UNCHANGED <<batch, received, dropped>>
    BY <1>2 DEF Emit, Goto
  <2>2. Left' = Left
    <3>1. Len(messages) \in Nat /\ Len(buffer) \in Nat
      BY <1>1, LenProperties DEF TypeOK
    <3>2. messages \in Seq(Threads) /\ buffer \in Seq(Nat) /\ Len(messages) + 1 \in Nat
      <4>1. Seq(Entries) \subseteq Seq(Nat)
        <5>1. \A s \in Seq(Entries) : \A k \in 1..Len(s) : s[k] \in Nat
          BY ElementOfSeq DEF Entries
        <5> QED BY <5>1, LenProperties, IsASeq
      <4> QED BY <1>1, <3>1, <4>1 DEF TypeOK
    <3>3. Len(messages') = Len(messages) + 1 /\ Len(buffer') = Len(buffer) + 1
      BY <2>1, <3>2, AppendProperties
    <3>4. Len(messages') - Len(buffer') = Len(messages) - Len(buffer)
      BY <3>1, <3>3
    <3> QED BY <3>4 DEF Left
  <2> QED BY <1>1, <2>1, <2>2, NothingMoves
<1>3. ASSUME NEW t \in Threads, Flush(t) PROVE OutOnce'
  <2>1. CASE buffer # <<>>
    BY <1>3, <2>1, FlushKeepsOnce
  <2>2. CASE buffer = <<>>
    <3>1. /\ UNCHANGED <<messages, buffer, batch, received, dropped>>
          /\ pc[t] = "flush" /\ pc' = [pc EXCEPT ![t] = "ready"]
      BY <1>3, <2>2 DEF Flush, Goto
    <3>2. Left' = Left
      BY <3>1 DEF Left
    <3> QED BY <1>1, <3>1, <3>2, NothingMoves
  <2> QED BY <2>1, <2>2
<1>4. ASSUME NEW t \in Threads, Sent(t) \/ \E stored \in BOOLEAN : SendFails(t, stored)
      PROVE  OutOnce'
  BY <1>4, SendingKeepsOnce
<1>5. ASSUME UNCHANGED <<messages, buffer, batch, received, dropped>>,
             \A t \in Threads : pc'[t] # "send" => pc[t] # "send"
      PROVE  OutOnce'
  BY <1>1, <1>5, NothingMoves DEF Left
<1>6. ASSUME NEW t \in Threads, TestHook(t) \/ LoadHook(t) PROVE OutOnce'
  BY <1>1, <1>5, <1>6 DEF TestHook, LoadHook, Goto
<1>7. ASSUME NEW last \in BOOLEAN, FlushNow(last) PROVE OutOnce'
  BY <1>1, <1>5, <1>7 DEF FlushNow, Goto
<1>8. CASE Finish
  BY <1>1, <1>5, <1>8 DEF Finish, Goto
<1>9. CASE TimePasses \/ UNCHANGED vars
  BY <1>5, <1>9 DEF TimePasses, vars
<1> QED BY <1>2, <1>3, <1>4, <1>6, <1>7, <1>8, <1>9 DEF Next, Proceed, CallFlush, End

(* The inductive invariant of OnceIsOnce.                                  *)
THEOREM OnceInvariant == Spec => []OnceInv
<1>1. Init => OnceInv
  BY LoggerInit, OnceInit DEF OnceInv
<1>2. OnceInv /\ [Next]_vars => OnceInv'
  BY LoggerStep, OnceStep DEF OnceInv
<1> QED BY <1>1, <1>2, PTL DEF Spec
-----------------------------------------------------------------------------
LEMMA CountOnce ==
  ASSUME NEW S, NEW s \in Seq(S), IsInjective(s), NEW e
  PROVE  /\ Positions(s, e) # {} <=> e \in ToSet(s)
         /\ e \in ToSet(s) => Cardinality(Positions(s, e)) = 1
         /\ e \notin ToSet(s) => Cardinality(Positions(s, e)) = 0
<1>1. Positions(s, e) # {} <=> e \in ToSet(s)
  BY DEF Positions, ToSet
<1>2. ASSUME e \in ToSet(s) PROVE Cardinality(Positions(s, e)) = 1
  <2> PICK k \in DOMAIN s : s[k] = e
    BY <1>2 DEF ToSet
  <2>1. Positions(s, e) = {k}
    BY DEF Positions, IsInjective
  <2> QED BY <2>1, FS_Singleton
<1> QED BY <1>1, <1>2, FS_EmptySet

LEMMA EachIsOnce == OnceInv => EachEntryOnce
<1> SUFFICES ASSUME OnceInv, NEW e \in Entries
             PROVE  Cardinality(Positions(buffer, e)) + Cardinality(Positions(received, e))
                      + Cardinality({t \in Threads : Positions(batch[t], e) # {}})
                      + Cardinality({e} \cap dropped) = 1
  BY DEF EachEntryOnce
<1>1. /\ TypeOK /\ NewestWait /\ Covered /\ Apart /\ NotRepeated
      /\ batch \in [Threads -> Seq(Entries)] /\ received \in Seq(Entries) /\ buffer \in Seq(Entries)
  BY DEF OnceInv, OutOnce, BufferInv, LoggerInv, TypeOK
<1> DEFINE senders == {t \in Threads : Positions(batch[t], e) # {}}
<1>2. senders = {t \in Threads : e \in Sending(t)}
  <2>1. ASSUME NEW t \in Threads PROVE Positions(batch[t], e) # {} <=> e \in Sending(t)
    BY DEF Positions, ToSet, Sending
  <2> QED BY <2>1
<1>3. /\ e \in ToSet(buffer) => Cardinality(Positions(buffer, e)) = 1
      /\ e \notin ToSet(buffer) => Cardinality(Positions(buffer, e)) = 0
  BY <1>1, WaitingAreNewest, CountOnce
<1>4. /\ e \in ToSet(received) => Cardinality(Positions(received, e)) = 1
      /\ e \notin ToSet(received) => Cardinality(Positions(received, e)) = 0
  BY <1>1, CountOnce DEF NotRepeated
<1>5. /\ e \in dropped => Cardinality({e} \cap dropped) = 1
      /\ e \notin dropped => Cardinality({e} \cap dropped) = 0
  <2>1. e \in dropped => {e} \cap dropped = {e}
    OBVIOUS
  <2>2. e \notin dropped => {e} \cap dropped = {}
    OBVIOUS
  <2> QED BY <2>1, <2>2, FS_Singleton, FS_EmptySet
<1>6. /\ \A t \in Threads : e \in Sending(t) => Cardinality(senders) = 1
      /\ (\A t \in Threads : e \notin Sending(t)) => Cardinality(senders) = 0
  <2>1. ASSUME NEW t \in Threads, e \in Sending(t) PROVE Cardinality(senders) = 1
    <3>1. senders = {t}
      BY <1>1, <1>2, <2>1 DEF Apart
    <3> QED BY <3>1, FS_Singleton
  <2>2. ASSUME \A t \in Threads : e \notin Sending(t) PROVE Cardinality(senders) = 0
    <3>1. senders = {}
      BY <1>2, <2>2
    <3> QED BY <3>1, FS_EmptySet
  <2> QED BY <2>1, <2>2
<1> HIDE DEF senders
<1>7. e \in ToSet(buffer) <=> e \notin Left
  BY <1>1, WaitingAreNewest
<1>8. CASE e \notin Left
  <2>1. e \in ToSet(buffer) /\ e \notin ToSet(received) /\ e \notin dropped /\ \A t \in Threads : e \notin Sending(t)
    BY <1>1, <1>7, <1>8 DEF Covered
  <2> QED BY <1>3, <1>4, <1>5, <1>6, <2>1 DEF senders
<1>9. CASE e \in Left
  <2>1. e \notin ToSet(buffer)
    BY <1>7, <1>9
  <2>2. e \in ToSet(received) \/ e \in dropped \/ \E t \in Threads : e \in Sending(t)
    BY <1>1, <1>9 DEF Covered
  <2>3. CASE e \in ToSet(received)
    <3>1. e \notin dropped /\ \A t \in Threads : e \notin Sending(t)
      BY <1>1, <2>3 DEF Apart
    <3> QED BY <1>3, <1>4, <1>5, <1>6, <2>1, <2>3, <3>1 DEF senders
  <2>4. CASE e \in dropped
    <3>1. e \notin ToSet(received) /\ \A t \in Threads : e \notin Sending(t)
      BY <1>1, <2>4 DEF Apart
    <3> QED BY <1>3, <1>4, <1>5, <1>6, <2>1, <2>4, <3>1 DEF senders
  <2>5. CASE \E t \in Threads : e \in Sending(t)
    <3>1. e \notin ToSet(received) /\ e \notin dropped
      BY <1>1, <2>5 DEF Apart
    <3> QED BY <1>3, <1>4, <1>5, <1>6, <2>1, <2>5, <3>1 DEF senders
  <2> QED BY <2>2, <2>3, <2>4, <2>5
<1> QED BY <1>8, <1>9

(* However goroutines, flushes and failed sends interleave, no entry is     *)
(* sent by two of them, sent again or lost without a failed send.           *)
THEOREM OnceIsOnce == Spec => []EachEntryOnce
BY EachIsOnce, OnceInvariant, PTL
=============================================================================
