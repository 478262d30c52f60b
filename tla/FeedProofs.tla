----------------------------- MODULE FeedProofs -----------------------------
(***************************************************************************)
(* Proofs about Feed for any number of readers, any sizes of the room and  *)
(* of its slack, any chunk and any number of arrivals.                     *)
(***************************************************************************)
EXTENDS Feed, SequenceTheorems, TLAPS

\* The inductive invariant: the safety invariants together.
IInv ==
    /\ TypeOK
    /\ RoomHasNoRepeats
    /\ GzipDecodes
    /\ LiveHoldsRoom
    /\ CachesConsistent
    /\ NothingStranded

-----------------------------------------------------------------------------
(***************************************************************************)
(* Lemmas about sequences and about the operators of Feed.                 *)
(***************************************************************************)

\* The texts of a room: one per message, and only the first opens.
LEMMA TextsOfRoom ==
    ASSUME NEW room \in Seq(Nat)
    PROVE  /\ Texts(room) \in Seq(Text)
           /\ Len(Texts(room)) = Len(room)
           /\ \A i \in 1..Len(room) : Texts(room)[i] = [sep |-> Sep(i), id |-> room[i]]
<1>1. Len(room) \in Nat /\ \A i \in 1..Len(room) : room[i] \in Nat
  BY LenProperties, ElementOfSeq
<1>2. Texts(room) \in [1..Len(room) -> Text]
  BY <1>1 DEF Texts, Text, Sep
<1>3. Texts(room) \in Seq(Text)
  BY <1>1, <1>2, SeqDef
<1>4. Len(Texts(room)) = Len(room)
  <2>1. DOMAIN Texts(room) = 1..Len(room)
    BY DEF Texts
  <2>2. DOMAIN Texts(room) = 1..Len(Texts(room)) /\ Len(Texts(room)) \in Nat
    BY <1>3, LenProperties
  <2> QED BY <1>1, <2>1, <2>2
<1> QED BY <1>3, <1>4 DEF Texts

\* Two rooms that agree have the same texts, and appending a message appends
\* its text.
LEMMA TextsOfAppend ==
    ASSUME NEW room \in Seq(Nat), NEW i \in Nat
    PROVE  /\ TextOf(i, Len(room)) \in Text
           /\ Texts(Append(room, i)) = Append(Texts(room), TextOf(i, Len(room)))
<1> DEFINE n == Len(room)
           text == TextOf(i, n)
           longer == Append(room, i)
<1>1. n \in Nat
  BY LenProperties
<1>2. text \in Text /\ text = [sep |-> Sep(n + 1), id |-> i]
  BY <1>1 DEF TextOf, Text, Sep
<1>3. /\ longer \in Seq(Nat)
      /\ Len(longer) = n + 1
      /\ \A k \in 1..n : longer[k] = room[k]
      /\ longer[n + 1] = i
  BY AppendProperties
<1>4. /\ Texts(longer) \in Seq(Text)
      /\ Len(Texts(longer)) = n + 1
      /\ \A k \in 1..(n + 1) : Texts(longer)[k] = [sep |-> Sep(k), id |-> longer[k]]
  BY <1>3, TextsOfRoom
<1>5. /\ Texts(room) \in Seq(Text)
      /\ Len(Texts(room)) = n
      /\ \A k \in 1..n : Texts(room)[k] = [sep |-> Sep(k), id |-> room[k]]
  BY TextsOfRoom
<1>6. /\ Append(Texts(room), text) \in Seq(Text)
      /\ Len(Append(Texts(room), text)) = n + 1
      /\ \A k \in 1..n : Append(Texts(room), text)[k] = Texts(room)[k]
      /\ Append(Texts(room), text)[n + 1] = text
  BY <1>2, <1>5, AppendProperties
<1>7. ASSUME NEW k \in 1..(n + 1)
      PROVE  Texts(longer)[k] = Append(Texts(room), text)[k]
  <2>1. CASE k = n + 1
    <3> HIDE DEF text, longer, n
    <3> QED BY <2>1, <1>2, <1>3, <1>4, <1>6
  <2>2. CASE k \in 1..n
    <3> HIDE DEF text, longer, n
    <3> QED BY <2>2, <1>3, <1>4, <1>5, <1>6
  <2>3. k = n + 1 \/ k \in 1..n
    BY <1>1
  <2> QED BY <2>1, <2>2, <2>3
<1> HIDE DEF text, longer
<1>8. Texts(longer) = Append(Texts(room), text)
  BY <1>4, <1>6, <1>7, SeqEqual
<1> QED BY <1>2, <1>8 DEF text, longer

\* A stream that ends with the room still does when both get one more.
LEMMA EndsWithAppend ==
    ASSUME NEW texts \in Seq(Text), NEW room \in Seq(Nat), NEW text \in Text,
           EndsWith(texts, room)
    PROVE  EndsWith(Append(texts, text), Append(room, text.id))
<1>1. text.id \in Nat
  BY DEF Text
<1>2. /\ Len(Append(texts, text)) = Len(texts) + 1
      /\ \A k \in 1..Len(texts) : Append(texts, text)[k] = texts[k]
      /\ Append(texts, text)[Len(texts) + 1] = text
  BY AppendProperties
<1>3. /\ Len(Append(room, text.id)) = Len(room) + 1
      /\ \A k \in 1..Len(room) : Append(room, text.id)[k] = room[k]
      /\ Append(room, text.id)[Len(room) + 1] = text.id
  BY <1>1, AppendProperties
<1>4. Len(texts) \in Nat /\ Len(room) \in Nat
  BY LenProperties
<1> DEFINE m == Len(texts)
           n == Len(room)
           s == Append(texts, text)
           t == Append(room, text.id)
<1>5. n <= m /\ \A k \in 1..n : texts[m - n + k].id = room[k]
  BY DEF EndsWith
<1> HIDE DEF m, n, s, t
<1>6. ASSUME NEW k \in 1..(n + 1) PROVE s[(m + 1) - (n + 1) + k].id = t[k]
  <2>1. (m + 1) - (n + 1) + k = m - n + k
    BY <1>4 DEF m, n
  <2>2. CASE k = n + 1
    <3>1. m - n + k = m + 1
      BY <1>4, <2>2 DEF m, n
    <3> QED BY <2>1, <2>2, <3>1, <1>2, <1>3 DEF m, n, s, t
  <2>3. CASE k \in 1..n
    <3>1. m - n + k \in 1..m
      BY <1>4, <1>5, <2>3 DEF m, n
    <3> QED BY <2>1, <2>3, <3>1, <1>2, <1>3, <1>5 DEF m, n, s, t
  <2> QED BY <2>2, <2>3, <1>4 DEF m, n
<1>7. n + 1 <= m + 1
  BY <1>4, <1>5 DEF m, n
<1> QED BY <1>2, <1>3, <1>6, <1>7 DEF EndsWith, m, n, s, t

\* ... and when the oldest messages of the room are dropped.
LEMMA EndsWithTrim ==
    ASSUME NEW texts \in Seq(Text), NEW room \in Seq(Nat), NEW m \in Nat,
           m <= Len(room), EndsWith(texts, room)
    PROVE  LET kept == SubSeq(room, Len(room) - m + 1, Len(room))
           IN  /\ kept \in Seq(Nat)
               /\ Len(kept) = m
               /\ \A k \in 1..m : kept[k] = room[Len(room) - m + k]
               /\ EndsWith(texts, kept)
<1> DEFINE n == Len(room)
           kept == SubSeq(room, n - m + 1, n)
<1>1. n \in Nat /\ m \in Nat /\ m <= n /\ Len(texts) \in Nat
  BY LenProperties
<1>2. \A k \in 1..n : room[k] \in Nat
  BY ElementOfSeq
<1>3. n - m + 1 \in Int /\ n \in Int /\ \A k \in (n - m + 1)..n : room[k] \in Nat
  BY <1>1, <1>2
<1>4. /\ kept \in Seq(Nat)
      /\ Len(kept) = IF n - m + 1 <= n THEN n - (n - m + 1) + 1 ELSE 0
      /\ \A k \in 1..(n - (n - m + 1) + 1) : kept[k] = room[(n - m + 1) + k - 1]
  BY <1>3, SubSeqProperties
<1> HIDE DEF kept
<1>5. Len(kept) = m
  <2> HIDE DEF n
  <2> QED BY <1>1, <1>4
<1>6. ASSUME NEW k \in 1..m PROVE kept[k] = room[n - m + k]
  <2>1. k \in 1..(n - (n - m + 1) + 1) /\ (n - m + 1) + k - 1 = n - m + k
    BY <1>1
  <2> QED BY <2>1, <1>4
<1>7. EndsWith(texts, kept)
  <2>1. n <= Len(texts) /\ \A k \in 1..n : texts[Len(texts) - n + k].id = room[k]
    BY DEF EndsWith
  <2>2. ASSUME NEW k \in 1..m PROVE texts[Len(texts) - m + k].id = kept[k]
    <3>1. n - m + k \in 1..n /\ Len(texts) - n + (n - m + k) = Len(texts) - m + k
      BY <1>1
    <3> QED BY <2>1, <3>1, <1>6
  <2> QED BY <2>1, <2>2, <1>1, <1>5 DEF EndsWith
<1> QED BY <1>4, <1>5, <1>6, <1>7 DEF kept

\* A stream of the texts of the room ends with the room, as one array.
LEMMA EndsWithItself ==
    ASSUME NEW room \in Seq(Nat)
    PROVE  /\ EndsWith(Texts(room), room)
           /\ Texts(room) # <<>> => OneArray(Texts(room))
           /\ room = <<>> => Texts(room) = <<>>
<1>1. Len(room) \in Nat
  BY LenProperties
<1>2. /\ Texts(room) \in Seq(Text)
      /\ Len(Texts(room)) = Len(room)
      /\ \A i \in 1..Len(room) : Texts(room)[i] = [sep |-> Sep(i), id |-> room[i]]
  BY TextsOfRoom
<1>3. \A i \in 1..Len(room) :
          Texts(room)[i].id = room[i] /\ Texts(room)[i].sep = Sep(i)
  BY DEF Texts
<1>4. EndsWith(Texts(room), room)
  <2> DEFINE n == Len(room)
             texts == Texts(room)
  <2>1. n \in Nat /\ Len(texts) = n /\ \A i \in 1..n : texts[i].id = room[i]
    BY <1>1, <1>2, <1>3
  <2>2. EndsWith(texts, room) <=>
            /\ n <= Len(texts)
            /\ \A k \in 1..n : texts[Len(texts) - n + k].id = room[k]
    BY DEF EndsWith
  <2> HIDE DEF n, texts
  <2>3. \A k \in 1..n : Len(texts) - n + k = k
    BY <2>1
  <2>4. EndsWith(texts, room)
    BY <2>1, <2>2, <2>3
  <2> QED BY <2>4 DEF texts
<1>5. Texts(room) # <<>> => OneArray(Texts(room))
  BY <1>2, <1>3 DEF OneArray
<1>6. room = <<>> => Texts(room) = <<>>
  <2>1. ASSUME room = <<>> PROVE Texts(room) = <<>>
    <3>1. Len(Texts(room)) = 0
      BY <2>1, <1>2, EmptySeq
    <3> QED BY <3>1, <1>2, EmptySeq
  <2> QED BY <2>1
<1> QED BY <1>4, <1>5, <1>6

\* The text is one that may come next on a stream.
Fits(texts, text) ==
    \/ texts = <<>> /\ text.sep = "["
    \/ texts # <<>> /\ OneArray(texts) /\ text.sep = ","

\* One more text on a stream that is one array, or on an empty stream.
LEMMA OneArrayAppend ==
    ASSUME NEW texts \in Seq(Text), NEW text \in Text, Fits(texts, text)
    PROVE  OneArray(Append(texts, text))
<1> DEFINE n == Len(texts)
           longer == Append(texts, text)
<1>1. n \in Nat /\ (texts # <<>> => n # 0) /\ (texts = <<>> => n = 0)
  BY LenProperties, EmptySeq
<1>2. /\ longer # <<>>
      /\ Len(longer) = n + 1
      /\ \A k \in 1..n : longer[k] = texts[k]
      /\ longer[n + 1] = text
  BY AppendProperties
<1>3. CASE texts = <<>> /\ text.sep = "["
  <2>1. n = 0
    BY <1>1, <1>3
  <2> HIDE DEF n, longer
  <2>2. ASSUME NEW k \in 1..(n + 1) PROVE longer[k].sep = Sep(k)
    <3>1. k = 1 /\ k = n + 1
      BY <2>1
    <3> QED BY <3>1, <1>2, <1>3 DEF Sep
  <2>3. OneArray(longer)
    BY <1>2, <2>2 DEF OneArray
  <2> QED BY <2>3 DEF longer
<1>4. CASE texts # <<>> /\ OneArray(texts) /\ text.sep = ","
  <2>1. n # 0 /\ \A k \in 1..n : texts[k].sep = Sep(k)
    BY <1>1, <1>4 DEF OneArray
  <2> HIDE DEF n, longer
  <2>2. ASSUME NEW k \in 1..(n + 1) PROVE longer[k].sep = Sep(k)
    <3>1. CASE k = n + 1
      <4>1. k # 1 /\ longer[k] = text
        BY <1>1, <1>2, <2>1, <3>1
      <4> QED BY <1>4, <4>1 DEF Sep
    <3>2. CASE k \in 1..n
      <4>1. longer[k] = texts[k] /\ texts[k].sep = Sep(k)
        BY <1>2, <2>1, <3>2
      <4> QED BY <4>1
    <3>3. k = n + 1 \/ k \in 1..n
      BY <1>1
    <3> QED BY <3>1, <3>2, <3>3
  <2>3. OneArray(longer)
    BY <1>2, <2>2 DEF OneArray
  <2> QED BY <2>3 DEF longer
<1> QED BY <1>3, <1>4 DEF Fits

\* Generations keep account of what has been appended to them: the checksum
\* covers what is compressed, in the compressor and pending, in that order.
LEMMA AppendedAccounts ==
    ASSUME NEW g \in Generations(Text), g.sum = Content(g), NEW texts \in Seq(Text)
    PROVE  /\ Appended(g, texts) \in Generations(Text)
           /\ Appended(g, texts).sum = g.sum \o texts
           /\ Appended(g, texts).sum = Content(Appended(g, texts))
           /\ Appended(g, texts).flushing = g.flushing
           /\ Appended(g, texts).chunk = g.chunk
<1> DEFINE h == Appended(g, texts)
<1>1. /\ g.written \in Seq(Text) /\ g.chunk \in Seq(Text)
      /\ g.pending \in Seq(Text) /\ g.sum \in Seq(Text)
  BY DEF Generations
<1>2. g.pending \o texts \in Seq(Text) /\ g.sum \o texts \in Seq(Text)
  BY <1>1, ConcatProperties
<1>3. /\ h.written = g.written /\ h.chunk = g.chunk
      /\ h.pending = g.pending \o texts /\ h.sum = g.sum \o texts
      /\ h.flushing = g.flushing
  BY DEF Appended, Generations
<1>4. h \in Generations(Text)
  BY <1>2 DEF Appended, Generations
<1>5. g.written \o g.chunk \in Seq(Text)
  BY <1>1, ConcatProperties
<1>6. (g.written \o g.chunk \o g.pending) \o texts
          = g.written \o g.chunk \o (g.pending \o texts)
  <2> DEFINE front == g.written \o g.chunk
             back == g.pending
  <2>1. front \in Seq(Text) /\ back \in Seq(Text)
    BY <1>1, <1>5
  <2> HIDE DEF front, back
  <2>2. (front \o back) \o texts = front \o (back \o texts)
    BY <2>1, ConcatAssociative
  <2> QED BY <2>2 DEF front, back
<1> HIDE DEF h
<1>7. h.sum = Content(h)
  BY <1>3, <1>6 DEF Content
<1> QED BY <1>3, <1>4, <1>7 DEF h

\* A flush begun with nothing in the compressor moves what is pending.
LEMMA FlushBegunAccounts ==
    ASSUME NEW g \in Generations(Text), g.sum = Content(g), g.chunk = <<>>
    PROVE  /\ FlushBegun(g) \in Generations(Text)
           /\ FlushBegun(g).sum = g.sum
           /\ FlushBegun(g).sum = Content(FlushBegun(g))
           /\ FlushBegun(g).flushing
<1> DEFINE h == FlushBegun(g)
<1>1. /\ g.written \in Seq(Text) /\ g.pending \in Seq(Text)
  BY DEF Generations
<1>2. <<>> \in Seq(Text)
  BY EmptySeq
<1>3. /\ h.written = g.written /\ h.chunk = g.pending
      /\ h.pending = <<>> /\ h.sum = g.sum /\ h.flushing = TRUE
  BY DEF FlushBegun, Generations
<1>4. h \in Generations(Text)
  BY <1>2 DEF FlushBegun, Generations
<1>5. /\ g.written \o g.pending \in Seq(Text)
      /\ g.written \o <<>> = g.written
  BY <1>1, ConcatProperties, ConcatEmptySeq
<1>6. (g.written \o g.pending) \o <<>> = g.written \o g.pending
  BY <1>5, ConcatEmptySeq
<1> HIDE DEF h
<1>7. h.sum = Content(h)
  BY <1>3, <1>5, <1>6 DEF Content
<1> QED BY <1>3, <1>4, <1>7 DEF h

\* A flush ended: nothing is left in the compressor, and what was counted is
\* what is compressed and what is pending.
LEMMA FlushEndedAccounts ==
    ASSUME NEW g \in Generations(Text), g.sum = Content(g)
    PROVE  /\ FlushEnded(g) \in Generations(Text)
           /\ FlushEnded(g).sum = g.sum
           /\ FlushEnded(g).sum = Content(FlushEnded(g))
           /\ FlushEnded(g).chunk = <<>>
           /\ ~FlushEnded(g).flushing
           /\ FlushEnded(g).pending = g.pending
<1> DEFINE h == FlushEnded(g)
<1>1. /\ g.written \in Seq(Text) /\ g.pending \in Seq(Text) /\ g.chunk \in Seq(Text)
  BY DEF Generations
<1>2. <<>> \in Seq(Text) /\ g.written \o g.chunk \in Seq(Text)
  BY <1>1, EmptySeq, ConcatProperties
<1>3. /\ h.written = g.written \o g.chunk /\ h.chunk = <<>>
      /\ h.pending = g.pending /\ h.sum = g.sum /\ h.flushing = FALSE
  BY DEF FlushEnded, Generations
<1>4. h \in Generations(Text)
  BY <1>2 DEF FlushEnded, Generations
<1>5. (g.written \o g.chunk) \o <<>> = g.written \o g.chunk
  BY <1>2, ConcatEmptySeq
<1> HIDE DEF h
<1>6. h.sum = Content(h)
  BY <1>3, <1>5 DEF Content
<1> QED BY <1>3, <1>4, <1>6 DEF h

\* With nothing in the compressor and nothing pending, what is compressed is
\* all that was counted.
LEMMA FlushedIsAll ==
    ASSUME NEW g \in Generations(Text), g.sum = Content(g),
           g.chunk = <<>>, g.pending = <<>>
    PROVE  g.written = g.sum
<1>1. g.written \in Seq(Text)
  BY DEF Generations
<1>2. g.written \o <<>> = g.written
  BY <1>1, ConcatEmptySeq
<1> QED BY <1>2 DEF Content

-----------------------------------------------------------------------------
(***************************************************************************)
(* What the parts of an action establish.                                  *)
(***************************************************************************)

\* What a reader is told in a step is the room: exactly, or as its end.
Honest ==
    \A r \in Readers : Answered(r) =>
        /\ answer'[r].coding = "plain" => answer'[r].texts = Texts(entries')
        /\ answer'[r].coding = "gzip" => EndsWith(answer'[r].texts, entries')

\* A push appends to the live generation what keeps it one array that ends
\* with the room.
LEMMA PushLive ==
    ASSUME IInv, NEW i \in Nat, GzipAppend(TextOf(i, Len(entries)))
    PROVE  /\ live' \in Generations(Text)
           /\ live'.sum = Content(live')
           /\ live'.sum # <<>> => OneArray(live'.sum)
           /\ live'.flushing = live.flushing
           /\ live'.chunk = live.chunk
           /\ enabled => EndsWith(live'.sum, Append(entries, i))
<1> DEFINE text == TextOf(i, Len(entries))
<1>1. /\ live \in Generations(Text) /\ live.sum = Content(live)
      /\ entries \in Seq(Nat)
  BY DEF IInv, TypeOK, CachesConsistent
<1>2. CASE ~enabled
  <2>1. live' = live
    BY <1>2 DEF GzipAppend
  <2> QED BY <1>1, <1>2, <2>1 DEF IInv, CachesConsistent
<1>3. CASE enabled
  <2>1. text \in Text /\ text.id = i /\ text.sep = Sep(Len(entries) + 1)
    BY <1>1, TextsOfAppend DEF TextOf
  <2>2. live' = Appended(live, <<text>>)
    BY <1>3 DEF GzipAppend
  <2>3. <<text>> \in Seq(Text) /\ live.sum \in Seq(Text)
    BY <1>1, <2>1 DEF Generations
  <2> HIDE DEF text
  <2>4. /\ live' \in Generations(Text)
        /\ live'.sum = live.sum \o <<text>>
        /\ live'.sum = Content(live')
        /\ live'.flushing = live.flushing
        /\ live'.chunk = live.chunk
    BY <1>1, <2>2, <2>3, AppendedAccounts
  <2>5. live'.sum = Append(live.sum, text)
    BY <2>1, <2>3, <2>4, AppendIsConcat
  <2>6. EndsWith(live.sum, entries)
    BY <1>3 DEF IInv, LiveHoldsRoom
  <2>7. EndsWith(Append(live.sum, text), Append(entries, i))
    BY <1>1, <2>1, <2>3, <2>6, EndsWithAppend
  <2>8. Fits(live.sum, text)
    <3>1. CASE live.sum = <<>>
      <4>1. Len(entries) <= 0 /\ Len(entries) \in Nat
        BY <1>1, <2>6, <3>1, LenProperties, EmptySeq DEF EndsWith
      <4>2. Len(entries) + 1 = 1
        BY <4>1
      <4> QED BY <2>1, <3>1, <4>2 DEF Fits, Sep
    <3>2. CASE live.sum # <<>>
      <4>1. entries # <<>> /\ OneArray(live.sum)
        BY <1>3, <3>2 DEF IInv, CachesConsistent
      <4>2. Len(entries) + 1 # 1
        BY <1>1, <4>1, EmptySeq
      <4> QED BY <2>1, <3>2, <4>1, <4>2 DEF Fits, Sep
    <3> QED BY <3>1, <3>2
  <2>9. OneArray(live'.sum)
    BY <2>1, <2>3, <2>5, <2>8, OneArrayAppend
  <2> QED BY <2>4, <2>5, <2>7, <2>9
<1> QED BY <1>2, <1>3

\* A message that is not in the room makes no repetition when it is pushed.
LEMMA PushRoom ==
    ASSUME IInv, NEW i \in Nat, i \notin seen
    PROVE  LET room == Append(entries, i)
           IN  /\ room \in Seq(Nat)
               /\ Len(room) = Len(entries) + 1
               /\ Range(room) = seen \cup {i}
               /\ \A j, k \in 1..Len(room) : room[j] = room[k] => j = k
<1> DEFINE n == Len(entries)
           room == Append(entries, i)
<1>1. /\ entries \in Seq(Nat) /\ seen = Range(entries) /\ n \in Nat
      /\ \A j, k \in 1..n : entries[j] = entries[k] => j = k
  BY LenProperties DEF IInv, TypeOK, RoomHasNoRepeats
<1>2. /\ room \in Seq(Nat)
      /\ Len(room) = n + 1
      /\ \A k \in 1..n : room[k] = entries[k]
      /\ room[n + 1] = i
  BY <1>1, AppendProperties
<1>3. DOMAIN entries = 1..n /\ DOMAIN room = 1..(n + 1)
  BY <1>1, <1>2, LenProperties
<1> HIDE DEF n, room
<1>4. \A k \in 1..n : entries[k] \in seen
  BY <1>1, <1>3 DEF Range
<1>5. 1..(n + 1) = (1..n) \cup {n + 1}
  BY <1>1
<1>6. Range(room) = seen \cup {i}
  BY <1>1, <1>2, <1>3, <1>5 DEF Range
<1>7. ASSUME NEW j \in 1..(n + 1), NEW k \in 1..(n + 1), room[j] = room[k]
      PROVE  j = k
  BY <1>1, <1>2, <1>4, <1>5, <1>7
<1> QED BY <1>2, <1>6, <1>7 DEF n, room

\* payload() under the invariant: the prefix is brought up to date or still
\* is, and the response is the room.
LEMMA PayloadIsRoom ==
    ASSUME IInv, ServePayload
    PROVE  /\ base' \in Seq(Nat)
           /\ baseCount' \in Nat
           /\ baseCount' = Len(base')
           /\ baseCount' <= Len(entries)
           /\ base' = SubSeq(entries, 1, baseCount')
           /\ Payload(base', baseCount') \in Answers
           /\ Payload(base', baseCount').coding = "plain"
           /\ Payload(base', baseCount').texts = Texts(entries)
<1>1. /\ entries \in Seq(Nat) /\ base \in Seq(Nat) /\ baseCount \in Nat
      /\ baseCount = Len(base) /\ baseCount <= Len(entries)
      /\ base = SubSeq(entries, 1, baseCount)
  BY DEF IInv, TypeOK, CachesConsistent
<1>2. Len(entries) \in Nat /\ SubSeq(entries, 1, Len(entries)) = entries
  BY <1>1, LenProperties, SubSeqFull
<1>3. /\ base' \in Seq(Nat)
      /\ baseCount' \in Nat
      /\ baseCount' = Len(base')
      /\ baseCount' <= Len(entries)
      /\ base' = SubSeq(entries, 1, baseCount')
  <2>1. CASE base' = entries /\ baseCount' = Len(entries)
    BY <1>1, <1>2, <2>1
  <2>2. CASE UNCHANGED cacheVars
    BY <1>1, <2>2 DEF cacheVars
  <2> QED BY <2>1, <2>2 DEF ServePayload
<1>4. base' \o SubSeq(entries, baseCount' + 1, Len(entries)) = entries
  <2> DEFINE k == baseCount'
             n == Len(entries)
  <2>1. /\ 1 \in 1..n + 1 /\ k \in (1 - 1)..n /\ n \in k..n
    BY <1>2, <1>3
  <2>2. SubSeq(entries, 1, k) \o SubSeq(entries, k + 1, n) = SubSeq(entries, 1, n)
    <3> HIDE DEF k
    <3> QED BY <1>1, <2>1, ConcatAdjacentSubSeq
  <2> QED BY <1>2, <1>3, <2>2
<1>5. Texts(entries) \in Seq(Text)
  BY <1>1, TextsOfRoom
<1>6. Payload(base', baseCount')
          = [coding |-> "plain", texts |-> Texts(entries), sum |-> Texts(entries)]
  BY <1>4 DEF Payload
<1> QED BY <1>3, <1>5, <1>6 DEF Answers

\* Sending a response to some of the readers.
LEMMA SendAnswers ==
    ASSUME IInv, NEW rs \in SUBSET Readers, NEW response \in Answers,
           Send(rs, response),
           response.coding = "gzip" =>
               /\ response.texts = response.sum
               /\ response.texts # <<>> => OneArray(response.texts)
    PROVE  /\ reader' \in [Readers -> ReaderStates]
           /\ answer' \in [Readers -> Answers]
           /\ GzipDecodes'
           /\ \A r \in Readers : reader'[r] = "waiting" =>
                  r \notin rs /\ reader[r] = "waiting"
           /\ \A r \in Readers : Answered(r) => answer'[r] = response
<1>1. reader \in [Readers -> ReaderStates] /\ answer \in [Readers -> Answers]
  BY DEF IInv, TypeOK
<1>2. \A r \in Readers :
          /\ reader'[r] = IF r \in rs THEN "answered" ELSE reader[r]
          /\ answer'[r] = IF r \in rs THEN response ELSE answer[r]
  BY DEF Send
<1>3. reader' \in [Readers -> ReaderStates] /\ answer' \in [Readers -> Answers]
  BY <1>1 DEF Send, ReaderStates
<1>4. GzipDecodes'
  <2>1. SUFFICES ASSUME NEW r \in Readers, answer'[r].coding = "gzip"
                 PROVE  /\ answer'[r].texts = answer'[r].sum
                        /\ answer'[r].texts # <<>> => OneArray(answer'[r].texts)
    BY DEF GzipDecodes, OneArray
  <2>2. CASE r \in rs
    BY <1>2, <2>1, <2>2
  <2>3. CASE r \notin rs
    <3>1. answer'[r] = answer[r]
      BY <1>2, <2>3
    <3> QED BY <2>1, <3>1 DEF IInv, GzipDecodes
  <2> QED BY <2>2, <2>3
<1>5. ASSUME NEW r \in Readers, reader'[r] = "waiting"
      PROVE  r \notin rs /\ reader[r] = "waiting"
  BY <1>2, <1>5
<1>6. ASSUME NEW r \in Readers, Answered(r) PROVE answer'[r] = response
  BY <1>2, <1>6 DEF Answered
<1> QED BY <1>3, <1>4, <1>5, <1>6

-----------------------------------------------------------------------------
(***************************************************************************)
(* The invariant is inductive: initially, and one lemma per action.        *)
(***************************************************************************)

LEMMA InitIInv == ASSUME Init PROVE IInv
<1> USE DEF Init
<1>1. /\ <<>> \in Seq(Nat) /\ <<>> \in Seq(Text) /\ Len(<<>>) = 0
  BY EmptySeq
<1>2. <<>> \o <<>> = <<>>
  BY <1>1, ConcatEmptySeq
<1>3. Fresh \in Generations(Text) /\ Fresh.sum = Content(Fresh)
  <2>1. Fresh \in Generations(Text)
    BY <1>1 DEF Fresh, Generations
  <2>2. Fresh.sum = <<>> /\ Fresh.written = <<>> /\ Fresh.chunk = <<>> /\ Fresh.pending = <<>>
    BY DEF Fresh
  <2> QED BY <1>2, <2>1, <2>2 DEF Content
<1>4. TypeOK
  <2>1. NoAnswer \in Answers
    BY <1>1 DEF NoAnswer, Answers
  <2>2. /\ reader \in [Readers -> ReaderStates]
        /\ answer \in [Readers -> Answers]
    BY <2>1 DEF ReaderStates
  <2>3. /\ Len(entries) <= TrimAt /\ arrivals \in 0..MaxArrivals
        /\ entries \in Seq(Nat) /\ base \in Seq(Nat)
        /\ snapshot \in Seq(Text) /\ carry \in Seq(Text)
    BY <1>1, FeedAssumption
  <2>4. /\ seen \in SUBSET Nat /\ baseCount \in Nat /\ enabled \in BOOLEAN
        /\ rebuilding \in BOOLEAN /\ cursor \in Nat /\ immediates \in Nat
        /\ known \in Nat
    OBVIOUS
  <2>5. live \in Generations(Text) /\ building \in Generations(Text)
    BY <1>3
  <2> QED BY <2>2, <2>3, <2>4, <2>5 DEF TypeOK
<1>5. RoomHasNoRepeats
  BY <1>1 DEF RoomHasNoRepeats, Range
<1>6. GzipDecodes
  BY DEF GzipDecodes, NoAnswer
<1>7. LiveHoldsRoom
  BY <1>1 DEF LiveHoldsRoom, EndsWith, Fresh
<1>8. SubSeq(<<>>, 1, 0) = <<>>
  BY SubSeqEmpty
<1>9. CachesConsistent
  BY <1>1, <1>3, <1>8 DEF CachesConsistent, Fresh
<1>10. NothingStranded
  BY DEF NothingStranded
<1> QED BY <1>4, <1>5, <1>6, <1>7, <1>9, <1>10 DEF IInv

\* A message within the slack: the room, the stream and, during a rebuild,
\* what is carried over all get it.
LEMMA PushKeptStep ==
    ASSUME IInv, NEW i \in 1..known + 1, PushKept(i)
    PROVE  IInv' /\ Honest
<1> USE DEF PushKept
<1> DEFINE text == TextOf(i, Len(entries))
<1>1. /\ TypeOK /\ RoomHasNoRepeats /\ GzipDecodes /\ LiveHoldsRoom
      /\ CachesConsistent /\ NothingStranded
  BY DEF IInv
<1>2. known \in Nat /\ arrivals \in 0..MaxArrivals /\ entries \in Seq(Nat) /\ carry \in Seq(Text)
  BY <1>1 DEF TypeOK
<1>3. i \in Nat /\ known' \in Nat /\ arrivals' \in 0..MaxArrivals /\ i \notin seen
  BY <1>2, FeedAssumption DEF Accept
<1>4. /\ live' \in Generations(Text)
      /\ live'.sum = Content(live')
      /\ live'.sum # <<>> => OneArray(live'.sum)
      /\ live'.flushing = live.flushing
      /\ live'.chunk = live.chunk
      /\ enabled => EndsWith(live'.sum, entries')
  BY <1>3, PushLive
<1>5. /\ entries' \in Seq(Nat)
      /\ Len(entries') = Len(entries) + 1
      /\ Range(entries') = seen'
      /\ \A j, k \in 1..Len(entries') : entries'[j] = entries'[k] => j = k
  BY <1>3, PushRoom
<1>6. text \in Text /\ Texts(entries') = Append(Texts(entries), text)
  BY <1>2, <1>3, TextsOfAppend
<1>7. Len(entries) \in Nat /\ Len(entries') <= TrimAt /\ entries' # <<>>
  BY <1>2, <1>5, LenProperties, EmptySeq, FeedAssumption DEF Full
<1>8. carry' \in Seq(Text)
  BY <1>2, <1>6, AppendProperties
<1>9. TypeOK'
  BY <1>1, <1>3, <1>4, <1>5, <1>7, <1>8
     DEF TypeOK, cacheVars, readerVars, Accept
<1>10. RoomHasNoRepeats'
  BY <1>5 DEF RoomHasNoRepeats
<1>11. GzipDecodes'
  BY <1>1 DEF GzipDecodes, readerVars, OneArray
<1>12. LiveHoldsRoom'
  <2>1. SUFFICES ASSUME enabled, rebuilding
                 PROVE  snapshot \o carry' = Texts(entries')
    BY <1>4 DEF LiveHoldsRoom
  <2>2. snapshot \o carry = Texts(entries) /\ snapshot \in Seq(Text)
    BY <1>1, <2>1 DEF LiveHoldsRoom, TypeOK
  <2>3. carry' = carry \o <<text>> /\ <<text>> \in Seq(Text)
    BY <1>2, <1>6, <2>1, AppendIsConcat
  <2> HIDE DEF text
  <2>4. (snapshot \o carry) \o <<text>> = snapshot \o (carry \o <<text>>)
    <3> DEFINE one == <<text>>
    <3>1. one \in Seq(Text) /\ carry \in Seq(Text) /\ snapshot \in Seq(Text)
      BY <1>2, <2>2, <2>3
    <3> HIDE DEF one
    <3>2. (snapshot \o carry) \o one = snapshot \o (carry \o one)
      BY ONLY <3>1, ConcatAssociative
    <3> QED BY <3>2 DEF one
  <2>5. Texts(entries) \in Seq(Text)
    BY <1>2, TextsOfRoom
  <2>6. Append(Texts(entries), text) = Texts(entries) \o <<text>>
    BY <1>6, <2>5, AppendIsConcat
  <2> QED BY <1>6, <2>2, <2>3, <2>4, <2>6
<1>13. CachesConsistent'
  <2>1. base = SubSeq(entries', 1, baseCount)
    <3>1. /\ baseCount \in Nat /\ baseCount <= Len(entries)
          /\ base = SubSeq(entries, 1, baseCount)
      BY <1>1 DEF CachesConsistent, TypeOK
    <3>2. CASE baseCount = 0
      BY <3>1, <3>2, SubSeqEmpty
    <3>3. CASE baseCount # 0
      <4>1. entries' = entries \o <<i>> /\ <<i>> \in Seq(Nat)
        BY <1>2, <1>3, AppendIsConcat
      <4>2. 1 \in 1..Len(entries) /\ baseCount \in 1..Len(entries)
        BY <1>7, <3>1, <3>3
      <4>3. SubSeq(entries \o <<i>>, 1, baseCount) = SubSeq(entries, 1, baseCount)
        BY <1>2, <4>1, <4>2, SubSeqOfConcat1
      <4> QED BY <3>1, <4>1, <4>3
    <3> QED BY <3>2, <3>3
  <2>2. baseCount = Len(base) /\ baseCount <= Len(entries')
    BY <1>1, <1>5, <1>7 DEF CachesConsistent, TypeOK
  <2>3. /\ live'.flushing => enabled
        /\ enabled => (~live'.flushing => live'.chunk = <<>>)
        /\ rebuilding =>
             /\ enabled
             /\ cursor <= Len(snapshot)
             /\ building.pending = SubSeq(snapshot, 1, cursor)
             /\ building.sum = building.pending
             /\ building.written = <<>> /\ building.chunk = <<>> /\ ~building.flushing
    BY <1>1, <1>4 DEF CachesConsistent
  <2> QED BY <1>4, <1>7, <2>1, <2>2, <2>3 DEF CachesConsistent, cacheVars, OneArray
<1>14. NothingStranded'
  BY <1>1, <1>4 DEF NothingStranded, readerVars
<1>15. Honest
  BY DEF Honest, Answered, readerVars
<1> QED BY <1>9, <1>10, <1>11, <1>12, <1>13, <1>14, <1>15 DEF IInv

\* A message over the slack: what is left of the room is still the end of
\* the live stream, and is the snapshot of the replacement.
LEMMA PushTrimmingStep ==
    ASSUME IInv, NEW i \in 1..known + 1, PushTrimming(i)
    PROVE  IInv' /\ Honest
<1> USE DEF PushTrimming
<1> DEFINE room == Append(entries, i)
<1>1. /\ TypeOK /\ RoomHasNoRepeats /\ GzipDecodes /\ LiveHoldsRoom
      /\ CachesConsistent /\ NothingStranded
  BY DEF IInv
<1>2. known \in Nat /\ arrivals \in 0..MaxArrivals /\ entries \in Seq(Nat)
  BY <1>1 DEF TypeOK
<1>3. i \in Nat /\ known' \in Nat /\ arrivals' \in 0..MaxArrivals /\ i \notin seen
  BY <1>2, FeedAssumption DEF Accept
<1>4. /\ live' \in Generations(Text)
      /\ live'.sum = Content(live')
      /\ live'.sum # <<>> => OneArray(live'.sum)
      /\ live'.flushing = live.flushing
      /\ live'.chunk = live.chunk
      /\ enabled => EndsWith(live'.sum, room)
  BY <1>3, PushLive
<1>5. /\ room \in Seq(Nat)
      /\ Len(room) = Len(entries) + 1
      /\ Range(room) = seen \cup {i}
      /\ \A j, k \in 1..Len(room) : room[j] = room[k] => j = k
  BY <1>3, PushRoom
<1>6. Len(entries) \in Nat /\ MaxEntries \in Nat \ {0} /\ TrimAt \in Nat
      /\ MaxEntries <= TrimAt /\ MaxEntries <= Len(room)
  BY <1>2, <1>5, LenProperties, FeedAssumption DEF Full
<1> HIDE DEF room
<1>7. /\ entries' \in Seq(Nat)
      /\ Len(entries') = MaxEntries
      /\ \A k \in 1..MaxEntries : entries'[k] = room[Len(room) - MaxEntries + k]
      /\ enabled => EndsWith(live'.sum, entries')
  <2>1. entries' = SubSeq(room, Len(room) - MaxEntries + 1, Len(room))
    BY DEF Trimmed, room
  <2>2. ASSUME NEW texts \in Seq(Text), EndsWith(texts, room)
        PROVE  /\ entries' \in Seq(Nat)
               /\ Len(entries') = MaxEntries
               /\ \A k \in 1..MaxEntries : entries'[k] = room[Len(room) - MaxEntries + k]
               /\ EndsWith(texts, entries')
    <3>1. room \in Seq(Nat) /\ MaxEntries \in Nat /\ MaxEntries <= Len(room)
      BY <1>5, <1>6
    <3> QED BY ONLY <2>1, <2>2, <3>1, EndsWithTrim
  <2>3. Texts(room) \in Seq(Text) /\ EndsWith(Texts(room), room)
    BY <1>5, TextsOfRoom, EndsWithItself
  <2>4. live'.sum \in Seq(Text)
    BY <1>4 DEF Generations
  <2> QED BY <1>4, <2>2, <2>3, <2>4
<1>8. entries' # <<>> /\ seen' = Range(entries')
  BY <1>6, <1>7, EmptySeq DEF SeenAfterTrim
<1>9. seen' \in SUBSET Nat
  <2>1. DOMAIN entries' = 1..MaxEntries
    BY <1>7, LenProperties
  <2>2. \A k \in 1..MaxEntries : entries'[k] \in Nat
    BY <1>7, ElementOfSeq
  <2> QED BY <1>8, <2>1, <2>2 DEF Range
<1>10. /\ Texts(entries') \in Seq(Text)
       /\ <<>> \in Seq(Text) /\ <<>> \in Seq(Nat) /\ Len(<<>>) = 0
  BY <1>7, TextsOfRoom, EmptySeq
<1>11. Fresh \in Generations(Text)
  BY <1>10 DEF Fresh, Generations
<1>12. TypeOK'
  <2>1. /\ rebuilding' \in BOOLEAN /\ building' \in Generations(Text)
        /\ snapshot' \in Seq(Text) /\ cursor' \in Nat /\ carry' \in Seq(Text)
        /\ immediates' \in Nat
    <3>1. CASE enabled
      BY <1>1, <1>10, <1>11, <3>1 DEF Rebuild, TypeOK
    <3>2. CASE ~enabled
      BY <1>1, <3>2 DEF Rebuild, TypeOK, rebuildVars
    <3> QED BY <3>1, <3>2
  <2>2. base' \in Seq(Nat) /\ baseCount' \in Nat
    BY <1>10 DEF BaseAfterTrim
  <2>3. Len(entries') <= TrimAt
    BY <1>6, <1>7
  <2> QED BY <1>1, <1>3, <1>4, <1>7, <1>9, <2>1, <2>2, <2>3 DEF TypeOK, readerVars
<1>13. RoomHasNoRepeats'
  <2>1. ASSUME NEW j \in 1..MaxEntries, NEW k \in 1..MaxEntries, entries'[j] = entries'[k]
        PROVE  j = k
    <3> DEFINE d == Len(room) - MaxEntries
    <3>1. d + j \in 1..Len(room) /\ d + k \in 1..Len(room) /\ d \in Int
      BY <1>5, <1>6
    <3>2. room[d + j] = room[d + k]
      BY <1>7, <2>1
    <3>3. d + j = d + k
      BY <1>5, <3>1, <3>2
    <3> QED BY <3>1, <3>3
  <2> QED BY <1>7, <1>8, <2>1 DEF RoomHasNoRepeats
<1>14. GzipDecodes'
  BY <1>1 DEF GzipDecodes, readerVars, OneArray
<1>15. LiveHoldsRoom'
  <2>1. Texts(entries') \o <<>> = Texts(entries')
    BY <1>10, ConcatEmptySeq
  <2>2. enabled => snapshot' = Texts(entries') /\ carry' = <<>>
    BY DEF Rebuild
  <2> QED BY <1>7, <2>1, <2>2 DEF LiveHoldsRoom
<1>16. CachesConsistent'
  <2>1. /\ base' = <<>> /\ baseCount' = 0
        /\ SubSeq(entries', 1, 0) = <<>>
    BY <1>10, SubSeqEmpty DEF BaseAfterTrim
  <2>2. rebuilding' =>
          /\ enabled
          /\ cursor' <= Len(snapshot')
          /\ building'.pending = SubSeq(snapshot', 1, cursor')
          /\ building'.sum = building'.pending
          /\ building'.written = <<>> /\ building'.chunk = <<>> /\ ~building'.flushing
    <3>1. CASE enabled
      <4>1. building' = Fresh /\ cursor' = 0 /\ snapshot' = Texts(entries')
        BY <3>1 DEF Rebuild
      <4>2. SubSeq(snapshot', 1, 0) = <<>>
        BY SubSeqEmpty
      <4>3. Len(snapshot') \in Nat
        BY <1>10, <4>1, LenProperties
      <4>4. /\ building'.pending = <<>> /\ building'.sum = <<>>
            /\ building'.written = <<>> /\ building'.chunk = <<>> /\ ~building'.flushing
        BY <4>1 DEF Fresh
      <4>5. cursor' <= Len(snapshot')
        BY <4>1, <4>3
      <4> QED BY <3>1, <4>1, <4>2, <4>4, <4>5
    <3>2. CASE ~enabled
      BY <1>1, <3>2 DEF Rebuild, rebuildVars, CachesConsistent
    <3> QED BY <3>1, <3>2
  <2>3. /\ live'.flushing => enabled
        /\ enabled => (~live'.flushing => live'.chunk = <<>>)
    BY <1>1, <1>4 DEF CachesConsistent
  <2>4. baseCount' = Len(base') /\ baseCount' <= Len(entries')
    BY <1>6, <1>7, <1>10, <2>1
  <2> QED BY <1>4, <1>8, <2>1, <2>2, <2>3, <2>4 DEF CachesConsistent, OneArray
<1>17. NothingStranded'
  <2>1. rebuilding' => immediates' > 0
    <3>1. immediates \in Nat /\ (rebuilding => immediates > 0)
      BY <1>1 DEF TypeOK, NothingStranded
    <3>2. CASE enabled
      <4>1. immediates' = immediates + 1
        BY <3>2 DEF Rebuild
      <4> QED BY <3>1, <4>1
    <3>3. CASE ~enabled
      <4>1. rebuilding' = rebuilding /\ immediates' = immediates
        BY <3>3 DEF Rebuild, rebuildVars
      <4> QED BY <3>1, <4>1
    <3> QED BY <3>2, <3>3
  <2> QED BY <1>1, <1>4, <2>1 DEF NothingStranded, readerVars
<1>18. Honest
  BY DEF Honest, Answered, readerVars
<1> QED BY <1>12, <1>13, <1>14, <1>15, <1>16, <1>17, <1>18 DEF IInv

\* Actions that leave the messages, the store and the compressor alone.
Undisturbed ==
    UNCHANGED <<entries, seen, gzipVars, arrivalVars>>

\* Such an action keeps the invariant when it keeps the readers' part of it
\* and leaves a prefix of the room in the cache.
LEMMA ReaderStep ==
    ASSUME IInv, Undisturbed,
           base' \in Seq(Nat), baseCount' \in Nat,
           baseCount' = Len(base'), baseCount' <= Len(entries),
           base' = SubSeq(entries, 1, baseCount'),
           reader' \in [Readers -> ReaderStates],
           answer' \in [Readers -> Answers],
           GzipDecodes',
           \A r \in Readers : reader'[r] = "waiting" => reader[r] = "waiting"
    PROVE  IInv'
<1> USE DEF Undisturbed, gzipVars, rebuildVars, arrivalVars
<1>1. /\ TypeOK /\ RoomHasNoRepeats /\ GzipDecodes /\ LiveHoldsRoom
      /\ CachesConsistent /\ NothingStranded
  BY DEF IInv
<1>2. TypeOK'
  BY <1>1 DEF TypeOK
<1>3. RoomHasNoRepeats'
  BY <1>1 DEF RoomHasNoRepeats
<1>4. LiveHoldsRoom'
  BY <1>1 DEF LiveHoldsRoom
<1>5. CachesConsistent'
  BY <1>1 DEF CachesConsistent
<1>6. NothingStranded'
  BY <1>1 DEF NothingStranded
<1> QED BY <1>2, <1>3, <1>4, <1>5, <1>6 DEF IInv

\* The uncompressed response, for whatever reason it is sent.
LEMMA PlainStep ==
    ASSUME IInv, NEW r \in Readers, ServePayload,
           Send({r}, Payload(base', baseCount')), Undisturbed
    PROVE  IInv' /\ Honest
<1>1. /\ base' \in Seq(Nat) /\ baseCount' \in Nat
      /\ baseCount' = Len(base') /\ baseCount' <= Len(entries)
      /\ base' = SubSeq(entries, 1, baseCount')
      /\ Payload(base', baseCount') \in Answers
      /\ Payload(base', baseCount').coding = "plain"
      /\ Payload(base', baseCount').texts = Texts(entries)
  BY PayloadIsRoom
<1>2. /\ reader' \in [Readers -> ReaderStates]
      /\ answer' \in [Readers -> Answers]
      /\ GzipDecodes'
      /\ \A q \in Readers : reader'[q] = "waiting" => reader[q] = "waiting"
      /\ \A q \in Readers : Answered(q) => answer'[q] = Payload(base', baseCount')
  <2> DEFINE response == Payload(base', baseCount')
  <2>1. response \in Answers /\ response.coding # "gzip" /\ {r} \in SUBSET Readers
    BY <1>1
  <2>2. Send({r}, response)
    OBVIOUS
  <2> HIDE DEF response
  <2>3. /\ reader' \in [Readers -> ReaderStates]
        /\ answer' \in [Readers -> Answers]
        /\ GzipDecodes'
        /\ \A q \in Readers : reader'[q] = "waiting" => q \notin {r} /\ reader[q] = "waiting"
        /\ \A q \in Readers : Answered(q) => answer'[q] = response
    BY <2>1, <2>2, SendAnswers
  <2> QED BY <2>3 DEF response
<1>3. IInv'
  BY <1>1, <1>2, ReaderStep
<1>4. Honest
  <2>1. entries' = entries
    BY DEF Undisturbed
  <2> QED BY <1>1, <1>2, <2>1 DEF Honest
<1> QED BY <1>3, <1>4

LEMMA ReadPlainStep ==
    ASSUME IInv, NEW r \in Readers, ReadPlain(r) PROVE IInv' /\ Honest
BY PlainStep DEF ReadPlain, Undisturbed

LEMMA ReadOrphanedStep ==
    ASSUME IInv, NEW r \in Readers, ReadOrphaned(r) PROVE IInv' /\ Honest
BY PlainStep DEF ReadOrphaned, Undisturbed

LEMMA FinishedStep ==
    ASSUME IInv, NEW r \in Readers, Finished(r) PROVE IInv' /\ Honest
<1> USE DEF Finished
<1>1. /\ TypeOK /\ GzipDecodes /\ CachesConsistent
  BY DEF IInv
<1>2. /\ base' = base /\ baseCount' = baseCount /\ Undisturbed
  BY DEF storeVars, Undisturbed
<1>3. NoAnswer \in Answers /\ NoAnswer.coding # "gzip"
  BY EmptySeq DEF NoAnswer, Answers
<1>4. /\ reader' \in [Readers -> ReaderStates]
      /\ answer' \in [Readers -> Answers]
      /\ \A q \in Readers : reader'[q] = "waiting" => reader[q] = "waiting"
  BY <1>1, <1>3 DEF TypeOK, ReaderStates
<1>5. GzipDecodes'
  BY <1>1, <1>3 DEF GzipDecodes, OneArray, TypeOK
<1>6. IInv'
  BY <1>1, <1>2, <1>4, <1>5, ReaderStep DEF TypeOK, CachesConsistent
<1>7. Honest
  BY <1>1 DEF Honest, Answered, TypeOK
<1> QED BY <1>6, <1>7

\* A compressed response of a stream with nothing left to flush.
LEMMA BodyIsStream ==
    ASSUME NEW g \in Generations(Text), g.sum = Content(g),
           g.chunk = <<>>, g.pending = <<>>
    PROVE  /\ Body(g) \in Answers
           /\ Body(g).coding = "gzip"
           /\ Body(g).texts = g.sum
           /\ Body(g).sum = g.sum
<1>1. g.written = g.sum
  BY FlushedIsAll
<1>2. g.sum \in Seq(Text)
  BY DEF Generations
<1>3. Body(g) = [coding |-> "gzip", texts |-> g.sum, sum |-> g.sum]
  BY <1>1 DEF Body
<1> QED BY <1>2, <1>3 DEF Answers

LEMMA ReadFlushedStep ==
    ASSUME IInv, NEW r \in Readers, ReadFlushed(r) PROVE IInv' /\ Honest
<1> USE DEF ReadFlushed
<1> DEFINE response == Body(live)
<1>1. /\ TypeOK /\ CachesConsistent /\ LiveHoldsRoom
  BY DEF IInv
<1>2. /\ response \in Answers
      /\ response.coding = "gzip"
      /\ response.texts = live.sum
      /\ response.sum = live.sum
  BY <1>1, BodyIsStream DEF TypeOK, CachesConsistent
<1>3. /\ response.texts = response.sum
      /\ response.texts # <<>> => OneArray(response.texts)
  BY <1>1, <1>2 DEF CachesConsistent
<1>4. Send({r}, response) /\ {r} \in SUBSET Readers
  OBVIOUS
<1> HIDE DEF response
<1>5. /\ reader' \in [Readers -> ReaderStates]
      /\ answer' \in [Readers -> Answers]
      /\ GzipDecodes'
      /\ \A q \in Readers : reader'[q] = "waiting" => q \notin {r} /\ reader[q] = "waiting"
      /\ \A q \in Readers : Answered(q) => answer'[q] = response
  BY <1>2, <1>3, <1>4, SendAnswers
<1>6. /\ base' = base /\ baseCount' = baseCount /\ Undisturbed
  BY DEF storeVars, Undisturbed
<1>7. IInv'
  BY <1>1, <1>5, <1>6, ReaderStep DEF TypeOK, CachesConsistent
<1>8. Honest
  <2>1. EndsWith(live.sum, entries) /\ entries' = entries
    BY <1>1 DEF LiveHoldsRoom, storeVars
  <2> QED BY <1>2, <1>5, <2>1 DEF Honest
<1> QED BY <1>7, <1>8

LEMMA ReadWaitsStep ==
    ASSUME IInv, NEW r \in Readers, ReadWaits(r) PROVE IInv' /\ Honest
<1> USE DEF ReadWaits
<1>1. /\ TypeOK /\ RoomHasNoRepeats /\ GzipDecodes /\ LiveHoldsRoom
      /\ CachesConsistent /\ NothingStranded
  BY DEF IInv
<1>2. live \in Generations(Text) /\ live.sum = Content(live)
  BY <1>1 DEF TypeOK, CachesConsistent
<1>3. /\ live' \in Generations(Text)
      /\ live'.sum = live.sum
      /\ live'.sum = Content(live')
      /\ live'.flushing
  <2>1. CASE live.flushing
    BY <1>2, <2>1
  <2>2. CASE ~live.flushing
    <3>1. live.chunk = <<>> /\ live' = FlushBegun(live)
      BY <1>1, <2>2 DEF CachesConsistent
    <3> QED BY <1>2, <3>1, FlushBegunAccounts
  <2> QED BY <2>1, <2>2
<1>4. reader' \in [Readers -> ReaderStates] /\ reader'[r] = "waiting"
  BY <1>1 DEF TypeOK, ReaderStates
<1> USE DEF storeVars, rebuildVars, arrivalVars
<1>5. TypeOK'
  BY <1>1, <1>3, <1>4 DEF TypeOK
<1>6. RoomHasNoRepeats'
  BY <1>1 DEF RoomHasNoRepeats
<1>7. GzipDecodes'
  BY <1>1 DEF GzipDecodes, OneArray
<1>8. LiveHoldsRoom'
  BY <1>1, <1>3 DEF LiveHoldsRoom
<1>9. CachesConsistent'
  BY <1>1, <1>3 DEF CachesConsistent
<1>10. NothingStranded'
  BY <1>1, <1>3 DEF NothingStranded
<1>11. Honest
  BY <1>1, <1>4 DEF Honest, Answered, TypeOK
<1> QED BY <1>5, <1>6, <1>7, <1>8, <1>9, <1>10, <1>11 DEF IInv

\* The compressor is done: either everything counted is compressed and the
\* waiting readers get it, or the next flush is under way for all of them.
LEMMA FlushDoneStep ==
    ASSUME IInv, FlushDone PROVE IInv' /\ Honest
<1> DEFINE g == FlushEnded(live)
<1>1. /\ TypeOK /\ RoomHasNoRepeats /\ GzipDecodes /\ LiveHoldsRoom
      /\ CachesConsistent /\ NothingStranded
  BY DEF IInv
<1>2. /\ live \in Generations(Text) /\ live.sum = Content(live)
      /\ live.flushing /\ enabled
  BY <1>1 DEF TypeOK, CachesConsistent, FlushDone
<1>3. /\ g \in Generations(Text)
      /\ g.sum = live.sum
      /\ g.sum = Content(g)
      /\ g.chunk = <<>>
      /\ ~g.flushing
  BY <1>2, FlushEndedAccounts
<1>4. UNCHANGED <<entries, seen, base, baseCount, enabled, rebuilding, building,
                  snapshot, cursor, carry, immediates, known, arrivals>>
  BY DEF FlushDone, storeVars, rebuildVars, arrivalVars
<1>5. \/ g.pending # <<>> /\ live' = FlushBegun(g) /\ UNCHANGED <<reader, answer>>
      \/ g.pending = <<>> /\ live' = g /\ Send(Waiting, Body(g))
  BY DEF FlushDone, FlushAgain, readerVars
<1> HIDE DEF g
<1>6. /\ live' \in Generations(Text)
      /\ live'.sum = live.sum
      /\ live'.sum = Content(live')
      /\ ~live'.flushing => live'.chunk = <<>>
  <2>1. CASE live' = g
    BY <1>3, <2>1
  <2>2. CASE live' = FlushBegun(g)
    BY <1>3, <2>2, FlushBegunAccounts
  <2> QED BY <1>5, <2>1, <2>2
<1>7. /\ reader' \in [Readers -> ReaderStates]
      /\ answer' \in [Readers -> Answers]
      /\ GzipDecodes'
      /\ \A r \in Readers : reader'[r] = "waiting" => live'.flushing
      /\ \A r \in Readers : Answered(r) => answer'[r].texts = live.sum
      /\ \A r \in Readers : Answered(r) => answer'[r].coding = "gzip"
  <2>1. CASE g.pending # <<>> /\ live' = FlushBegun(g) /\ UNCHANGED <<reader, answer>>
    <3>1. live'.flushing
      BY <1>3, <2>1, FlushBegunAccounts
    <3>2. reader' \in [Readers -> ReaderStates] /\ answer' \in [Readers -> Answers]
      BY <1>1, <2>1 DEF TypeOK
    <3>3. GzipDecodes'
      BY <1>1, <2>1 DEF GzipDecodes, OneArray
    <3>4. \A r \in Readers : ~Answered(r)
      BY <2>1 DEF Answered
    <3> QED BY <3>1, <3>2, <3>3, <3>4
  <2>2. CASE g.pending = <<>> /\ live' = g /\ Send(Waiting, Body(g))
    <3> DEFINE response == Body(g)
    <3>1. /\ response \in Answers
          /\ response.coding = "gzip"
          /\ response.texts = live.sum
          /\ response.sum = live.sum
      BY <1>3, <2>2, BodyIsStream
    <3>2. /\ response.texts = response.sum
          /\ response.texts # <<>> => OneArray(response.texts)
      BY <1>1, <3>1 DEF CachesConsistent
    <3>3. Send(Waiting, response) /\ Waiting \in SUBSET Readers
      BY <2>2 DEF Waiting
    <3> HIDE DEF response
    <3>4. /\ reader' \in [Readers -> ReaderStates]
          /\ answer' \in [Readers -> Answers]
          /\ GzipDecodes'
          /\ \A r \in Readers : reader'[r] = "waiting" =>
                 r \notin Waiting /\ reader[r] = "waiting"
          /\ \A r \in Readers : Answered(r) => answer'[r] = response
      BY <3>1, <3>2, <3>3, SendAnswers
    <3>5. \A r \in Readers : reader'[r] # "waiting"
      BY <3>4 DEF Waiting
    <3> QED BY <3>1, <3>4, <3>5
  <2> QED BY <1>5, <2>1, <2>2
<1>8. TypeOK'
  BY <1>1, <1>4, <1>6, <1>7 DEF TypeOK
<1>9. RoomHasNoRepeats'
  BY <1>1, <1>4 DEF RoomHasNoRepeats
<1>10. LiveHoldsRoom'
  BY <1>1, <1>4, <1>6 DEF LiveHoldsRoom
<1>11. CachesConsistent'
  BY <1>1, <1>2, <1>4, <1>6 DEF CachesConsistent
<1>12. NothingStranded'
  BY <1>1, <1>4, <1>7 DEF NothingStranded
<1>13. Honest
  <2>1. EndsWith(live.sum, entries) /\ entries' = entries
    BY <1>1, <1>2, <1>4 DEF LiveHoldsRoom
  <2> QED BY <1>7, <2>1 DEF Honest
<1> QED BY <1>7, <1>8, <1>9, <1>10, <1>11, <1>12, <1>13 DEF IInv

\* The compressor fails: it is turned off, and all that wait for it get the
\* uncompressed room.
LEMMA FlushFailsStep ==
    ASSUME IInv, FlushFails PROVE IInv' /\ Honest
<1> USE DEF FlushFails
<1> DEFINE response == Payload(base', baseCount')
<1>1. /\ TypeOK /\ RoomHasNoRepeats /\ CachesConsistent
  BY DEF IInv
<1>2. /\ base' \in Seq(Nat) /\ baseCount' \in Nat
      /\ baseCount' = Len(base') /\ baseCount' <= Len(entries)
      /\ base' = SubSeq(entries, 1, baseCount')
      /\ response \in Answers
      /\ response.coding = "plain"
      /\ response.texts = Texts(entries)
  BY PayloadIsRoom
<1>3. Send(Waiting, response) /\ Waiting \in SUBSET Readers /\ response.coding # "gzip"
  BY <1>2 DEF Waiting
<1> HIDE DEF response
<1>4. /\ reader' \in [Readers -> ReaderStates]
      /\ answer' \in [Readers -> Answers]
      /\ GzipDecodes'
      /\ \A r \in Readers : reader'[r] = "waiting" =>
             r \notin Waiting /\ reader[r] = "waiting"
      /\ \A r \in Readers : Answered(r) => answer'[r] = response
  BY <1>2, <1>3, SendAnswers
<1>5. \A r \in Readers : reader'[r] # "waiting"
  BY <1>4 DEF Waiting
<1>6. /\ live' \in Generations(Text)
      /\ live'.sum = live.sum
      /\ live'.sum = Content(live')
      /\ ~live'.flushing
  <2>1. live \in Generations(Text) /\ live.sum = Content(live)
    BY <1>1 DEF TypeOK, CachesConsistent
  <2>2. /\ live' \in Generations(Text)
        /\ live'.sum = live.sum /\ live'.written = live.written
        /\ live'.chunk = live.chunk /\ live'.pending = live.pending
        /\ ~live'.flushing
    BY <2>1 DEF Generations
  <2> QED BY <2>1, <2>2 DEF Content
<1>7. /\ <<>> \in Seq(Text) /\ Fresh \in Generations(Text)
  BY EmptySeq DEF Fresh, Generations
<1>8. TypeOK'
  BY <1>1, <1>2, <1>4, <1>6, <1>7 DEF TypeOK, arrivalVars
<1>9. RoomHasNoRepeats'
  BY <1>1 DEF RoomHasNoRepeats
<1>10. LiveHoldsRoom'
  BY DEF LiveHoldsRoom
<1>11. CachesConsistent'
  BY <1>1, <1>2, <1>6 DEF CachesConsistent
<1>12. NothingStranded'
  BY <1>5 DEF NothingStranded
<1>13. Honest
  BY <1>2, <1>4 DEF Honest
<1> QED BY <1>4, <1>8, <1>9, <1>10, <1>11, <1>12, <1>13 DEF IInv

LEMMA StepStaleStep ==
    ASSUME IInv, StepStale PROVE IInv' /\ Honest
<1> USE DEF StepStale, storeVars, rebuildVars, readerVars, arrivalVars
<1>1. /\ TypeOK /\ RoomHasNoRepeats /\ GzipDecodes /\ LiveHoldsRoom
      /\ CachesConsistent /\ NothingStranded
  BY DEF IInv
<1>2. TypeOK'
  BY <1>1 DEF TypeOK
<1>3. RoomHasNoRepeats'
  BY <1>1 DEF RoomHasNoRepeats
<1>4. GzipDecodes'
  BY <1>1 DEF GzipDecodes, OneArray
<1>5. LiveHoldsRoom'
  BY <1>1 DEF LiveHoldsRoom
<1>6. CachesConsistent'
  BY <1>1 DEF CachesConsistent
<1>7. NothingStranded'
  BY <1>1 DEF NothingStranded
<1>8. Honest
  BY DEF Honest, Answered
<1> QED BY <1>2, <1>3, <1>4, <1>5, <1>6, <1>7, <1>8 DEF IInv

\* One chunk of the snapshot: the replacement then holds the snapshot up to
\* the new cursor.
LEMMA CopyAccounts ==
    ASSUME IInv, rebuilding
    PROVE  LET g == CopyChunk(building)
           IN  /\ ChunkEnd \in Nat
               /\ ChunkEnd <= Len(snapshot)
               /\ g \in Generations(Text)
               /\ g.sum = SubSeq(snapshot, 1, ChunkEnd)
               /\ g.sum = Content(g)
               /\ g.pending = g.sum
               /\ g.written = <<>> /\ g.chunk = <<>> /\ ~g.flushing
<1> DEFINE part == SubSeq(snapshot, cursor + 1, ChunkEnd)
           g == CopyChunk(building)
<1>1. /\ snapshot \in Seq(Text) /\ cursor \in Nat /\ cursor <= Len(snapshot)
      /\ building \in Generations(Text)
      /\ building.pending = SubSeq(snapshot, 1, cursor)
      /\ building.sum = building.pending
      /\ building.written = <<>> /\ building.chunk = <<>> /\ ~building.flushing
  BY DEF IInv, TypeOK, CachesConsistent
<1>2. /\ Len(snapshot) \in Nat /\ ChunkEnd \in Nat
      /\ cursor <= ChunkEnd /\ ChunkEnd <= Len(snapshot)
  BY <1>1, LenProperties, FeedAssumption DEF ChunkEnd
<1>3. part \in Seq(Text)
  <2>1. \A k \in (cursor + 1)..ChunkEnd : snapshot[k] \in Text
    BY <1>1, <1>2, ElementOfSeq
  <2>2. cursor + 1 \in Int /\ ChunkEnd \in Int
    BY <1>1, <1>2
  <2> QED BY <2>1, <2>2, SubSeqProperties
<1>4. building.sum \o part = SubSeq(snapshot, 1, ChunkEnd)
  <2>1. /\ 1 \in 1..Len(snapshot) + 1
        /\ cursor \in (1 - 1)..Len(snapshot)
        /\ ChunkEnd \in cursor..Len(snapshot)
    BY <1>1, <1>2
  <2>2. SubSeq(snapshot, 1, cursor) \o SubSeq(snapshot, cursor + 1, ChunkEnd)
            = SubSeq(snapshot, 1, ChunkEnd)
    BY <1>1, <2>1, ConcatAdjacentSubSeq
  <2> QED BY <1>1, <2>2
<1>5. building.sum = Content(building)
  <2>1. building.pending \in Seq(Text) /\ <<>> \in Seq(Text)
    BY <1>1, EmptySeq DEF Generations
  <2>2. <<>> \o <<>> = <<>> /\ <<>> \o building.pending = building.pending
    BY <2>1, ConcatEmptySeq
  <2> QED BY <1>1, <2>2 DEF Content
<1>6. g = Appended(building, part)
  BY DEF CopyChunk
<1>7. g.pending = building.pending \o part /\ g.written = building.written
  BY <1>1, <1>6 DEF Appended, Generations
<1> HIDE DEF part, g
<1>8. /\ g \in Generations(Text)
      /\ g.sum = building.sum \o part
      /\ g.sum = Content(g)
      /\ g.flushing = building.flushing
      /\ g.chunk = building.chunk
  BY <1>1, <1>3, <1>5, <1>6, AppendedAccounts
<1> QED BY <1>1, <1>2, <1>4, <1>7, <1>8 DEF g

LEMMA StepCopiesStep ==
    ASSUME IInv, StepCopies PROVE IInv' /\ Honest
<1> USE DEF StepCopies, storeVars, readerVars, arrivalVars
<1>1. /\ TypeOK /\ RoomHasNoRepeats /\ GzipDecodes /\ LiveHoldsRoom
      /\ CachesConsistent /\ NothingStranded
  BY DEF IInv
<1>2. /\ cursor' \in Nat /\ cursor' <= Len(snapshot)
      /\ building' \in Generations(Text)
      /\ building'.pending = SubSeq(snapshot, 1, cursor')
      /\ building'.sum = building'.pending
      /\ building'.written = <<>> /\ building'.chunk = <<>> /\ ~building'.flushing
  BY CopyAccounts
<1>3. TypeOK'
  BY <1>1, <1>2 DEF TypeOK, AfterCopy
<1>4. RoomHasNoRepeats'
  BY <1>1 DEF RoomHasNoRepeats
<1>5. GzipDecodes'
  BY <1>1 DEF GzipDecodes, OneArray
<1>6. LiveHoldsRoom'
  BY <1>1 DEF LiveHoldsRoom
<1>7. CachesConsistent'
  BY <1>1, <1>2 DEF CachesConsistent
<1>8. NothingStranded'
  BY <1>1 DEF NothingStranded, AfterCopy
<1>9. Honest
  BY DEF Honest, Answered
<1> QED BY <1>3, <1>4, <1>5, <1>6, <1>7, <1>8, <1>9 DEF IInv

\* The swap: snapshot and carry together are the room, so the new live
\* generation holds exactly it, and nobody is left waiting for the old one.
LEMMA StepSwapsStep ==
    ASSUME IInv, StepSwaps PROVE IInv' /\ Honest
<1> USE DEF StepSwaps, storeVars, arrivalVars
<1> DEFINE g == CopyChunk(building)
<1>1. /\ TypeOK /\ RoomHasNoRepeats /\ GzipDecodes /\ LiveHoldsRoom
      /\ CachesConsistent /\ NothingStranded
  BY DEF IInv
<1>2. entries \in Seq(Nat) /\ snapshot \in Seq(Text) /\ carry \in Seq(Text)
  BY <1>1 DEF TypeOK
<1>3. /\ enabled
      /\ snapshot \o carry = Texts(entries)
  BY <1>1 DEF CachesConsistent, LiveHoldsRoom
<1>4. /\ g \in Generations(Text)
      /\ g.sum = SubSeq(snapshot, 1, Len(snapshot))
      /\ g.sum = Content(g)
      /\ g.chunk = <<>> /\ ~g.flushing
  BY CopyAccounts
<1>5. live' = Appended(g, carry)
  BY DEF Replacement
<1> HIDE DEF g
<1>6. /\ live' \in Generations(Text)
      /\ live'.sum = Content(live')
      /\ live'.sum = Texts(entries)
      /\ live'.chunk = <<>> /\ ~live'.flushing
  <2>1. SubSeq(snapshot, 1, Len(snapshot)) = snapshot
    BY <1>2, SubSeqFull
  <2>2. /\ live' \in Generations(Text)
        /\ live'.sum = g.sum \o carry
        /\ live'.sum = Content(live')
        /\ live'.flushing = g.flushing
        /\ live'.chunk = g.chunk
    <3>1. /\ Appended(g, carry) \in Generations(Text)
          /\ Appended(g, carry).sum = g.sum \o carry
          /\ Appended(g, carry).sum = Content(Appended(g, carry))
          /\ Appended(g, carry).flushing = g.flushing
          /\ Appended(g, carry).chunk = g.chunk
      BY <1>2, <1>4, AppendedAccounts
    <3> QED BY ONLY <3>1, <1>5
  <2> QED BY <1>3, <1>4, <2>1, <2>2
<1>7. /\ EndsWith(live'.sum, entries)
      /\ live'.sum # <<>> => OneArray(live'.sum)
      /\ entries = <<>> => live'.sum = <<>>
  BY <1>2, <1>6, EndsWithItself
<1>8. /\ <<>> \in Seq(Text) /\ Fresh \in Generations(Text)
  BY EmptySeq DEF Fresh, Generations
<1>9. /\ reader' \in [Readers -> ReaderStates]
      /\ \A r \in Readers : reader'[r] # "waiting"
      /\ \A r \in Readers : reader'[r] = "answered" => reader[r] = "answered"
  BY <1>1 DEF Orphan, TypeOK, ReaderStates
<1>10. immediates' \in Nat
  BY <1>1 DEF TypeOK
<1>11. TypeOK'
  BY <1>1, <1>6, <1>8, <1>9, <1>10 DEF TypeOK
<1>12. RoomHasNoRepeats'
  BY <1>1 DEF RoomHasNoRepeats
<1>13. GzipDecodes'
  BY <1>1 DEF GzipDecodes, OneArray
<1>14. LiveHoldsRoom'
  BY <1>7 DEF LiveHoldsRoom
<1>15. CachesConsistent'
  BY <1>1, <1>6, <1>7 DEF CachesConsistent, OneArray
<1>16. NothingStranded'
  BY <1>9 DEF NothingStranded
<1>17. Honest
  BY <1>9 DEF Honest, Answered
<1> QED BY <1>11, <1>12, <1>13, <1>14, <1>15, <1>16, <1>17 DEF IInv

-----------------------------------------------------------------------------
(***************************************************************************)
(* The theorems.                                                           *)
(***************************************************************************)

\* Every step keeps the invariant and answers honestly.
LEMMA NextStep == ASSUME IInv, [Next]_vars PROVE IInv' /\ Honest
<1>1. CASE Push
  BY <1>1, PushKeptStep, PushTrimmingStep DEF Push
<1>2. ASSUME NEW r \in Readers, Read(r) PROVE IInv' /\ Honest
  BY <1>2, ReadPlainStep, ReadFlushedStep, ReadWaitsStep, ReadOrphanedStep,
     FinishedStep DEF Read
<1>3. CASE FlushDone
  BY <1>3, FlushDoneStep
<1>4. CASE FlushFails
  BY <1>4, FlushFailsStep
<1>5. CASE Step
  BY <1>5, StepStaleStep, StepCopiesStep, StepSwapsStep DEF Step
<1>6. CASE UNCHANGED vars
  <2> USE <1>6 DEF vars, storeVars, gzipVars, rebuildVars, readerVars, arrivalVars
  <2>1. TypeOK' /\ RoomHasNoRepeats' /\ LiveHoldsRoom'
    BY DEF IInv, TypeOK, RoomHasNoRepeats, LiveHoldsRoom
  <2>2. GzipDecodes' /\ CachesConsistent' /\ NothingStranded'
    BY DEF IInv, GzipDecodes, OneArray, CachesConsistent, NothingStranded
  <2>3. Honest
    BY DEF Honest, Answered
  <2> QED BY <2>1, <2>2, <2>3 DEF IInv
<1> QED BY <1>1, <1>2, <1>3, <1>4, <1>5, <1>6 DEF Next

THEOREM FeedInvariance == Spec => []IInv
<1>1. Init => IInv
  BY InitIInv
<1>2. IInv /\ [Next]_vars => IInv'
  BY NextStep
<1> QED BY <1>1, <1>2, PTL DEF Spec

\* Variables stay in their types, and the room within its slack.
THEOREM FeedTypeCorrect == Spec => []TypeOK
BY FeedInvariance, PTL DEF IInv

\* push() of feedStore.js never lists a message twice.
THEOREM NoMessageTwice == Spec => []RoomHasNoRepeats
BY FeedInvariance, PTL DEF IInv

\* A compressed response that is not of an empty stream decodes to one array.
THEOREM CompressedDecodes == Spec => []GzipDecodes
BY FeedInvariance, PTL DEF IInv

\* The live stream ends with the room and a rebuild will catch up with it.
THEOREM StreamHoldsRoom == Spec => []LiveHoldsRoom
BY FeedInvariance, PTL DEF IInv

\* No rebuild without a callback, no reader without a flush.
THEOREM NobodyStranded == Spec => []NothingStranded
BY FeedInvariance, PTL DEF IInv

\* The uncompressed response is the room at the moment it is sent.
THEOREM PlainExact == Spec => PlainIsRoom
<1>1. IInv /\ [Next]_vars =>
          [\A r \in Readers :
              Answered(r) /\ answer'[r].coding = "plain"
                  => answer'[r].texts = Texts(entries')]_vars
  BY NextStep DEF Honest
<1> QED BY <1>1, FeedInvariance, PTL DEF Spec, PlainIsRoom

\* The compressed response ends with the room at the moment it is sent.
THEOREM CompressedComplete == Spec => LongerNeverShorter
<1>1. IInv /\ [Next]_vars =>
          [\A r \in Readers :
              Answered(r) /\ answer'[r].coding = "gzip"
                  => EndsWith(answer'[r].texts, entries')]_vars
  BY NextStep DEF Honest
<1> QED BY <1>1, FeedInvariance, PTL DEF Spec, LongerNeverShorter

-----------------------------------------------------------------------------
(***************************************************************************)
(* The work left to do for a rebuild.                                      *)
(***************************************************************************)

\* A rebuild is begun from a room that has just been trimmed.
SnapshotIsRoomful == rebuilding => Len(snapshot) = MaxEntries

\* How many texts step() has still to copy, and the swap.
CopiesLeft == IF rebuilding THEN Len(snapshot) - cursor + 1 ELSE 0

CopiesBounded == CopiesLeft \in 0..(MaxEntries + 1)

Trims == \E i \in 1..known + 1 : PushTrimming(i)

CopiesGoDown ==
    /\ Step /\ rebuilding => CopiesLeft' < CopiesLeft
    /\ ~Trims => CopiesLeft' <= CopiesLeft

LEMMA TrimmedIsRoomful ==
    ASSUME IInv, NEW i \in Nat, Full
    PROVE  Trimmed(i) \in Seq(Nat) /\ Len(Texts(Trimmed(i))) = MaxEntries
<1> DEFINE room == Append(entries, i)
<1>1. entries \in Seq(Nat) /\ Len(entries) \in Nat
  BY LenProperties DEF IInv, TypeOK
<1>2. room \in Seq(Nat) /\ Len(room) = Len(entries) + 1
  BY <1>1, AppendProperties
<1>3. MaxEntries \in Nat \ {0} /\ MaxEntries <= Len(room)
  BY <1>1, <1>2, FeedAssumption DEF Full
<1>4. Texts(room) \in Seq(Text) /\ EndsWith(Texts(room), room)
  BY <1>2, TextsOfRoom, EndsWithItself
<1>5. Trimmed(i) = SubSeq(room, Len(room) - MaxEntries + 1, Len(room))
  BY DEF Trimmed
<1> HIDE DEF room
<1>6. Trimmed(i) \in Seq(Nat) /\ Len(Trimmed(i)) = MaxEntries
  <2> DEFINE kept == SubSeq(room, Len(room) - MaxEntries + 1, Len(room))
  <2>1. MaxEntries \in Nat
    BY <1>3
  <2>2. kept \in Seq(Nat) /\ Len(kept) = MaxEntries
    BY ONLY <1>2, <1>3, <1>4, <2>1, EndsWithTrim
  <2> HIDE DEF kept
  <2>3. Trimmed(i) = kept
    BY <1>5 DEF kept
  <2> QED BY <2>2, <2>3
<1> QED BY <1>6, TextsOfRoom

LEMMA SnapshotStep ==
    ASSUME IInv, SnapshotIsRoomful, [Next]_vars
    PROVE  SnapshotIsRoomful'
<1>1. ASSUME UNCHANGED <<rebuilding, snapshot>> \/ ~rebuilding'
      PROVE  SnapshotIsRoomful'
  BY <1>1 DEF SnapshotIsRoomful
<1>2. ASSUME NEW i \in 1..known + 1, PushTrimming(i) PROVE SnapshotIsRoomful'
  <2>1. i \in Nat
    BY DEF IInv, TypeOK
  <2>2. CASE enabled
    BY <1>2, <2>1, <2>2, TrimmedIsRoomful DEF PushTrimming, Rebuild, SnapshotIsRoomful
  <2>3. CASE ~enabled
    BY <1>1, <1>2, <2>3 DEF PushTrimming, Rebuild, rebuildVars
  <2> QED BY <2>2, <2>3
<1>3. ASSUME NEW i \in 1..known + 1, PushKept(i) PROVE SnapshotIsRoomful'
  BY <1>1, <1>3 DEF PushKept
<1>4. ASSUME NEW r \in Readers, Read(r) PROVE SnapshotIsRoomful'
  BY <1>1, <1>4 DEF Read, ReadPlain, ReadFlushed, ReadWaits, ReadOrphaned, Finished,
                    gzipVars, rebuildVars
<1>5. CASE FlushDone \/ FlushFails
  BY <1>1, <1>5 DEF FlushDone, FlushFails, rebuildVars
<1>6. CASE Step
  BY <1>1, <1>6 DEF Step, StepStale, StepCopies, StepSwaps, rebuildVars
<1>7. CASE UNCHANGED vars
  BY <1>1, <1>7 DEF vars, gzipVars, rebuildVars
<1> QED BY <1>2, <1>3, <1>4, <1>5, <1>6, <1>7 DEF Next, Push

LEMMA CopiesLeftBounds ==
    ASSUME IInv, SnapshotIsRoomful
    PROVE  /\ CopiesBounded
           /\ rebuilding => CopiesLeft > 0
           /\ rebuilding => cursor \in Nat /\ Len(snapshot) \in Nat
BY LenProperties, FeedAssumption
   DEF IInv, TypeOK, CachesConsistent, SnapshotIsRoomful, CopiesLeft, CopiesBounded

LEMMA CopiesStep ==
    ASSUME IInv, SnapshotIsRoomful, [Next]_vars
    PROVE  CopiesGoDown
<1>0. /\ CopiesLeft \in Nat
      /\ rebuilding => CopiesLeft > 0
      /\ rebuilding => cursor \in Nat /\ Len(snapshot) \in Nat
      /\ ChunkSize \in Nat \ {0}
  BY CopiesLeftBounds, FeedAssumption DEF CopiesBounded
<1>1. ASSUME UNCHANGED rebuildVars PROVE CopiesLeft' = CopiesLeft
  BY <1>1 DEF rebuildVars, CopiesLeft
<1>2. ASSUME ~rebuilding' PROVE CopiesLeft' = 0
  BY <1>2 DEF CopiesLeft
<1>3. ASSUME Step, rebuilding PROVE CopiesLeft' < CopiesLeft /\ CopiesLeft' <= CopiesLeft
  <2>1. CASE StepCopies
    <3>1. /\ rebuilding' = rebuilding /\ snapshot' = snapshot
          /\ cursor' = cursor + ChunkSize
      BY <1>0, <1>3, <2>1 DEF StepCopies, ChunkEnd
    <3>2. CopiesLeft = Len(snapshot) - cursor + 1
      BY <1>3 DEF CopiesLeft
    <3>3. CopiesLeft' = Len(snapshot) - (cursor + ChunkSize) + 1
      BY <1>3, <3>1 DEF CopiesLeft
    <3> QED BY <1>0, <1>3, <3>2, <3>3
  <2>2. CASE StepSwaps
    BY <1>0, <1>2, <1>3, <2>2 DEF StepSwaps
  <2> QED BY <1>3, <2>1, <2>2 DEF Step, StepStale
<1>4. CASE \E i \in 1..known + 1 : PushKept(i)
  <2>1. CopiesLeft' = CopiesLeft
    BY <1>4 DEF PushKept, CopiesLeft
  <2> QED BY <1>0, <1>3, <2>1 DEF CopiesGoDown
<1>5. CASE Trims
  BY <1>3, <1>5 DEF CopiesGoDown
<1>6. ASSUME NEW r \in Readers, Read(r) PROVE CopiesGoDown
  <2>1. UNCHANGED rebuildVars
    BY <1>6 DEF Read, ReadPlain, ReadFlushed, ReadWaits, ReadOrphaned, Finished, gzipVars
  <2> QED BY <1>0, <1>1, <1>3, <2>1 DEF CopiesGoDown
<1>7. CASE FlushDone
  BY <1>0, <1>1, <1>3, <1>7 DEF FlushDone, CopiesGoDown
<1>8. CASE FlushFails
  BY <1>0, <1>2, <1>3, <1>8 DEF FlushFails, CopiesGoDown
<1>9. CASE Step
  <2>1. CASE rebuilding
    BY <1>3, <1>9, <2>1 DEF CopiesGoDown
  <2>2. CASE ~rebuilding
    <3>1. UNCHANGED rebuildVars
      BY <1>9, <2>2 DEF Step, StepStale, StepCopies, StepSwaps
    <3> QED BY <1>0, <1>1, <2>2, <3>1 DEF CopiesGoDown
  <2> QED BY <2>1, <2>2
<1>10. CASE UNCHANGED vars
  BY <1>0, <1>1, <1>3, <1>10 DEF vars, gzipVars, CopiesGoDown
<1> QED BY <1>4, <1>5, <1>6, <1>7, <1>8, <1>9, <1>10 DEF Next, Push, Trims

\* A rebuild takes at most MaxEntries + 1 callbacks of step(): every one of them
\* brings it nearer to its end, and only a push that trims the room once more
\* starts it over; no reader, flush or other push adds to it (gzipFeed.js's
\* rebuild() and step()).
THEOREM RebuildsWindDown == Spec => []CopiesBounded /\ [][CopiesGoDown]_vars
<1>1. Init => SnapshotIsRoomful
  BY DEF Init, SnapshotIsRoomful
<1>2. IInv /\ SnapshotIsRoomful /\ [Next]_vars => SnapshotIsRoomful'
  BY SnapshotStep
<1>3. IInv /\ SnapshotIsRoomful => CopiesBounded
  BY CopiesLeftBounds
<1>4. IInv /\ SnapshotIsRoomful /\ [Next]_vars => [CopiesGoDown]_vars
  BY CopiesStep
<1> QED BY <1>1, <1>2, <1>3, <1>4, FeedInvariance, PTL DEF Spec
=============================================================================
