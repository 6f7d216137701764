-------------------------- MODULE LineCodecProofs --------------------------
(***************************************************************************)
(* The codec returns the lines of the stream, for every limit, every       *)
(* stream and every cut of it into reads, and its buffer stays bounded.    *)
(***************************************************************************)
EXTENDS LineCodec, FiniteSetTheorems, WellFoundedInduction, TLAPS

-----------------------------------------------------------------------------
(* Newlines of a stream and how they count.                                *)

Less == {pair \in Nat \X Nat : pair[1] < pair[2]}

(* A set of numbers that is not empty has a smallest one.                  *)
LEMMA Smallest ==
  ASSUME NEW S, S \subseteq Nat, S # {}
  PROVE  \E m \in S : \A n \in S : m <= n
<1>1. IsWellFoundedOn(Less, Nat)
  BY NatLessThanWellFounded DEF OpToRel, Less
<1>2. PICK m \in S : \A n \in S : <<n, m>> \notin Less
  BY <1>1, WFMin
<1>3. \A n \in S : ~ (n < m)
  BY <1>2 DEF Less
<1> QED
  BY <1>3

(* One that is bounded has a largest one.                                  *)
LEMMA Largest ==
  ASSUME NEW n \in Nat, NEW S, S \subseteq 1 .. n, S # {}
  PROVE  \E i \in S : \A j \in S : j <= i
<1> DEFINE below == {k \in Nat : n - k \in S}
<1>1. below # {}
  <2>1. PICK i \in S : TRUE
    OBVIOUS
  <2>2. n - i \in Nat /\ n - (n - i) = i
    BY <2>1
  <2> QED
    BY <2>1, <2>2
<1>2. PICK m \in below : \A k \in below : m <= k
  BY <1>1, Smallest
<1>3. ASSUME NEW j \in S PROVE j <= n - m
  <2>1. n - j \in Nat /\ n - (n - j) = j /\ m \in Nat /\ j \in Nat
    BY <1>2
  <2> QED
    BY <1>2, <2>1
<1> QED
  BY <1>2, <1>3

(* The ends of lines are the places of the newlines.                       *)
LEMMA EndsAre ==
  ASSUME NEW bytes \in Seq(Byte)
  PROVE  /\ Len(bytes) \in Nat /\ Ends(bytes) \subseteq 1 .. Len(bytes)
         /\ \A i \in 1 .. Len(bytes) : i \in Ends(bytes) <=> bytes[i] = "LF"
BY DEF Ends

(* They can be counted, so ranks are numbers.                              *)
LEMMA EndsAreFinite ==
  ASSUME NEW bytes \in Seq(Byte)
  PROVE  /\ Ends(bytes) = {i \in 1 .. Len(bytes) : bytes[i] = "LF"}
         /\ IsFiniteSet(Ends(bytes)) /\ Cardinality(Ends(bytes)) \in Nat
         /\ \A e : /\ IsFiniteSet({i \in Ends(bytes) : i <= e})
                   /\ Rank(bytes, e) \in Nat /\ Rank(bytes, e) <= Cardinality(Ends(bytes))
<1>1. Ends(bytes) = {i \in 1 .. Len(bytes) : bytes[i] = "LF"}
  BY DEF Ends
<1>2. Len(bytes) \in Nat
  OBVIOUS
<1>3. IsFiniteSet(1 .. Len(bytes))
  <2>1. PICK n \in Nat : n = Len(bytes)
    BY <1>2
  <2>2. IsFiniteSet(1 .. n)
    BY FS_Interval
  <2> QED
    BY <2>1, <2>2
<1>4. IsFiniteSet(Ends(bytes))
  <2>1. Ends(bytes) \in SUBSET (1 .. Len(bytes))
    BY <1>1
  <2> QED
    BY <1>3, <2>1, FS_Subset
<1>5. ASSUME NEW e
      PROVE  /\ IsFiniteSet({i \in Ends(bytes) : i <= e})
             /\ Rank(bytes, e) \in Nat /\ Rank(bytes, e) <= Cardinality(Ends(bytes))
  <2> DEFINE upTo == {i \in Ends(bytes) : i <= e}
  <2>1. upTo \in SUBSET Ends(bytes)
    OBVIOUS
  <2> HIDE DEF upTo
  <2>2. IsFiniteSet(upTo) /\ Cardinality(upTo) <= Cardinality(Ends(bytes))
    BY <1>4, <2>1, FS_Subset
  <2>3. Cardinality(upTo) \in Nat
    BY <2>2, FS_CardinalityType
  <2> QED
    BY <2>2, <2>3 DEF upTo, Rank
<1> QED
  BY <1>1, <1>4, <1>5, FS_CardinalityType

(* Bytes that are no newlines do not count.                                *)
LEMMA RankOfGap ==
  ASSUME NEW bytes \in Seq(Byte), NEW s \in Nat, NEW n \in Nat, s <= n,
         \A i \in s + 1 .. n : bytes[i] # "LF"
  PROVE  Rank(bytes, n) = Rank(bytes, s)
<1>1. {i \in Ends(bytes) : i <= n} = {i \in Ends(bytes) : i <= s}
  BY EndsAreFinite
<1> QED
  BY <1>1 DEF Rank

(* A newline counts one, and so does the next behind it.                   *)
LEMMA RankOfNext ==
  ASSUME NEW bytes \in Seq(Byte), NEW s \in Nat, NEW n \in Ends(bytes), s < n,
         \A i \in s + 1 .. n - 1 : bytes[i] # "LF"
  PROVE  Rank(bytes, n) = Rank(bytes, s) + 1
<1> DEFINE upTo == {i \in Ends(bytes) : i <= s}
<1>1. {i \in Ends(bytes) : i <= n} = upTo \cup {n} /\ n \notin upTo
  BY EndsAreFinite
<1>2. IsFiniteSet(upTo)
  BY EndsAreFinite
<1> HIDE DEF upTo
<1>3. Cardinality(upTo \cup {n}) = Cardinality(upTo) + 1
  BY <1>1, <1>2, FS_AddElement
<1> QED
  BY <1>1, <1>3 DEF Rank, upTo

(* A later newline ends a line of higher rank.                             *)
LEMMA RankOfLater ==
  ASSUME NEW bytes \in Seq(Byte), NEW s \in Nat, NEW n \in Ends(bytes), s < n
  PROVE  Rank(bytes, n) > Rank(bytes, s)
<1> DEFINE upTo == {i \in Ends(bytes) : i <= s}
           upToN == {i \in Ends(bytes) : i <= n}
<1>1. upTo \cup {n} \in SUBSET upToN /\ n \notin upTo
  BY EndsAreFinite
<1>2. IsFiniteSet(upTo) /\ IsFiniteSet(upToN)
  BY EndsAreFinite
<1>3. Cardinality(upTo) = Rank(bytes, s) /\ Cardinality(upToN) = Rank(bytes, n)
  BY DEF Rank
<1>4. Rank(bytes, s) \in Nat /\ Rank(bytes, n) \in Nat
  BY EndsAreFinite
<1> HIDE DEF upTo, upToN
<1>5. Cardinality(upTo \cup {n}) = Cardinality(upTo) + 1
  BY <1>1, <1>2, FS_AddElement
<1>6. Cardinality(upTo \cup {n}) <= Cardinality(upToN)
  BY <1>1, <1>2, FS_Subset
<1> QED
  BY <1>3, <1>4, <1>5, <1>6

(* The newlines up to a place have the ranks up to its own.                *)
LEMMA RankOfEarlier ==
  ASSUME NEW bytes \in Seq(Byte), NEW s \in Nat, NEW n \in Ends(bytes), n <= s
  PROVE  Rank(bytes, n) \in 1 .. Rank(bytes, s)
<1>1. n \in Nat /\ n - 1 \in Nat /\ n - 1 < n
  BY EndsAreFinite
<1>2. Rank(bytes, n) > Rank(bytes, n - 1) /\ Rank(bytes, n - 1) \in Nat
  BY <1>1, RankOfLater, EndsAreFinite
<1>3. {i \in Ends(bytes) : i <= n} \in SUBSET {i \in Ends(bytes) : i <= s}
  BY <1>1, EndsAreFinite
<1>4. Rank(bytes, n) <= Rank(bytes, s)
  BY <1>3, EndsAreFinite, FS_Subset DEF Rank
<1>5. Rank(bytes, n) \in Nat /\ Rank(bytes, s) \in Nat
  BY EndsAreFinite
<1> QED
  BY <1>2, <1>4, <1>5

(* A line starts behind the newline that ends the one before.              *)
LEMMA LineFrom ==
  ASSUME NEW bytes \in Seq(Byte), NEW s \in Nat, NEW n \in Nat, s < n, s <= Len(bytes),
         s > 0 => bytes[s] = "LF", \A i \in s + 1 .. n - 1 : bytes[i] # "LF"
  PROVE  LineTo(bytes, n) = SubSeq(bytes, s + 1, n - 1)
<1> DEFINE before == {i \in Ends(bytes) : i < n}
<1>1. \A i \in before : i \in 1 .. s
  BY EndsAreFinite
<1>2. CASE s = 0
  <2>1. before = {}
    BY <1>1, <1>2
  <2>2. Start(bytes, n) = 1
    BY <2>1 DEF Start
  <2> QED
    BY <1>2, <2>2 DEF LineTo
<1>3. CASE s > 0
  <2>1. s \in before
    BY <1>3, EndsAreFinite
  <2>2. \E i \in before : \A j \in before : j <= i
    BY <1>1, <2>1
  <2>3. (CHOOSE i \in before : \A j \in before : j <= i) = s
    <3> DEFINE last == CHOOSE i \in before : \A j \in before : j <= i
    <3>1. last \in before /\ \A j \in before : j <= last
      BY <2>2
    <3> HIDE DEF last, before
    <3>2. last = s
      BY <1>1, <2>1, <3>1
    <3> QED
      BY <3>2 DEF last
  <2>4. Start(bytes, n) = 1 + s
    BY <2>1, <2>3 DEF Start
  <2> QED
    BY <2>4 DEF LineTo
<1> QED
  BY <1>2, <1>3

(* More bytes change nothing of the lines that have ended.                 *)
LEMMA MoreBytes ==
  ASSUME NEW bytes \in Seq(Byte), NEW more \in Seq(Byte), NEW s \in 0 .. Len(bytes)
  PROVE  /\ Rank(bytes \o more, s) = Rank(bytes, s)
         /\ \A e \in Ends(bytes \o more) : e <= s =>
              e \in Ends(bytes) /\ LineTo(bytes \o more, e) = LineTo(bytes, e)
<1> DEFINE all == bytes \o more
<1>1. /\ all \in Seq(Byte) /\ Len(all) = Len(bytes) + Len(more)
      /\ \A i \in 1 .. Len(bytes) : all[i] = bytes[i]
  OBVIOUS
<1> HIDE DEF all
<1>2. \A i \in 1 .. Len(bytes) : i \in Ends(all) <=> i \in Ends(bytes)
  <2>1. \A i \in 1 .. Len(bytes) : i \in Ends(all) <=> all[i] = "LF"
    BY <1>1, EndsAre
  <2>2. \A i \in 1 .. Len(bytes) : i \in Ends(bytes) <=> bytes[i] = "LF"
    BY EndsAre
  <2> QED
    BY <1>1, <2>1, <2>2
<1>3. {i \in Ends(all) : i <= s} = {i \in Ends(bytes) : i <= s}
  <2>1. \A i : i \in Ends(all) /\ i <= s => i \in 1 .. Len(bytes)
    BY <1>1, EndsAre
  <2>2. \A i : i \in Ends(bytes) => i \in 1 .. Len(bytes)
    BY EndsAre
  <2> QED
    BY <1>2, <2>1, <2>2
<1>4. ASSUME NEW e \in Ends(all), e <= s
      PROVE  e \in Ends(bytes) /\ LineTo(all, e) = LineTo(bytes, e)
  <2>1. e \in 1 .. Len(bytes)
    BY <1>1, <1>4, EndsAre
  <2>2. {i \in Ends(all) : i < e} = {i \in Ends(bytes) : i < e}
    <3>1. \A i : i \in Ends(all) /\ i < e => i \in 1 .. Len(bytes)
      BY <1>1, <2>1, EndsAre
    <3>2. \A i : i \in Ends(bytes) => i \in 1 .. Len(bytes)
      BY EndsAre
    <3> QED
      BY <1>2, <3>1, <3>2
  <2>3. Start(all, e) = Start(bytes, e)
    <3> DEFINE Behind(S) == IF S = {} THEN 1 ELSE 1 + CHOOSE i \in S : \A j \in S : j <= i
    <3>1. /\ Start(all, e) = Behind({i \in Ends(all) : i < e})
          /\ Start(bytes, e) = Behind({i \in Ends(bytes) : i < e})
      BY DEF Start
    <3> HIDE DEF Behind
    <3> QED
      BY <2>2, <3>1
  <2>4. Start(bytes, e) \in Nat \ {0}
    <3> DEFINE before == {i \in Ends(bytes) : i < e}
    <3>1. Ends(bytes) \subseteq 1 .. Len(bytes) /\ Len(bytes) \in Nat
      BY EndsAre
    <3>2. before \subseteq 1 .. Len(bytes)
      BY <3>1
    <3>3. before # {} => \E i \in before : \A j \in before : j <= i
      BY <3>1, <3>2, Largest
    <3>4. CASE before = {}
      BY <3>4 DEF Start
    <3>5. CASE before # {}
      <4> DEFINE last == CHOOSE i \in before : \A j \in before : j <= i
      <4>1. last \in before
        BY <3>3, <3>5
      <4>2. Start(bytes, e) = 1 + last
        BY <3>5 DEF Start
      <4> QED
        BY <3>2, <4>1, <4>2
    <3> QED
      BY <3>4, <3>5
  <2> QED
    <3>1. e \in Ends(bytes)
      BY <1>2, <1>4, <2>1
    <3>2. \A from \in Nat \ {0} : SubSeq(all, from, e - 1) = SubSeq(bytes, from, e - 1)
      BY <1>1, <2>1
    <3> QED
      BY <2>3, <2>4, <3>1, <3>2, Zenon DEF LineTo
<1> QED
  BY <1>3, <1>4 DEF Rank, all

-----------------------------------------------------------------------------
(* What the decoder finds in its window.                                   *)

(* Without a newline in the window the buffer has none so far.             *)
LEMMA WindowIsScanned ==
  ASSUME LineCodecInv, Newlines = {}
  PROVE  \A i \in 1 .. Len(buffer) : i <= MaxLength + 1 => buffer[i] # "LF"
BY LineCodecConstants DEF LineCodecInv, TypeOK, BufferIsRest, Newlines, Window

(* The newline decode finds is the first of the buffer.                    *)
LEMMA NewlineIsFirst ==
  ASSUME LineCodecInv, Newlines # {}
  PROVE  /\ Newline \in 1 .. Len(buffer) /\ Newline <= MaxLength + 1
         /\ buffer[Newline] = "LF"
         /\ \A i \in 1 .. Newline - 1 : buffer[i] # "LF"
<1>1. Newlines \subseteq Nat
  BY LineCodecConstants DEF LineCodecInv, TypeOK, Newlines, Window
<1>2. Newline \in Newlines /\ \A j \in Newlines : Newline <= j
  <2>1. \E i \in Newlines : \A j \in Newlines : i <= j
    BY <1>1, Smallest
  <2> QED
    BY <2>1 DEF Newline
<1> QED
  BY <1>2, LineCodecConstants DEF LineCodecInv, TypeOK, BufferIsRest, Newlines, Window

(* The bytes that are taken off the buffer are the next ones consumed.     *)
LEMMA Consuming ==
  ASSUME LineCodecInv, NEW n \in 0 .. Len(buffer), sent' = sent,
         buffer' = SubSeq(buffer, n + 1, Len(buffer))
  PROVE  /\ buffer' \in Seq(Byte) /\ Len(buffer') = Len(buffer) - n
         /\ Consumed' = Consumed + n /\ Consumed' \in 0 .. Len(sent)
         /\ \A i \in 1 .. Len(buffer') : buffer'[i] = sent[Consumed' + i]
         /\ \A i \in 1 .. n : sent[Consumed + i] = buffer[i]
<1>1. /\ buffer \in Seq(Byte) /\ sent \in Seq(Byte) /\ Consumed \in 0 .. Len(sent)
      /\ \A i \in 1 .. Len(buffer) : buffer[i] = sent[Consumed + i]
  BY DEF LineCodecInv, TypeOK, BufferIsRest
<1>2. /\ buffer' \in Seq(Byte) /\ Len(buffer') = Len(buffer) - n
      /\ \A i \in 1 .. Len(buffer') : buffer'[i] = buffer[n + i]
  BY <1>1
<1>3. Consumed' = Consumed + n /\ Consumed' \in 0 .. Len(sent)
  <2>1. Len(buffer) \in Nat /\ Len(sent) \in Nat /\ n \in Nat /\ n <= Len(buffer)
    BY <1>1
  <2>2. Consumed = Len(sent) - Len(buffer) /\ Consumed' = Len(sent) - Len(buffer')
    BY DEF Consumed
  <2> QED
    BY <1>1, <1>2, <2>1, <2>2
<1>4. \A i \in 1 .. Len(buffer') : buffer'[i] = sent[Consumed' + i]
  <2> TAKE i \in 1 .. Len(buffer')
  <2>1. n + i \in 1 .. Len(buffer) /\ Consumed + (n + i) = Consumed' + i
    BY <1>1, <1>2, <1>3
  <2> QED
    BY <1>1, <1>2, <2>1
<1> QED
  BY <1>1, <1>2, <1>3, <1>4

(* The places up to n are those before it, and n.                          *)
LEMMA LastOrBefore ==
  ASSUME NEW s \in Nat, NEW n \in Nat, NEW i \in Nat, s < i, i <= n
  PROVE  i = n \/ i \in s + 1 .. n - 1
OBVIOUS

(* What is returned stays so.                                              *)
LEMMA StartStays ==
  ASSUME LineCodecInv, NEW s \in Nat, StartsBehind(s), sent' = sent, s <= Consumed',
         Consumed' \in 0 .. Len(sent), \A k \in 1 .. Rank(sent, s) : out'[k] = out[k]
  PROVE  StartsBehind(s)'
<1>1. sent \in Seq(Byte)
  BY DEF LineCodecInv, TypeOK
<1>2. ASSUME NEW end \in Ends(sent), end <= s
      PROVE  out'[Rank(sent, end)] = ItemOf(LineTo(sent, end))
  <2>1. Rank(sent, end) \in 1 .. Rank(sent, s)
    BY <1>1, <1>2, RankOfEarlier
  <2> QED
    BY <1>2, <2>1 DEF StartsBehind
<1> QED
  BY <1>2 DEF StartsBehind

(* The line behind s is returned and its newline consumed.                 *)
LEMMA LineIsReturned ==
  ASSUME LineCodecInv, sent' = sent, NEW s \in Nat, StartsBehind(s)',
         Consumed' \in Ends(sent), s < Consumed',
         \A i \in s + 1 .. Consumed' - 1 : sent[i] # "LF",
         Len(out') = Rank(sent, s) + 1,
         out'[Rank(sent, s) + 1] = ItemOf(SubSeq(sent, s + 1, Consumed' - 1))
  PROVE  InLine'
<1> DEFINE n == Consumed'
<1>1. sent \in Seq(Byte) /\ n \in Nat /\ n <= Len(sent) /\ sent[n] = "LF"
  <2>1. sent \in Seq(Byte)
    BY DEF LineCodecInv, TypeOK
  <2> QED
    BY <2>1, EndsAre
<1>2. Rank(sent, n) = Rank(sent, s) + 1
  BY <1>1, RankOfNext
<1>3. s <= Len(sent) /\ (s > 0 => sent[s] = "LF")
  BY <1>1 DEF StartsBehind
<1>4. LineTo(sent, n) = SubSeq(sent, s + 1, n - 1)
  BY <1>1, <1>3, LineFrom
<1>5. ASSUME NEW end \in Ends(sent), end <= n
      PROVE  out'[Rank(sent, end)] = ItemOf(LineTo(sent, end))
  <2>1. CASE end <= s
    BY <2>1 DEF StartsBehind
  <2>2. CASE end > s
    <3>1. end \in s + 1 .. n /\ sent[end] = "LF"
      BY <1>1, <1>5, <2>2, EndsAre
    <3>2. end = n
      <4>1. end \in Nat /\ s < end /\ end <= n
        BY <1>1, <1>5, <3>1
      <4>2. end = n \/ end \in s + 1 .. n - 1
        BY <1>1, <4>1, LastOrBefore
      <4> QED
        BY <3>1, <4>2
    <3> QED
      BY <1>2, <1>4, <3>2
  <2>3. end \in Nat
    BY <1>1, EndsAre
  <2> QED
    BY <2>1, <2>2, <2>3
<1>6. n \in 0 .. n
  BY <1>1
<1>7. StartsBehind(Consumed)'
  BY <1>1, <1>5, <1>6 DEF StartsBehind
<1> QED
  BY <1>2, <1>7 DEF InLine

-----------------------------------------------------------------------------
(* One lemma for each arm of the decoder.                                  *)

(* A line in the buffer: the last of the stream is returned already only   *)
(* when there is none.                                                     *)
LEMMA NotLast ==
  ASSUME LineCodecInv, ~ discarding, buffer # <<>>
  PROVE  InLine
BY DEF LineCodecInv, InLast

(* A line is returned as its bytes, or the reason it has none.             *)
LEMMA DecodedIsLine ==
  ASSUME NEW line \in Seq(Byte)
  PROVE  Decoded(line) \in Seq(Byte) \cup {Oversized, NotUtf8}
<1>1. line # <<>> => Front(line) \in Seq(Byte)
  BY DEF Front
<1> QED
  BY <1>1 DEF Decoded

(* The buffer has the bytes of the stream from k on.                       *)
LEMMA SameBytes ==
  ASSUME NEW bytes \in Seq(Byte), NEW rest \in Seq(Byte), NEW k \in Nat, NEW n \in 1 .. Len(rest) + 1,
         k + n - 1 <= Len(bytes), \A i \in 1 .. n - 1 : bytes[k + i] = rest[i]
  PROVE  SubSeq(bytes, k + 1, k + n - 1) = SubSeq(rest, 1, n - 1)
<1>1. /\ SubSeq(bytes, k + 1, k + n - 1) \in Seq(Byte) /\ SubSeq(rest, 1, n - 1) \in Seq(Byte)
      /\ Len(SubSeq(bytes, k + 1, k + n - 1)) = n - 1 /\ Len(SubSeq(rest, 1, n - 1)) = n - 1
  OBVIOUS
<1>2. \A i \in 1 .. n - 1 :
        SubSeq(bytes, k + 1, k + n - 1)[i] = bytes[k + i] /\ SubSeq(rest, 1, n - 1)[i] = rest[i]
  OBVIOUS
<1> QED
  BY <1>1, <1>2

(* The newline of an over-long line ends the discarding behind it.         *)
LEMMA EndDiscardStep == LineCodecInv /\ EndDiscard => LineCodecInv'
<1> SUFFICES ASSUME LineCodecInv, EndDiscard PROVE LineCodecInv'
  OBVIOUS
<1>1. /\ discarding /\ Newlines # {} /\ Decoding
      /\ buffer' = SubSeq(buffer, Newline + 1, Len(buffer))
      /\ discarding' = FALSE /\ scanned' = 0
      /\ phase' = phase /\ sent' = sent /\ out' = out
  BY DEF EndDiscard
<1>2. PICK n \in 1 .. Len(buffer) :
        n = Newline /\ buffer[n] = "LF" /\ \A i \in 1 .. n - 1 : buffer[i] # "LF"
  BY <1>1, NewlineIsFirst
<1>3. n \in 0 .. Len(buffer) /\ buffer' = SubSeq(buffer, n + 1, Len(buffer))
  BY <1>1, <1>2
<1>4. /\ buffer' \in Seq(Byte) /\ Len(buffer') = Len(buffer) - n
      /\ Consumed' = Consumed + n /\ Consumed' \in 0 .. Len(sent)
      /\ \A i \in 1 .. Len(buffer') : buffer'[i] = sent[Consumed' + i]
      /\ \A i \in 1 .. n : sent[Consumed + i] = buffer[i]
  BY <1>1, <1>3, Consuming
<1>5. TypeOK'
  <2>1. 0 \in 0 .. MaxLength
    BY LineCodecConstants
  <2> QED
    BY <1>1, <1>4, <2>1 DEF LineCodecInv, TypeOK
<1>6. BufferIsRest'
  <2>1. scanned' <= Len(buffer') /\ \A i \in 1 .. scanned' : buffer'[i] # "LF"
    BY <1>1, <1>4
  <2>2. phase' # "read" /\ phase' # "ended"
    BY <1>1 DEF Decoding
  <2>3. Consumed' \in 0 .. Len(sent') /\ \A i \in 1 .. Len(buffer') : buffer'[i] = sent'[Consumed' + i]
    BY <1>1, <1>4, Zenon
  <2> QED
    BY <2>1, <2>2, <2>3, Zenon DEF BufferIsRest
<1>7. InLine'
  <2>1. PICK s \in 0 .. Consumed :
          /\ ReturnedFrom(s) /\ out[Len(out)] = Oversized
          /\ s + MaxLength < Len(sent) /\ NoNewline(s + 1, s + MaxLength + 1)
    BY <1>1 DEF LineCodecInv, InOverlong
  <2>2. PICK k \in Nat : k = Consumed /\ k + n <= Len(sent)
    BY <1>4 DEF LineCodecInv, BufferIsRest
  <2>3. /\ s \in Nat /\ s <= k /\ StartsBehind(s) /\ Len(out) = Rank(sent, s) + 1
        /\ \A i \in s + 1 .. k : sent[i] # "LF"
        /\ \A i \in s + 1 .. s + MaxLength + 1 : sent[i] # "LF"
    BY <2>1, <2>2 DEF ReturnedFrom, NoNewline
  <2>4. Consumed' = k + n /\ sent[k + n] = "LF"
    BY <1>2, <1>4, <2>2
  <2>5. \A i \in s + 1 .. k + n - 1 : sent[i] # "LF"
    <3> TAKE i \in s + 1 .. k + n - 1
    <3>1. CASE i <= k
      BY <2>3, <3>1
    <3>2. CASE i > k
      <4>1. i - k \in 1 .. n - 1 /\ i - k \in 1 .. n /\ k + (i - k) = i
        BY <2>3, <3>2
      <4> QED
        BY <1>2, <1>4, <2>2, <4>1, ZenonT(60)
    <3> QED
      BY <2>3, <3>1, <3>2
  <2>6. s + MaxLength + 1 < k + n
    <3>1. ASSUME k + n <= s + MaxLength + 1 PROVE FALSE
      <4>1. k + n \in s + 1 .. s + MaxLength + 1
        BY <2>3, <3>1
      <4> QED
        BY <2>3, <2>4, <4>1
    <3> QED
      BY <2>3, <3>1, LineCodecConstants
  <2>7. ItemOf(SubSeq(sent, s + 1, k + n - 1)) = Oversized
    <3>1. Len(SubSeq(sent, s + 1, k + n - 1)) = k + n - 1 - s
      BY <2>2, <2>3, <2>6, LineCodecConstants DEF LineCodecInv, TypeOK
    <3>2. k + n - 1 - s > MaxLength
      BY <2>3, <2>6, LineCodecConstants
    <3> QED
      BY <3>1, <3>2 DEF ItemOf
  <2>8. k + n \in Ends(sent)
    BY <2>2, <2>4, EndsAre DEF LineCodecInv, TypeOK
  <2>9. StartsBehind(s)'
    <3>1. s <= Consumed'
      BY <2>3, <2>4
    <3> QED
      BY <1>1, <1>4, <2>3, <3>1, StartStays
  <2> QED
    BY <1>1, <2>1, <2>3, <2>4, <2>5, <2>6, <2>7, <2>8, <2>9, LineIsReturned
<1> QED
  BY <1>1, <1>5, <1>6, <1>7 DEF LineCodecInv

(* What is discarded belongs to a line that is returned already.           *)
LEMMA DiscardStep == LineCodecInv /\ Discard => LineCodecInv'
<1> SUFFICES ASSUME LineCodecInv, Discard PROVE LineCodecInv'
  OBVIOUS
<1>1. /\ discarding /\ Newlines = {} /\ Decoding
      /\ buffer' = SubSeq(buffer, MaxLength + 2, Len(buffer))
      /\ IF buffer' = <<>> THEN AskForMore ELSE UNCHANGED phase
      /\ discarding' = discarding /\ scanned' = 0
      /\ sent' = sent /\ out' = out
  BY DEF Discard
<1>2. PICK n \in 0 .. Len(buffer) :
        buffer' = SubSeq(buffer, n + 1, Len(buffer)) /\ n <= MaxLength + 1
  <2>1. CASE Len(buffer) <= MaxLength + 1
    <3>1. Len(buffer) \in 0 .. Len(buffer)
      BY DEF LineCodecInv, TypeOK
    <3>2. buffer' = <<>> /\ SubSeq(buffer, Len(buffer) + 1, Len(buffer)) = <<>>
      BY <1>1, <2>1, <3>1, LineCodecConstants DEF LineCodecInv, TypeOK
    <3> QED
      BY <2>1, <3>1, <3>2
  <2>2. CASE Len(buffer) > MaxLength + 1
    <3>1. PICK n \in 0 .. Len(buffer) : n = MaxLength + 1 /\ n + 1 = MaxLength + 2
      BY <2>2, LineCodecConstants DEF LineCodecInv, TypeOK
    <3>2. buffer' = SubSeq(buffer, n + 1, Len(buffer)) /\ n <= MaxLength + 1
      BY <1>1, <3>1
    <3> QED
      BY <3>2
  <2>3. Len(buffer) \in Nat /\ MaxLength \in Nat
    BY LineCodecConstants DEF LineCodecInv, TypeOK
  <2> QED
    BY <2>1, <2>2, <2>3
<1>3. /\ buffer' \in Seq(Byte) /\ Len(buffer') = Len(buffer) - n
      /\ Consumed' = Consumed + n /\ Consumed' \in 0 .. Len(sent)
      /\ \A i \in 1 .. Len(buffer') : buffer'[i] = sent[Consumed' + i]
      /\ \A i \in 1 .. n : sent[Consumed + i] = buffer[i]
  BY <1>1, <1>2, Consuming
<1>4. phase' \in {"read", "decode", "decode_eof", "ended"}
      /\ (phase' \in {"read", "ended"} => buffer' = <<>>)
  BY <1>1 DEF AskForMore, Decoding, LineCodecInv, TypeOK
<1>5. TypeOK'
  <2>1. 0 \in 0 .. MaxLength
    BY LineCodecConstants
  <2> QED
    BY <1>1, <1>3, <1>4, <2>1 DEF LineCodecInv, TypeOK
<1>6. BufferIsRest'
  <2>1. 0 <= Len(buffer') /\ \A i \in 1 .. 0 : buffer'[i] # "LF"
    BY <1>3
  <2> QED
    BY <1>1, <1>3, <1>4, <2>1 DEF BufferIsRest
<1>7. InOverlong'
  <2>1. PICK s \in 0 .. Consumed :
          /\ ReturnedFrom(s) /\ out[Len(out)] = Oversized
          /\ s + MaxLength < Len(sent) /\ NoNewline(s + 1, s + MaxLength + 1)
    BY <1>1 DEF LineCodecInv, InOverlong
  <2>2. PICK k \in Nat : k = Consumed /\ k + n <= Len(sent)
    BY <1>3 DEF LineCodecInv, BufferIsRest
  <2>3. /\ s \in Nat /\ s <= k /\ StartsBehind(s) /\ Len(out) = Rank(sent, s) + 1
        /\ \A i \in s + 1 .. k : sent[i] # "LF"
    BY <2>1, <2>2 DEF ReturnedFrom, NoNewline
  <2>4. \A i \in s + 1 .. k + n : sent[i] # "LF"
    <3> TAKE i \in s + 1 .. k + n
    <3>1. CASE i <= k
      BY <2>3, <3>1
    <3>2. CASE i > k
      <4>1. i - k \in 1 .. n /\ i - k \in 1 .. Len(buffer) /\ i - k <= MaxLength + 1
            /\ k + (i - k) = i
        BY <1>2, <2>3, <3>2, LineCodecConstants DEF LineCodecInv, TypeOK
      <4> QED
        BY <1>1, <1>3, <2>2, <4>1, WindowIsScanned, ZenonT(60)
    <3> QED
      BY <2>3, <3>1, <3>2
  <2>5. Consumed' = k + n /\ s \in 0 .. k + n
    BY <1>3, <2>2, <2>3
  <2>6. StartsBehind(s)'
    BY <1>1, <1>3, <2>3, <2>5, StartStays
  <2>7. ReturnedFrom(s)'
    BY <1>1, <2>3, <2>4, <2>5, <2>6 DEF ReturnedFrom, NoNewline
  <2> QED
    BY <1>1, <2>1, <2>5, <2>7 DEF InOverlong, NoNewline
<1> QED
  BY <1>1, <1>5, <1>6, <1>7 DEF LineCodecInv

(* The line up to the newline is returned and the next begins behind it.   *)
LEMMA CompleteStep == LineCodecInv /\ Complete => LineCodecInv'
<1> SUFFICES ASSUME LineCodecInv, Complete PROVE LineCodecInv'
  OBVIOUS
<1>1. /\ ~ discarding /\ Newlines # {} /\ Decoding
      /\ buffer' = SubSeq(buffer, Newline + 1, Len(buffer))
      /\ discarding' = discarding /\ scanned' = 0
      /\ out' = Append(out, Decoded(SubSeq(buffer, 1, Newline - 1)))
      /\ phase' = phase /\ sent' = sent
  BY DEF Complete
<1>2. PICK n \in 1 .. Len(buffer) :
        /\ n = Newline /\ n <= MaxLength + 1
        /\ buffer[n] = "LF" /\ \A i \in 1 .. n - 1 : buffer[i] # "LF"
  BY <1>1, NewlineIsFirst
<1>3. n \in 0 .. Len(buffer) /\ buffer' = SubSeq(buffer, n + 1, Len(buffer))
  BY <1>1, <1>2
<1>4. /\ buffer' \in Seq(Byte) /\ Len(buffer') = Len(buffer) - n
      /\ Consumed' = Consumed + n /\ Consumed' \in 0 .. Len(sent)
      /\ \A i \in 1 .. Len(buffer') : buffer'[i] = sent[Consumed' + i]
      /\ \A i \in 1 .. n : sent[Consumed + i] = buffer[i]
  BY <1>1, <1>3, Consuming
<1>5. SubSeq(buffer, 1, n - 1) \in Seq(Byte) /\ Len(SubSeq(buffer, 1, n - 1)) = n - 1
  BY DEF LineCodecInv, TypeOK
<1>6. TypeOK'
  <2>1. 0 \in 0 .. MaxLength
    BY LineCodecConstants
  <2>2. out' \in Seq(Seq(Byte) \cup {Oversized, NotUtf8})
    <3>1. Decoded(SubSeq(buffer, 1, n - 1)) \in Seq(Byte) \cup {Oversized, NotUtf8}
      BY <1>5, DecodedIsLine
    <3>2. out \in Seq(Seq(Byte) \cup {Oversized, NotUtf8})
      BY DEF LineCodecInv, TypeOK
    <3> QED
      BY <1>1, <1>2, <3>1, <3>2
  <2> QED
    BY <1>1, <1>4, <2>1, <2>2 DEF LineCodecInv, TypeOK
<1>7. BufferIsRest'
  <2>1. scanned' <= Len(buffer') /\ \A i \in 1 .. scanned' : buffer'[i] # "LF"
    BY <1>1, <1>4
  <2>2. phase' # "read" /\ phase' # "ended"
    BY <1>1 DEF Decoding
  <2>3. Consumed' \in 0 .. Len(sent') /\ \A i \in 1 .. Len(buffer') : buffer'[i] = sent'[Consumed' + i]
    BY <1>1, <1>4, Zenon
  <2> QED
    BY <2>1, <2>2, <2>3, Zenon DEF BufferIsRest
<1>8. InLine'
  <2>1. PICK k \in Nat : k = Consumed /\ k + n <= Len(sent)
    BY <1>4 DEF LineCodecInv, BufferIsRest
  <2>2. buffer # <<>>
    BY <1>2
  <2>3. StartsBehind(k) /\ Len(out) = Rank(sent, k)
    BY <1>1, <2>1, <2>2, NotLast DEF InLine
  <2>4. Consumed' = k + n /\ sent[k + n] = "LF"
    BY <1>2, <1>4, <2>1
  <2>5. \A i \in k + 1 .. k + n - 1 : sent[i] # "LF"
    <3> TAKE i \in k + 1 .. k + n - 1
    <3>1. i - k \in 1 .. n - 1 /\ i - k \in 1 .. n /\ k + (i - k) = i
      OBVIOUS
    <3> QED
      BY <1>2, <1>4, <2>1, <3>1, ZenonT(60)
  <2>6. SubSeq(sent, k + 1, k + n - 1) = SubSeq(buffer, 1, n - 1)
    <3>1. sent \in Seq(Byte) /\ buffer \in Seq(Byte) /\ n \in 1 .. Len(buffer) + 1
          /\ k + n - 1 <= Len(sent)
      BY <2>1 DEF LineCodecInv, TypeOK
    <3>2. \A i \in 1 .. n - 1 : sent[k + i] = buffer[i]
      BY <1>4, <2>1
    <3> QED
      BY <3>1, <3>2, SameBytes
  <2>7. Decoded(SubSeq(buffer, 1, n - 1)) = ItemOf(SubSeq(sent, k + 1, k + n - 1))
    <3>1. ~ (Len(SubSeq(buffer, 1, n - 1)) > MaxLength)
      BY <1>2, <1>5, LineCodecConstants
    <3>2. ItemOf(SubSeq(buffer, 1, n - 1)) = Decoded(SubSeq(buffer, 1, n - 1))
      BY <3>1 DEF ItemOf
    <3> QED
      BY <2>6, <3>2
  <2>8. k + n \in Ends(sent)
    BY <2>1, <2>4, EndsAre DEF LineCodecInv, TypeOK
  <2>9. /\ Len(out') = Rank(sent, k) + 1
        /\ out'[Rank(sent, k) + 1] = ItemOf(SubSeq(sent, k + 1, k + n - 1))
        /\ \A i \in 1 .. Rank(sent, k) : out'[i] = out[i]
    BY <1>1, <1>2, <2>3, <2>7 DEF LineCodecInv, TypeOK
  <2>10. StartsBehind(k)'
    <3>1. k <= Consumed'
      BY <2>4
    <3> QED
      BY <1>1, <1>4, <2>3, <2>9, <3>1, StartStays
  <2> QED
    BY <1>1, <2>4, <2>5, <2>8, <2>9, <2>10, LineIsReturned
<1> QED
  BY <1>1, <1>6, <1>7, <1>8 DEF LineCodecInv

(* A line too long without its newline is returned before its end is known.*)
LEMMA OversizeStep == LineCodecInv /\ Oversize => LineCodecInv'
<1> SUFFICES ASSUME LineCodecInv, Oversize PROVE LineCodecInv'
  OBVIOUS
<1>1. /\ ~ discarding /\ Newlines = {} /\ Decoding /\ Len(buffer) > MaxLength
      /\ discarding' = TRUE /\ out' = Append(out, Oversized)
      /\ buffer' = buffer /\ scanned' = scanned /\ phase' = phase /\ sent' = sent
  BY DEF Oversize, Overlong
<1>2. /\ sent \in Seq(Byte) /\ buffer \in Seq(Byte) /\ Consumed \in 0 .. Len(sent)
      /\ Len(sent) = Consumed + Len(buffer)
      /\ \A i \in 1 .. Len(buffer) : buffer[i] = sent[Consumed + i]
  BY DEF LineCodecInv, TypeOK, BufferIsRest, Consumed
<1>3. TypeOK'
  BY <1>1 DEF LineCodecInv, TypeOK
<1>4. Consumed' = Consumed
  BY <1>1 DEF Consumed
<1>5. BufferIsRest'
  BY <1>1, <1>4 DEF LineCodecInv, BufferIsRest, Decoding
<1>6. InOverlong'
  <2>1. buffer # <<>>
    BY <1>1, LineCodecConstants
  <2>2. PICK k \in Nat : k = Consumed /\ k + MaxLength < Len(sent)
    BY <1>1, <1>2, LineCodecConstants
  <2>3. StartsBehind(k) /\ Len(out) = Rank(sent, k)
    BY <1>1, <2>1, <2>2, NotLast DEF InLine
  <2>4. Rank(sent, k) \in Nat
    BY <1>2, EndsAreFinite
  <2>5. /\ Len(out') = Rank(sent, k) + 1 /\ out'[Len(out')] = Oversized
        /\ \A i \in 1 .. Rank(sent, k) : out'[i] = out[i]
    BY <1>1, <2>3, <2>4 DEF LineCodecInv, TypeOK
  <2>6. StartsBehind(k)'
    BY <1>1, <1>2, <1>4, <2>2, <2>3, <2>5, StartStays
  <2>7. \A i \in k + 1 .. k + MaxLength + 1 : sent[i] # "LF"
    <3> TAKE i \in k + 1 .. k + MaxLength + 1
    <3>1. i - k \in 1 .. Len(buffer) /\ i - k <= MaxLength + 1 /\ k + (i - k) = i
      BY <1>1, <1>2, LineCodecConstants
    <3> QED
      BY <1>1, <1>2, <2>2, <3>1, WindowIsScanned
  <2>8. ReturnedFrom(k)'
    BY <1>1, <1>4, <2>2, <2>5, <2>6 DEF ReturnedFrom, NoNewline
  <2> QED
    BY <1>1, <1>4, <2>2, <2>5, <2>7, <2>8 DEF InOverlong, NoNewline
<1> QED
  BY <1>1, <1>3, <1>5, <1>6 DEF LineCodecInv

(* When there is no newline everything is scanned.                         *)
LEMMA WaitForMoreStep == LineCodecInv /\ WaitForMore => LineCodecInv'
<1> SUFFICES ASSUME LineCodecInv, WaitForMore PROVE LineCodecInv'
  OBVIOUS
<1>1. /\ phase = "decode" /\ ~ discarding /\ Newlines = {} /\ ~ (Len(buffer) > MaxLength)
      /\ scanned' = Len(buffer) /\ phase' = "read"
      /\ buffer' = buffer /\ discarding' = discarding /\ sent' = sent /\ out' = out
  BY DEF WaitForMore, Overlong, AskForMore
<1>2. Consumed' = Consumed
  BY <1>1 DEF Consumed
<1>3. Len(buffer) \in 0 .. MaxLength
  BY <1>1, LineCodecConstants DEF LineCodecInv, TypeOK
<1>4. TypeOK'
  BY <1>1, <1>3 DEF LineCodecInv, TypeOK
<1>5. BufferIsRest'
  <2>1. \A i \in 1 .. Len(buffer) : buffer[i] # "LF"
    BY <1>1, <1>3, WindowIsScanned, LineCodecConstants
  <2> QED
    BY <1>1, <1>2, <1>3, <2>1 DEF LineCodecInv, BufferIsRest
<1>6. InLine'
  <2>1. InLine
    BY <1>1 DEF LineCodecInv, InLast
  <2> QED
    BY <1>1, <1>2, <2>1 DEF InLine, StartsBehind
<1> QED
  BY <1>1, <1>4, <1>5, <1>6 DEF LineCodecInv

(* decode_eof returns what is behind the last newline.                     *)
LEMMA LastLineStep == LineCodecInv /\ LastLine => LineCodecInv'
<1> SUFFICES ASSUME LineCodecInv, LastLine PROVE LineCodecInv'
  OBVIOUS
<1>1. /\ phase = "decode_eof" /\ ~ discarding /\ Newlines = {} /\ ~ (Len(buffer) > MaxLength)
      /\ buffer' = <<>> /\ scanned' = 0 /\ discarding' = discarding /\ sent' = sent
  BY DEF LastLine, Overlong
<1>2. /\ sent \in Seq(Byte) /\ buffer \in Seq(Byte) /\ Consumed \in 0 .. Len(sent)
      /\ Len(sent) = Consumed + Len(buffer) /\ Len(buffer) \in Nat
      /\ \A i \in 1 .. Len(buffer) : buffer[i] = sent[Consumed + i]
  BY DEF LineCodecInv, TypeOK, BufferIsRest, Consumed
<1>3. Consumed' = Len(sent)
  BY <1>1, <1>2 DEF Consumed
<1>4. BufferIsRest'
  <2>1. \A i \in 1 .. 0 : buffer'[i] # "LF" /\ buffer'[i] = sent'[Consumed' + i]
    OBVIOUS
  <2>2. phase' # "read"
    BY <1>1 DEF LastLine, AskForMore
  <2> QED
    BY <1>1, <1>2, <1>3, <2>1, <2>2 DEF BufferIsRest
<1>5. CASE buffer = <<>>
  <2>1. out' = out /\ phase' = "ended" /\ Consumed = Len(sent)
    BY <1>1, <1>2, <1>5 DEF LastLine, AskForMore
  <2>2. TypeOK'
    <3>1. 0 \in 0 .. MaxLength
      BY LineCodecConstants
    <3>2. buffer' = buffer
      BY <1>1, <1>5
    <3> QED
      BY <1>1, <2>1, <3>1, <3>2 DEF LineCodecInv, TypeOK
  <2>3. Consumed' = Consumed
    BY <1>3, <2>1
  <2>4. ASSUME InLine PROVE InLine'
    BY <1>1, <2>1, <2>3, <2>4 DEF InLine, StartsBehind
  <2>5. ASSUME InLast PROVE InLast'
    <3>1. PICK s \in 0 .. Consumed - 1 :
            ReturnedFrom(s) /\ out[Len(out)] = ItemOf(SubSeq(sent, s + 1, Len(sent)))
      BY <2>5 DEF InLast
    <3>2. ReturnedFrom(s)'
      BY <1>1, <2>1, <2>3, <3>1 DEF ReturnedFrom, StartsBehind, NoNewline
    <3>3. s \in 0 .. Consumed' - 1
      BY <2>3, <3>1
    <3> QED
      BY <1>1, <2>1, <3>1, <3>2, <3>3 DEF InLast
  <2> QED
    BY <1>1, <1>4, <2>2, <2>4, <2>5 DEF LineCodecInv
<1>6. CASE buffer # <<>>
  <2>1. out' = Append(out, Decoded(buffer)) /\ phase' = phase
    BY <1>1, <1>6 DEF LastLine
  <2>2. TypeOK'
    <3>1. 0 \in 0 .. MaxLength /\ <<>> \in Seq(Byte)
      BY LineCodecConstants
    <3>2. Decoded(buffer) \in Seq(Byte) \cup {Oversized, NotUtf8}
      BY <1>2, DecodedIsLine
    <3>3. out' \in Seq(Seq(Byte) \cup {Oversized, NotUtf8})
      BY <2>1, <3>2 DEF LineCodecInv, TypeOK
    <3> QED
      BY <1>1, <2>1, <3>1, <3>3 DEF LineCodecInv, TypeOK
  <2>3. PICK k \in Nat : k = Consumed /\ Len(sent) = k + Len(buffer) /\ k < Len(sent)
    BY <1>2, <1>6
  <2>4. StartsBehind(k) /\ Len(out) = Rank(sent, k)
    BY <1>1, <1>6, <2>3, NotLast DEF InLine
  <2>5. Rank(sent, k) \in Nat
    BY <1>2, EndsAreFinite
  <2>6. SubSeq(sent, k + 1, Len(sent)) = buffer
    <3>1. PICK n \in Nat : n = Len(buffer)
      BY <1>2
    <3>2. n + 1 \in 1 .. Len(buffer) + 1 /\ k + (n + 1) - 1 = Len(sent) /\ (n + 1) - 1 = n
      BY <1>2, <2>3, <3>1
    <3>3. SubSeq(sent, k + 1, k + (n + 1) - 1) = SubSeq(buffer, 1, (n + 1) - 1)
      BY <1>2, <2>3, <3>1, <3>2, SameBytes
    <3>4. SubSeq(buffer, 1, n) = buffer
      BY <1>2, <3>1
    <3> QED
      BY <3>2, <3>3, <3>4
  <2>7. ItemOf(SubSeq(sent, k + 1, Len(sent))) = Decoded(buffer)
    BY <1>1, <2>6 DEF ItemOf
  <2>8. /\ Len(out') = Rank(sent, k) + 1
        /\ out'[Len(out')] = ItemOf(SubSeq(sent, k + 1, Len(sent)))
        /\ \A i \in 1 .. Rank(sent, k) : out'[i] = out[i]
    BY <2>1, <2>4, <2>5, <2>7 DEF LineCodecInv, TypeOK
  <2>9. StartsBehind(k)'
    BY <1>1, <1>2, <1>3, <2>3, <2>4, <2>8, StartStays
  <2>10. \A i \in k + 1 .. Len(sent) : sent[i] # "LF"
    <3> TAKE i \in k + 1 .. Len(sent)
    <3>1. i - k \in 1 .. Len(buffer) /\ i - k <= MaxLength + 1 /\ k + (i - k) = i
      BY <1>1, <1>2, <2>3, LineCodecConstants
    <3> QED
      BY <1>1, <1>2, <2>3, <3>1, WindowIsScanned
  <2>11. ReturnedFrom(k)'
    BY <1>1, <1>3, <2>8, <2>9, <2>10 DEF ReturnedFrom, NoNewline
  <2>12. k \in 0 .. Consumed' - 1
    BY <1>2, <1>3, <2>3
  <2>13. InLast'
    BY <1>1, <2>1, <2>8, <2>11, <2>12 DEF InLast
  <2> QED
    BY <1>1, <1>4, <2>2, <2>13 DEF LineCodecInv
<1> QED
  BY <1>5, <1>6

(* Two streams one after the other.                                        *)
LEMMA Joined ==
  ASSUME NEW bytes \in Seq(Byte), NEW more \in Seq(Byte)
  PROVE  /\ bytes \o more \in Seq(Byte) /\ Len(bytes \o more) = Len(bytes) + Len(more)
         /\ \A i \in 1 .. Len(bytes) : (bytes \o more)[i] = bytes[i]
         /\ \A i \in 1 .. Len(more) : (bytes \o more)[Len(bytes) + i] = more[i]
OBVIOUS

(* More bytes leave the buffer's beginning, and what has ended.            *)
LEMMA ReadStep == LineCodecInv /\ Read => LineCodecInv'
<1> SUFFICES ASSUME LineCodecInv, Read PROVE LineCodecInv'
  OBVIOUS
<1>1. phase = "read" /\ phase' = "decode"
      /\ discarding' = discarding /\ scanned' = scanned /\ out' = out
  BY DEF Read
<1>2. PICK bytes \in Seq(Byte) : buffer' = buffer \o bytes /\ sent' = sent \o bytes
  <2>1. PICK n \in 1 .. MaxRead : \E bytes \in [1 .. n -> Byte] :
          buffer' = buffer \o bytes /\ sent' = sent \o bytes
    BY DEF Read
  <2>2. PICK bytes \in [1 .. n -> Byte] : buffer' = buffer \o bytes /\ sent' = sent \o bytes
    BY <2>1
  <2>3. bytes \in Seq(Byte)
    BY LineCodecConstants
  <2> QED
    BY <2>2, <2>3
<1>3. /\ sent \in Seq(Byte) /\ buffer \in Seq(Byte)
      /\ \A i \in 1 .. Len(buffer) : buffer[i] = sent[Consumed + i]
  BY DEF LineCodecInv, TypeOK, BufferIsRest
<1>4. PICK k \in Nat, n \in Nat, m \in Nat :
        k = Consumed /\ n = Len(buffer) /\ m = Len(bytes) /\ Len(sent) = k + n
  <2>1. Consumed \in Nat /\ Len(buffer) \in Nat /\ Len(bytes) \in Nat /\ Len(sent) \in Nat
    BY <1>2, <1>3 DEF LineCodecInv, BufferIsRest
  <2>2. Len(sent) = Consumed + Len(buffer)
    BY <2>1 DEF Consumed
  <2> QED
    BY <2>1, <2>2
<1>5. /\ buffer' \in Seq(Byte) /\ Len(buffer') = n + m
      /\ sent' \in Seq(Byte) /\ Len(sent') = k + n + m
      /\ \A i \in 1 .. n : buffer'[i] = buffer[i]
      /\ \A i \in 1 .. m : buffer'[n + i] = bytes[i] /\ sent'[k + n + i] = bytes[i]
      /\ \A i \in 1 .. k + n : sent'[i] = sent[i]
  <2>1. /\ buffer' \in Seq(Byte) /\ Len(buffer') = n + m
        /\ \A i \in 1 .. n : buffer'[i] = buffer[i]
        /\ \A i \in 1 .. m : buffer'[n + i] = bytes[i]
    BY <1>2, <1>3, <1>4, Joined
  <2>2. /\ sent' \in Seq(Byte) /\ Len(sent') = k + n + m
        /\ \A i \in 1 .. k + n : sent'[i] = sent[i]
        /\ \A i \in 1 .. m : sent'[k + n + i] = bytes[i]
    <3>1. PICK l \in Nat : l = Len(sent) /\ l = k + n
      BY <1>4
    <3>2. /\ sent' \in Seq(Byte) /\ Len(sent') = l + m
          /\ \A i \in 1 .. l : sent'[i] = sent[i]
          /\ \A i \in 1 .. m : sent'[l + i] = bytes[i]
      <4>1. /\ sent' \in Seq(Byte) /\ Len(sent') = Len(sent) + Len(bytes)
            /\ \A i \in 1 .. Len(sent) : sent'[i] = sent[i]
            /\ \A i \in 1 .. Len(bytes) : sent'[Len(sent) + i] = bytes[i]
        BY <1>2, <1>3, Joined
      <4> QED
        BY <1>4, <3>1, <4>1
    <3> QED
      BY <3>1, <3>2
  <2> QED
    BY <2>1, <2>2
<1>6. Consumed' = k
  BY <1>5 DEF Consumed
<1>7. TypeOK'
  BY <1>1, <1>5 DEF LineCodecInv, TypeOK
<1>8. BufferIsRest'
  <2>1. ASSUME NEW i \in 1 .. n + m PROVE buffer'[i] = sent'[k + i]
    <3>1. CASE i <= n
      <4>1. i \in 1 .. n /\ k + i \in 1 .. k + n
        BY <3>1
      <4> QED
        BY <1>3, <1>4, <1>5, <4>1
    <3>2. CASE i > n
      <4>1. i - n \in 1 .. m /\ n + (i - n) = i /\ k + n + (i - n) = k + i
        BY <3>2
      <4> QED
        BY <1>5, <4>1, ZenonT(60)
    <3> QED
      BY <3>1, <3>2
  <2>2. scanned \in Nat /\ scanned <= n /\ \A i \in 1 .. scanned : buffer[i] # "LF"
    BY <1>4 DEF LineCodecInv, TypeOK, BufferIsRest
  <2>3. \A i \in 1 .. scanned : buffer'[i] # "LF"
    <3>1. \A i \in 1 .. scanned : i \in 1 .. n
      BY <2>2
    <3> QED
      BY <1>5, <2>2, <3>1, Zenon
  <2> QED
    BY <1>1, <1>5, <1>6, <2>1, <2>2, <2>3 DEF BufferIsRest
<1>9. ASSUME NEW s \in 0 .. k, StartsBehind(s)
      PROVE  StartsBehind(s)' /\ Rank(sent', s) = Rank(sent, s)
  <2>1. s \in 0 .. Len(sent)
    BY <1>4
  <2>2. /\ Rank(sent', s) = Rank(sent, s)
        /\ \A e \in Ends(sent') : e <= s =>
             e \in Ends(sent) /\ LineTo(sent', e) = LineTo(sent, e)
    BY <1>2, <1>3, <2>1, MoreBytes
  <2>3. \A e \in Ends(sent') : e <= s => Rank(sent', e) = Rank(sent, e)
    <3> SUFFICES ASSUME NEW e \in Ends(sent'), e <= s PROVE Rank(sent', e) = Rank(sent, e)
      OBVIOUS
    <3>1. e \in 0 .. Len(sent)
      BY <1>3, <2>1, <2>2, EndsAre
    <3> QED
      BY <1>2, <1>3, <3>1, MoreBytes
  <2>4. s > 0 => sent'[s] = "LF"
    BY <1>4, <1>5, <1>9 DEF StartsBehind
  <2> QED
    BY <1>1, <1>6, <1>9, <2>2, <2>3, <2>4 DEF StartsBehind
<1>10. CASE discarding
  <2>1. PICK s \in 0 .. k :
          /\ ReturnedFrom(s) /\ out[Len(out)] = Oversized
          /\ s + MaxLength < Len(sent) /\ NoNewline(s + 1, s + MaxLength + 1)
    BY <1>4, <1>10 DEF LineCodecInv, InOverlong
  <2>2. StartsBehind(s)' /\ Rank(sent', s) = Rank(sent, s)
    BY <1>9, <2>1 DEF ReturnedFrom
  <2>3. /\ \A i \in s + 1 .. k : sent'[i] # "LF"
        /\ \A i \in s + 1 .. s + MaxLength + 1 : sent'[i] # "LF"
    <3>1. /\ \A i \in s + 1 .. k : sent[i] # "LF"
          /\ \A i \in s + 1 .. s + MaxLength + 1 : sent[i] # "LF"
      BY <1>4, <2>1 DEF ReturnedFrom, NoNewline
    <3>2. \A i \in s + 1 .. k : i \in 1 .. k + n
      OBVIOUS
    <3>3. \A i \in s + 1 .. s + MaxLength + 1 : i \in 1 .. k + n
      BY <1>4, <2>1, LineCodecConstants
    <3> QED
      BY <1>5, <3>1, <3>2, <3>3
  <2>4. ReturnedFrom(s)'
    BY <1>1, <1>6, <2>1, <2>2, <2>3 DEF ReturnedFrom, NoNewline
  <2>5. s + MaxLength < Len(sent')
    BY <1>4, <1>5, <2>1, LineCodecConstants
  <2>6. InOverlong'
    BY <1>1, <1>6, <2>1, <2>3, <2>4, <2>5 DEF InOverlong, NoNewline
  <2> QED
    BY <1>1, <1>7, <1>8, <1>10, <2>6 DEF LineCodecInv
<1>11. CASE ~ discarding
  <2>1. InLine
    BY <1>1, <1>11 DEF LineCodecInv, InLast
  <2>2. k \in 0 .. k /\ StartsBehind(k) /\ Len(out) = Rank(sent, k)
    BY <1>4, <2>1 DEF InLine
  <2>3. StartsBehind(k)' /\ Rank(sent', k) = Rank(sent, k)
    BY <1>9, <2>2
  <2>4. InLine'
    BY <1>1, <1>6, <2>2, <2>3 DEF InLine
  <2> QED
    BY <1>1, <1>7, <1>8, <1>11, <2>4 DEF LineCodecInv
<1> QED
  BY <1>10, <1>11

(* The end of the stream changes nothing that was read.                    *)
LEMMA CloseStep == LineCodecInv /\ (Close \/ UNCHANGED vars) => LineCodecInv'
<1> SUFFICES ASSUME LineCodecInv, Close \/ UNCHANGED vars PROVE LineCodecInv'
  OBVIOUS
<1>1. /\ buffer' = buffer /\ discarding' = discarding /\ scanned' = scanned
      /\ sent' = sent /\ out' = out
      /\ phase' = phase \/ (phase = "read" /\ phase' = "decode_eof")
  BY DEF Close, vars, codecVars
<1>2. Consumed' = Consumed
  BY <1>1 DEF Consumed
<1>3. TypeOK' /\ BufferIsRest'
  BY <1>1, <1>2 DEF LineCodecInv, TypeOK, BufferIsRest
<1>4. \A s : (ReturnedFrom(s)' <=> ReturnedFrom(s)) /\ (StartsBehind(s)' <=> StartsBehind(s))
  BY <1>1, <1>2 DEF ReturnedFrom, StartsBehind, NoNewline
<1>5. InLine => InLine'
  BY <1>1, <1>2 DEF InLine, StartsBehind
<1>6. InOverlong => InOverlong'
  BY <1>1, <1>2, <1>4 DEF InOverlong, NoNewline
<1>7. InLast => InLast'
  BY <1>1, <1>2, <1>4 DEF InLast
<1> QED
  BY <1>1, <1>3, <1>5, <1>6, <1>7 DEF LineCodecInv

-----------------------------------------------------------------------------

(* Before the first read nothing is sent, kept or returned.                *)
LEMMA InvInit == Init => LineCodecInv
<1> SUFFICES ASSUME Init PROVE LineCodecInv
  OBVIOUS
<1>1. /\ buffer = <<>> /\ sent = <<>> /\ out = <<>>
      /\ discarding = FALSE /\ scanned = 0 /\ phase = "read"
  BY DEF Init
<1>2. TypeOK
  <2>1. 0 \in 0 .. MaxLength
    BY LineCodecConstants
  <2>2. <<>> \in Seq(Byte) /\ <<>> \in Seq(Seq(Byte) \cup {Oversized, NotUtf8})
    OBVIOUS
  <2> QED
    BY <1>1, <2>1, <2>2 DEF TypeOK
<1>3. Consumed = 0 /\ Ends(sent) = {}
  BY <1>1 DEF Consumed, Ends
<1>4. BufferIsRest
  BY <1>1, <1>3 DEF BufferIsRest
<1>5. Rank(sent, 0) = 0
  <2>1. {i \in Ends(sent) : i <= 0} = {}
    BY <1>3
  <2> QED
    BY <2>1, FS_EmptySet DEF Rank
<1>6. InLine
  BY <1>1, <1>3, <1>5 DEF InLine, StartsBehind
<1> QED
  BY <1>1, <1>2, <1>4, <1>6 DEF LineCodecInv

(* No step of the decoder or of FramedRead disturbs the invariant.         *)
LEMMA InvStep == LineCodecInv /\ [Next]_vars => LineCodecInv'
BY ReadStep, CloseStep, EndDiscardStep, DiscardStep, CompleteStep, OversizeStep,
   WaitForMoreStep, LastLineStep DEF Next, Decode

(* Where no newline follows, a line would be the last.                     *)
LEMMA NoneFollows ==
  ASSUME NEW bytes \in Seq(Byte), NEW s \in 0 .. Len(bytes), s > 0 => bytes[s] = "LF",
         \A i \in s + 1 .. Len(bytes) : bytes[i] # "LF"
  PROVE  /\ Cardinality(Ends(bytes)) = Rank(bytes, s)
         /\ Unended(bytes) = SubSeq(bytes, s + 1, Len(bytes))
         /\ Len(Unended(bytes)) = Len(bytes) - s
<1>1. PICK n \in Nat : n = Len(bytes) /\ s \in Nat /\ s <= n
  OBVIOUS
<1>2. Rank(bytes, n) = Rank(bytes, s)
  BY <1>1, RankOfGap
<1>3. {i \in Ends(bytes) : i <= n} = Ends(bytes)
  BY <1>1, EndsAre
<1>4. LineTo(bytes, n + 1) = SubSeq(bytes, s + 1, (n + 1) - 1)
  <2>1. \A i \in s + 1 .. (n + 1) - 1 : bytes[i] # "LF"
    BY <1>1
  <2> QED
    <3>1. n + 1 \in Nat /\ s \in Nat /\ s < n + 1 /\ s <= Len(bytes)
      BY <1>1
    <3> QED
      BY <2>1, <3>1, LineFrom, Zenon
<1>5. (n + 1) - 1 = n /\ Len(SubSeq(bytes, s + 1, n)) = n - s
  BY <1>1
<1> QED
  BY <1>1, <1>2, <1>3, <1>4, <1>5 DEF Rank, Unended

(* The lines are those of the stream when the codec is between two lines.  *)
LEMMA FramedInLine == LineCodecInv /\ ~ discarding /\ InLine => FramedAsSent
<1> SUFFICES ASSUME LineCodecInv, ~ discarding, InLine PROVE FramedAsSent
  OBVIOUS
<1> DEFINE closed == phase \in {"decode_eof", "ended"}
<1>1. sent \in Seq(Byte) /\ buffer \in Seq(Byte) /\ Len(sent) \in Nat
  BY DEF LineCodecInv, TypeOK
<1>2. PICK k \in 0 .. Len(sent) : k = Consumed /\ Len(buffer) = Len(sent) - k
  <2>1. Consumed \in 0 .. Len(sent) /\ Len(buffer) \in Nat
    BY <1>1 DEF LineCodecInv, BufferIsRest
  <2>2. Len(buffer) = Len(sent) - Consumed
    BY <1>1, <2>1 DEF Consumed
  <2> QED
    BY <2>1, <2>2
<1>3. StartsBehind(k) /\ Len(out) = Rank(sent, k) /\ k \in Nat
  BY <1>1, <1>2 DEF InLine
<1>4. /\ Rank(sent, k) \in Nat /\ Cardinality(Ends(sent)) \in Nat
      /\ Rank(sent, k) <= Cardinality(Ends(sent))
  BY <1>1, EndsAreFinite
<1>5. ASSUME NEW end \in Ends(sent), Rank(sent, end) <= Len(out)
      PROVE  out[Rank(sent, end)] = ItemOf(LineTo(sent, end))
  <2>1. end \in Nat
    BY <1>1, EndsAre
  <2>2. Rank(sent, end) \in Nat
    BY <1>1, EndsAreFinite
  <2>3. ~ (k < end)
    BY <1>1, <1>3, <1>4, <1>5, <2>1, <2>2, RankOfLater
  <2> QED
    BY <1>3, <2>1, <2>3 DEF StartsBehind
<1>6. AsSent(out, sent, closed)
  BY <1>3, <1>4, <1>5 DEF AsSent, Lines
<1>7. ASSUME phase \in {"read", "ended"} PROVE Len(out) = Lines(sent, phase = "ended")
  <2>1. \A i \in 1 .. Len(buffer) : buffer[i] # "LF"
    BY <1>1, <1>7 DEF LineCodecInv, BufferIsRest
  <2>2. \A i \in k + 1 .. Len(sent) : sent[i] # "LF"
    <3> TAKE i \in k + 1 .. Len(sent)
    <3>1. i - k \in 1 .. Len(buffer) /\ k + (i - k) = i
      BY <1>2
    <3> QED
      BY <1>2, <2>1, <3>1 DEF LineCodecInv, BufferIsRest
  <2>3. /\ Cardinality(Ends(sent)) = Rank(sent, k)
        /\ Len(Unended(sent)) = Len(buffer)
        /\ Unended(sent) = SubSeq(sent, k + 1, Len(sent))
    BY <1>1, <1>2, <1>3, <2>2, NoneFollows DEF StartsBehind
  <2>4. ~ (Len(Unended(sent)) > MaxLength)
    BY <1>7, <2>3, LineCodecConstants DEF LineCodecInv, TypeOK, BufferIsRest
  <2>5. phase = "ended" => Unended(sent) = <<>>
    BY <1>1, <1>2, <2>3 DEF LineCodecInv, BufferIsRest
  <2> QED
    BY <1>3, <1>4, <2>3, <2>4, <2>5 DEF Lines
<1> QED
  BY <1>6, <1>7 DEF FramedAsSent

(* When a line is returned before its end, or will have none, whatever     *)
(* ends it is the next newline.                                            *)
LEMMA NextEnd ==
  ASSUME NEW bytes \in Seq(Byte), NEW s \in 0 .. Len(bytes), s > 0 => bytes[s] = "LF",
         NEW end \in Ends(bytes), s < end, Rank(bytes, end) <= Rank(bytes, s) + 1
  PROVE  /\ Rank(bytes, end) = Rank(bytes, s) + 1
         /\ LineTo(bytes, end) = SubSeq(bytes, s + 1, end - 1)
<1>1. s \in Nat /\ end \in 1 .. Len(bytes) /\ end \in Nat /\ s <= Len(bytes)
  BY EndsAre
<1>2. Rank(bytes, s) \in Nat /\ Rank(bytes, end) \in Nat
  BY EndsAreFinite
<1>3. Rank(bytes, end) > Rank(bytes, s)
  BY <1>1, RankOfLater
<1>4. ASSUME NEW i \in s + 1 .. end - 1, bytes[i] = "LF" PROVE FALSE
  <2>1. i \in Ends(bytes) /\ s < i /\ i < end /\ i \in Nat
    BY <1>1, <1>4, EndsAre
  <2>2. Rank(bytes, i) \in Nat
    BY EndsAreFinite
  <2>3. Rank(bytes, i) > Rank(bytes, s) /\ Rank(bytes, end) > Rank(bytes, i)
    BY <1>1, <2>1, RankOfLater
  <2> QED
    BY <1>2, <2>2, <2>3
<1>5. \A i \in s + 1 .. end - 1 : bytes[i] # "LF"
  BY <1>4
<1>6. LineTo(bytes, end) = SubSeq(bytes, s + 1, end - 1)
  BY <1>1, <1>5, LineFrom
<1> QED
  BY <1>2, <1>3, <1>6

(* Nor do they differ when a line was returned before it ended: its last   *)
(* item is the next line that ends, or that of the stream without end.     *)
LEMMA FramedInOverlong == LineCodecInv /\ discarding => FramedAsSent
<1> SUFFICES ASSUME LineCodecInv, discarding PROVE FramedAsSent
  OBVIOUS
<1> DEFINE closed == phase \in {"decode_eof", "ended"}
<1>1. sent \in Seq(Byte) /\ Len(sent) \in Nat /\ Consumed \in 0 .. Len(sent)
      /\ Len(out) \in Nat /\ Last(out) = out[Len(out)]
  BY DEF LineCodecInv, TypeOK, BufferIsRest, Last
<1>2. PICK s \in 0 .. Len(sent) :
        /\ StartsBehind(s) /\ Len(out) = Rank(sent, s) + 1 /\ out[Len(out)] = Oversized
        /\ s + MaxLength < Len(sent)
        /\ \A i \in s + 1 .. Consumed : sent[i] # "LF"
        /\ \A i \in s + 1 .. s + MaxLength + 1 : sent[i] # "LF"
  BY <1>1 DEF LineCodecInv, InOverlong, ReturnedFrom, NoNewline
<1>3. s \in Nat /\ (s > 0 => sent[s] = "LF")
  BY <1>2 DEF StartsBehind
<1>4. /\ Rank(sent, s) \in Nat /\ Cardinality(Ends(sent)) \in Nat
      /\ Rank(sent, s) <= Cardinality(Ends(sent))
  BY <1>1, EndsAreFinite
<1>5. ASSUME NEW end \in Ends(sent), Rank(sent, end) <= Len(out)
      PROVE  out[Rank(sent, end)] = ItemOf(LineTo(sent, end))
  <2>1. end \in Nat /\ end \in 1 .. Len(sent) /\ sent[end] = "LF"
    BY <1>1, EndsAre
  <2>2. CASE end <= s
    BY <1>2, <2>2 DEF StartsBehind
  <2>3. CASE s < end
    <3>1. /\ Rank(sent, end) = Rank(sent, s) + 1
          /\ LineTo(sent, end) = SubSeq(sent, s + 1, end - 1)
      BY <1>1, <1>2, <1>3, <1>5, <2>3, NextEnd
    <3>2. end > s + MaxLength + 1
      <4>1. ASSUME end <= s + MaxLength + 1 PROVE end \in s + 1 .. s + MaxLength + 1
        BY <1>3, <2>1, <2>3, <4>1
      <4> QED
        BY <1>2, <1>3, <2>1, <4>1, LineCodecConstants
    <3>3. Len(SubSeq(sent, s + 1, end - 1)) = end - 1 - s
      BY <1>1, <1>3, <2>1, <2>3
    <3>4. Len(SubSeq(sent, s + 1, end - 1)) > MaxLength
      BY <1>3, <2>1, <3>2, <3>3, LineCodecConstants
    <3> QED
      BY <1>2, <3>1, <3>4 DEF ItemOf
  <2> QED
    BY <1>3, <2>1, <2>2, <2>3
<1>6. CASE \E i \in s + 1 .. Len(sent) : sent[i] = "LF"
  <2>1. PICK i \in s + 1 .. Len(sent) : sent[i] = "LF"
    BY <1>6
  <2>2. i \in Ends(sent) /\ s < i
    BY <1>1, <1>3, <2>1, EndsAre
  <2>3. Rank(sent, i) > Rank(sent, s)
    BY <1>1, <1>3, <2>2, RankOfLater
  <2>4. Rank(sent, i) \in Nat /\ Rank(sent, i) <= Cardinality(Ends(sent))
    BY <1>1, EndsAreFinite
  <2>5. Len(out) <= Cardinality(Ends(sent))
    BY <1>2, <1>4, <2>3, <2>4
  <2>6. AsSent(out, sent, closed)
    BY <1>1, <1>4, <1>5, <2>5 DEF AsSent, Lines
  <2>7. phase \notin {"read", "ended"}
    <3>1. ASSUME phase \in {"read", "ended"} PROVE Consumed = Len(sent)
      BY <1>1, <3>1 DEF LineCodecInv, BufferIsRest, Consumed
    <3> QED
      BY <1>2, <2>1, <3>1
  <2> QED
    BY <2>6, <2>7 DEF FramedAsSent
<1>7. CASE \A i \in s + 1 .. Len(sent) : sent[i] # "LF"
  <2>1. /\ Cardinality(Ends(sent)) = Rank(sent, s) /\ Len(Unended(sent)) = Len(sent) - s
    BY <1>1, <1>2, <1>3, <1>7, NoneFollows
  <2>2. Len(Unended(sent)) > MaxLength
    BY <1>1, <1>2, <1>3, <2>1, LineCodecConstants
  <2>3. Lines(sent, closed) = Len(out) /\ Lines(sent, phase = "ended") = Len(out)
    BY <1>2, <2>1, <2>2 DEF Lines
  <2>4. Last(out) = ItemOf(Unended(sent))
    BY <1>1, <1>2, <2>2 DEF ItemOf
  <2> QED
    BY <1>1, <1>5, <2>3, <2>4 DEF FramedAsSent, AsSent
<1> QED
  BY <1>6, <1>7

(* Nor when the last line of the stream was returned, which has no end.    *)
LEMMA FramedInLast == LineCodecInv /\ ~ discarding /\ InLast => FramedAsSent
<1> SUFFICES ASSUME LineCodecInv, ~ discarding, InLast PROVE FramedAsSent
  OBVIOUS
<1>1. sent \in Seq(Byte) /\ Len(sent) \in Nat /\ Consumed = Len(sent)
      /\ Len(out) \in Nat /\ Last(out) = out[Len(out)]
  BY DEF LineCodecInv, TypeOK, InLast, Consumed, Last
<1>2. PICK s \in 0 .. Len(sent) :
        /\ StartsBehind(s) /\ Len(out) = Rank(sent, s) + 1 /\ s < Len(sent)
        /\ out[Len(out)] = ItemOf(SubSeq(sent, s + 1, Len(sent)))
        /\ \A i \in s + 1 .. Len(sent) : sent[i] # "LF"
  BY <1>1 DEF InLast, ReturnedFrom, NoNewline
<1>3. s \in Nat /\ (s > 0 => sent[s] = "LF")
  BY <1>2 DEF StartsBehind
<1>4. /\ Cardinality(Ends(sent)) = Rank(sent, s)
      /\ Unended(sent) = SubSeq(sent, s + 1, Len(sent))
      /\ Len(Unended(sent)) = Len(sent) - s
  BY <1>1, <1>2, <1>3, NoneFollows
<1>5. Unended(sent) # <<>> /\ Rank(sent, s) \in Nat
  BY <1>1, <1>2, <1>3, <1>4, EndsAreFinite
<1>6. ASSUME NEW end \in Ends(sent)
      PROVE  out[Rank(sent, end)] = ItemOf(LineTo(sent, end))
  <2>1. end \in Nat /\ end \in 1 .. Len(sent) /\ sent[end] = "LF"
    BY <1>1, EndsAre
  <2>2. end <= s
    BY <1>2, <1>3, <2>1
  <2> QED
    BY <1>2, <2>2 DEF StartsBehind
<1>7. phase \in {"decode_eof", "ended"}
  BY DEF InLast
<1>8. Lines(sent, TRUE) = Len(out)
  BY <1>2, <1>4, <1>5 DEF Lines
<1>9. AsSent(out, sent, TRUE)
  <2>1. Len(out) <= Lines(sent, TRUE)
    BY <1>1, <1>2, <1>4, <1>5 DEF Lines
  <2>2. Last(out) = ItemOf(Unended(sent))
    BY <1>1, <1>2, <1>4
  <2> QED
    BY <1>6, <2>1, <2>2 DEF AsSent
<1> QED
  BY <1>7, <1>8, <1>9 DEF FramedAsSent

-----------------------------------------------------------------------------

(* The buffer is the rest of the stream, and what was returned are the     *)
(* lines before it.                                                        *)
THEOREM CodecInvariant == Spec => []LineCodecInv
BY InvInit, InvStep, PTL DEF Spec

(* decode and decode_eof return the lines of the stream, in order, however *)
(* the reads cut it, and every over-long one as a single Oversized.        *)
THEOREM LinesAreFramed == Spec => []FramedAsSent
<1>1. LineCodecInv => FramedAsSent
  BY FramedInLine, FramedInOverlong, FramedInLast DEF LineCodecInv
<1> QED
  BY <1>1, CodecInvariant, PTL

(* decode keeps no more than max_length bytes between reads.               *)
THEOREM BufferStaysBounded == Spec => []BufferIsBounded
<1>1. LineCodecInv => BufferIsBounded
  <2> SUFFICES ASSUME LineCodecInv, phase = "read"
               PROVE  Len(buffer) <= MaxLength /\ (discarding => buffer = <<>>)
    BY DEF BufferIsBounded
  <2>1. discarding => buffer = <<>> /\ Len(buffer) = 0
    BY DEF LineCodecInv, BufferIsRest
  <2>2. ~ discarding => scanned = Len(buffer)
    BY DEF LineCodecInv, BufferIsRest
  <2> QED
    BY <2>1, <2>2, LineCodecConstants DEF LineCodecInv, TypeOK
<1> QED
  BY <1>1, CodecInvariant, PTL
=============================================================================
